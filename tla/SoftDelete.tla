----------------------------- MODULE SoftDelete -----------------------------
(***************************************************************************)
(* Records that are deleted softly: rows with three columns for the        *)
(* deletion, and requests that each hold an instance of a row as they read *)
(* it and write some or all of its columns later.  A transaction locks     *)
(* nothing when it reads, so another request may write in between.         *)
(*                                                                         *)
(* The names are kept apart from those of Accounts, whose erasures are     *)
(* the deletions of users here, so that one module can extend both.        *)
(***************************************************************************)

CONSTANTS
    Users,
    Records,        \* primary keys
    Handlers,       \* requests
    Nothing         \* no user, no row, no instance

Columns == [is_deleted : BOOLEAN, deleted_at : BOOLEAN, deleted_by : Users \union {Nothing}]

\* An instance as read: from which manager; history: from an active row, from a form.
Instances == [pk : Records, columns : Columns, objects : BOOLEAN,
              active : BOOLEAN, form : BOOLEAN]

ASSUME SoftDeleteAssumption == Nothing \notin Users \union Columns \union Instances

VARIABLES
    users,          \* accounts that exist
    records,        \* pk -> the columns of its row
    self,           \* request -> the instance it holds
    \* history
    edited          \* rows whose columns came from the form of the admin site

recordVars == <<users, records, self, edited>>

\* A time is abstracted to whether it is set.
Undeleted == [is_deleted |-> FALSE, deleted_at |-> FALSE, deleted_by |-> Nothing]

Rows == {r \in Records : records[r] # Nothing}
Active == {r \in Rows : ~ records[r].is_deleted}

-----------------------------------------------------------------------------
(* Managers and query sets *)

\* objects.create
Create(r) ==
    /\ r \notin Rows
    /\ records' = [records EXCEPT ![r] = Undeleted]
    /\ UNCHANGED <<users, self, edited>>

\* The add form of RecordAdmin, which has is_deleted and deleted_by.
AddRecord(r, d, u) ==
    /\ r \notin Rows
    /\ u \in users \union {Nothing}
    /\ records' = [records EXCEPT ![r] =
           [is_deleted |-> d, deleted_at |-> FALSE, deleted_by |-> u]]
    /\ edited' = edited \union {r}
    /\ UNCHANGED <<users, self>>

Make(r) == Create(r) \/ \E d \in BOOLEAN, u \in users \union {Nothing} : AddRecord(r, d, u)

Read(q, r, o) ==
    /\ self[q] = Nothing
    /\ self' = [self EXCEPT ![q] = [pk |-> r, columns |-> records[r], objects |-> o,
                                    active |-> r \in Active, form |-> r \in edited]]
    /\ UNCHANGED <<users, records, edited>>

\* A default manager that does not filter.
GetAny(q) == \E r \in Rows : Read(q, r, TRUE)

\* objects.get and all_objects.get
Get(q) == \E r \in Active : Read(q, r, TRUE)
GetAll(q) == \E r \in Rows : Read(q, r, FALSE)

\* objects.filter(...).delete(): one UPDATE of the rows that are active by then.
DeleteQuery(rs) ==
    /\ rs # {}
    /\ rs \subseteq Active
    /\ records' = [r \in Records |->
           IF r \in rs THEN [records[r] EXCEPT !.is_deleted = TRUE, !.deleted_at = TRUE]
           ELSE records[r]]
    /\ edited' = edited \ rs
    /\ UNCHANGED <<users, self>>

\* objects.filter(...).hard_delete(), and delete() of all_objects, which is a plain
\* manager whose query sets remove rows.
PurgeQuery(rs) ==
    /\ rs # {}
    /\ rs \subseteq Rows
    /\ records' = [r \in Records |-> IF r \in rs THEN Nothing ELSE records[r]]
    /\ edited' = edited \ rs
    /\ UNCHANGED <<users, self>>

-----------------------------------------------------------------------------
(* Instances *)

\* save(update_fields): an UPDATE of the three columns, which fails if the row has
\* gone, or refers to a user who has.  The request ends.
Store(q, columns) ==
    /\ self' = [self EXCEPT ![q] = Nothing]
    /\ \/ /\ self[q].pk \in Rows
          /\ columns.deleted_by \in users \union {Nothing}
          /\ records' = [records EXCEPT ![self[q].pk] = columns]
          /\ edited' = edited \ {self[q].pk}
       \/ /\ self[q].pk \notin Rows \/ columns.deleted_by \notin users \union {Nothing}
          /\ UNCHANGED <<records, edited>>
    /\ UNCHANGED users

\* delete: deleted_by stays what was read unless it is given.
Delete(q, u) ==
    /\ self[q] # Nothing
    /\ Store(q, [is_deleted |-> TRUE, deleted_at |-> TRUE,
                 deleted_by |-> IF u = Nothing THEN self[q].columns.deleted_by ELSE u])

\* A restoration that leaves the time of the deletion.
RestoreDated(q) ==
    /\ self[q] # Nothing
    /\ Store(q, [self[q].columns EXCEPT !.is_deleted = FALSE, !.deleted_by = Nothing])

Restore(q) ==
    /\ self[q] # Nothing
    /\ Store(q, Undeleted)

HardDeleteRecord(q) ==
    /\ self[q] # Nothing
    /\ records' = [records EXCEPT ![self[q].pk] = Nothing]
    /\ self' = [self EXCEPT ![q] = Nothing]
    /\ edited' = edited \ {self[q].pk}
    /\ UNCHANGED users

\* RecordAdmin: the form has is_deleted and deleted_by, deleted_at is read-only.
FillForm(q, d, u) ==
    /\ self[q] # Nothing
    /\ self[q].objects
    /\ self' = [self EXCEPT ![q].form = TRUE, ![q].columns.is_deleted = d,
                            ![q].columns.deleted_by = u]
    /\ UNCHANGED <<users, records, edited>>

\* save(): every column of the instance; a row that has gone is inserted again.
Save(q) ==
    /\ self[q] # Nothing
    /\ self' = [self EXCEPT ![q] = Nothing]
    /\ \/ /\ self[q].columns.deleted_by \in users \union {Nothing}
          /\ records' = [records EXCEPT ![self[q].pk] = self[q].columns]
          /\ edited' = IF self[q].form THEN edited \union {self[q].pk}
                       ELSE edited \ {self[q].pk}
       \/ /\ self[q].columns.deleted_by \notin users \union {Nothing}
          /\ UNCHANGED <<records, edited>>
    /\ UNCHANGED users

-----------------------------------------------------------------------------
\* An erasure that goes through the default manager.
DeleteUserActive(u) ==
    /\ u \in users
    /\ users' = users \ {u}
    /\ records' = [r \in Records |->
           IF r \in Active /\ records[r].deleted_by = u
           THEN [records[r] EXCEPT !.deleted_by = Nothing] ELSE records[r]]
    /\ UNCHANGED <<self, edited>>

\* GDPRService.hard_delete: SET_NULL in every row, whatever the default manager hides.
DeleteUser(u) ==
    /\ u \in users
    /\ users' = users \ {u}
    /\ records' = [r \in Records |->
           IF r \in Rows /\ records[r].deleted_by = u
           THEN [records[r] EXCEPT !.deleted_by = Nothing] ELSE records[r]]
    /\ UNCHANGED <<self, edited>>

RecordsInit ==
    /\ users = Users
    /\ records = [r \in Records |-> Nothing]
    /\ self = [q \in Handlers |-> Nothing]
    /\ edited = {}

RecordsNext ==
    \/ \E r \in Records : Make(r)
    \/ \E rs \in SUBSET Records : DeleteQuery(rs) \/ PurgeQuery(rs)
    \/ \E q \in Handlers :
           \/ Get(q) \/ GetAll(q) \/ Restore(q) \/ HardDeleteRecord(q) \/ Save(q)
           \/ \E u \in users \union {Nothing} : Delete(q, u)
           \/ \E d \in BOOLEAN, u \in users \union {Nothing} : FillForm(q, d, u)
    \/ \E u \in Users : DeleteUser(u)

RecordsSpec == RecordsInit /\ [][RecordsNext]_recordVars

-----------------------------------------------------------------------------
\* The deleter of a record exists: no erasure leaves a reference behind.
RecordsOK ==
    /\ users \subseteq Users
    /\ records \in [Records -> Columns \union {Nothing}]
    /\ \A r \in Rows : records[r].deleted_by \in users \union {Nothing}
    /\ self \in [Handlers -> Instances \union {Nothing}]
    /\ edited \subseteq Rows

\* The three columns tell one story, however requests with old instances overlap: a
\* record with a time of deletion is deleted; a deleted one has a time and an active
\* one no deleter, unless the form of the admin site, which cannot set the time, said
\* otherwise.
ColumnsAgree ==
    \A r \in Rows :
        /\ records[r].deleted_at => records[r].is_deleted
        /\ r \notin edited =>
               /\ records[r].is_deleted => records[r].deleted_at
               /\ records[r].deleted_by # Nothing => records[r].is_deleted

\* A deleted record becomes active again only by restore, or by the save of somebody
\* who read it while it was active, which loses the deletion; a removed one comes back
\* only by such a save too, or as it was.
DeletionsLast ==
    [][\A r \in Records :
        /\ r \in Rows \ Active /\ r \in Active' =>
               \E q \in Handlers :
                   self[q] # Nothing /\ self[q].pk = r /\ (Restore(q) \/ (Save(q) /\ self[q].active))
        /\ r \notin Rows /\ r \in Rows' /\ ~ Make(r) =>
               \E q \in Handlers :
                   /\ self[q] # Nothing /\ self[q].pk = r /\ Save(q)
                   /\ r \in Active' => self[q].active]_recordVars

=============================================================================
