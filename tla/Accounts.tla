------------------------------ MODULE Accounts ------------------------------
(***************************************************************************)
(* The table of users and what works on it: registration, password reset,  *)
(* erasure (GDPR) and the seeding of the demo administrator.  Statements   *)
(* commit by themselves except where a service opens a transaction; what a *)
(* request has read may be stale when it writes.                           *)
(*                                                                         *)
(* A request is one call, and gives its own name to what it makes: the key *)
(* of the account it inserts, the password it hashes (a new salt makes it  *)
(* unlike any other) and the placeholder identity an erasure leaves.       *)
(***************************************************************************)
EXTENDS Naturals, FiniteSets

CONSTANTS
    Requests,       \* registrations, resets, erasures and seedings
    OldIds,         \* accounts that exist from the start
    OldRow,         \* their rows
    Names,          \* user names somebody may choose
    Emails,         \* addresses, in lower case
    DemoName, DemoEmail,
    Ops,            \* the operations of this instance
    None            \* no account, no reply, no contents

Ids == Requests \union OldIds

Row == [name : Names \union Requests \union {None},
        email : Emails \union Requests \union {None},
        password : Ids \union {None},
        active : BOOLEAN]

Blank == [name |-> None, email |-> None, password |-> None, active |-> FALSE]

\* The link of a reset mail: it is signed over the key, the hashed password and
\* the address of the account it was made for.
Token == [id : Ids, password : Ids \union {None}, email : Emails \union Requests \union {None}]

ASSUME AccountsAssumption ==
    /\ Requests \intersect (OldIds \union Names \union Emails \union {None}) = {}
    /\ None \notin Names \union Emails \union OldIds
    /\ DemoName \in Names /\ DemoEmail \in Emails
    /\ OldRow \in [OldIds -> Row]
    /\ \A i \in OldIds : /\ OldRow[i].name \in Names
                          /\ OldRow[i].email \in Emails
                          /\ OldRow[i].password \in OldIds
    /\ \A i, j \in OldIds : OldRow[i].name = OldRow[j].name => i = j
    /\ Ops \subseteq {"register", "ask", "confirm", "anonymize", "delete", "seed"}

Replies == {"none", "ok", "conflict", "invalid", "unvalidated", "ambiguous",
            "refused", "missing", "integrity"}

VARIABLES
    rows,           \* keys of the accounts that exist
    account,        \* key -> its row
    mails,          \* tokens that were queued in a reset mail
    welcomed,       \* accounts whose welcome mail was queued
    \* a request
    pc, op, name, email,
    target,         \* the account it works on
    seen,           \* the row as it was read
    token,          \* the link a confirmation was called with
    reply,
    \* history
    erased,         \* accounts whose erasure has committed
    spent,          \* keys ever given out
    outdated        \* tokens whose account has changed its password or address since

table == <<rows, account, erased, spent, outdated>>
input == <<op, name, email, token>>
vars == <<table, mails, welcomed, pc, input, target, seen, reply>>

-----------------------------------------------------------------------------
Goto(q, step) == pc' = [pc EXCEPT ![q] = step]

Answer(q, r) == Goto(q, "done") /\ reply' = [reply EXCEPT ![q] = r]

Named(n) == {i \in rows : account[i].name = n}

Addressed(e) == {i \in rows : account[i].email = e}

TokenOf(i, row) == [id |-> i, password |-> row.password, email |-> row.email]

\* default_token_generator.check_token recomputes the token from the row.
Matches(t, i, row) == t = TokenOf(i, row)

\* History: a new row of account i makes the links of its former row outdated.
Outdate(i) == outdated' = outdated \union
                {t \in mails : t.id = i /\ t # TokenOf(i, account'[i])}

\* What the database refuses: two accounts of one name.
NameFree(n, i) == Named(n) \subseteq {i}

Put(i, row) ==
    /\ rows' = rows \union {i}
    /\ spent' = spent \union {i}
    /\ account' = [account EXCEPT ![i] = row]
    /\ Outdate(i)

-----------------------------------------------------------------------------
(* Arrival *)

Receive(q, o, n, e, t, i) ==
    /\ pc[q] = "new"
    /\ op' = [op EXCEPT ![q] = o]
    /\ name' = [name EXCEPT ![q] = n]
    /\ email' = [email EXCEPT ![q] = e]
    /\ token' = [token EXCEPT ![q] = t]
    /\ target' = [target EXCEPT ![q] = i]
    /\ Goto(q, o)
    /\ UNCHANGED <<table, mails, welcomed, seen, reply>>

Register(q, n, e) == Receive(q, "register", n, e, token[q], None)
Ask(q, e) == Receive(q, "ask", None, e, token[q], None)
Confirm(q, t) == Receive(q, "confirm", None, None, t, t.id)
Seed(q) == Receive(q, "seed", DemoName, DemoEmail, token[q], None)

\* A command that does not ask whether the user exists.
EraseAnybody(q, o, i) == Receive(q, o, None, None, token[q], i)

\* delete_user_data reads the user, then waits for somebody to type "yes".
EraseUser(q, o, i) == i \in rows /\ Receive(q, o, None, None, token[q], i)

-----------------------------------------------------------------------------
(* UserService.create_user *)

CheckName(q) ==
    /\ pc[q] = "register"
    /\ IF Named(name[q]) # {} THEN Answer(q, "conflict")
       ELSE Goto(q, "email") /\ UNCHANGED reply
    /\ UNCHANGED <<table, mails, welcomed, input, target, seen>>

CheckEmail(q) ==
    /\ pc[q] = "email"
    /\ IF Addressed(email[q]) # {} THEN Answer(q, "conflict")
       ELSE Goto(q, "clean") /\ UNCHANGED reply
    /\ UNCHANGED <<table, mails, welcomed, input, target, seen>>

\* full_clean looks for the name once more; what it raises is not caught, and
\* it knows of no rule about addresses.
Clean(q) ==
    /\ pc[q] = "clean"
    /\ IF Named(name[q]) # {} THEN Answer(q, "unvalidated")
       ELSE Goto(q, "insert") /\ UNCHANGED reply
    /\ UNCHANGED <<table, mails, welcomed, input, target, seen>>

Registered(q) == [name |-> name[q], email |-> email[q], password |-> q, active |-> TRUE]

\* A welcome mail that is queued before the insert.
InsertWelcomed(q) ==
    /\ pc[q] = "insert"
    /\ welcomed' = welcomed \union {q}
    /\ IF NameFree(name[q], q)
       THEN /\ Put(q, Registered(q))
            /\ target' = [target EXCEPT ![q] = q]
            /\ Goto(q, "welcome")
            /\ UNCHANGED reply
       ELSE Answer(q, "conflict") /\ UNCHANGED <<table, target>>
    /\ UNCHANGED <<mails, input, seen, erased>>

Insert(q) ==
    /\ pc[q] = "insert"
    /\ IF NameFree(name[q], q)
       THEN /\ Put(q, Registered(q))
            /\ target' = [target EXCEPT ![q] = q]
            /\ Goto(q, "welcome")
            /\ UNCHANGED reply
       ELSE Answer(q, "conflict") /\ UNCHANGED <<rows, account, spent, outdated, target>>
    /\ UNCHANGED <<mails, welcomed, input, seen, erased>>

\* on_commit queues the welcome mail; the error of a broker that refuses it is
\* the request's, the account stays.
Welcome(q) ==
    /\ pc[q] = "welcome"
    /\ \/ welcomed' = welcomed \union {q} /\ Answer(q, "ok")
       \/ Answer(q, "refused") /\ UNCHANGED welcomed
    /\ UNCHANGED <<table, mails, input, target, seen>>

-----------------------------------------------------------------------------
(* PasswordResetService *)

\* request_reset asks for the one account of the address.
FindAccount(q) ==
    LET found == Addressed(email[q])
    IN  /\ pc[q] = "ask"
        /\ \/ /\ found = {}
              /\ Answer(q, "ok")
              /\ UNCHANGED <<target, seen>>
           \/ \E i \in found :
                IF found = {i}
                THEN /\ target' = [target EXCEPT ![q] = i]
                     /\ seen' = [seen EXCEPT ![q] = account[i]]
                     /\ Goto(q, "send")
                     /\ UNCHANGED reply
                ELSE Answer(q, "ambiguous") /\ UNCHANGED <<target, seen>>
        /\ UNCHANGED <<table, mails, welcomed, input>>

\* The broker takes the mail or refuses it.
SendLink(q) ==
    /\ pc[q] = "send"
    /\ \/ mails' = mails \union {TokenOf(target[q], seen[q])} /\ Answer(q, "ok")
       \/ Answer(q, "refused") /\ UNCHANGED mails
    /\ UNCHANGED <<table, welcomed, input, target, seen>>

\* A confirmation that accepts whatever link names an account.
CheckNothing(q) ==
    /\ pc[q] = "confirm"
    /\ IF target[q] \in rows
       THEN /\ seen' = [seen EXCEPT ![q] = account[target[q]]]
            /\ Goto(q, "save")
            /\ UNCHANGED reply
       ELSE Answer(q, "invalid") /\ UNCHANGED seen
    /\ UNCHANGED <<table, mails, welcomed, input, target>>

\* confirm_reset reads the account and checks the link against what it read.
\* A link that matches is refused all the same when it has expired, when the
\* user has signed in since, or when the new password is weak.
CheckLink(q) ==
    /\ pc[q] = "confirm"
    /\ \/ /\ target[q] \in rows
          /\ Matches(token[q], target[q], account[target[q]])
          /\ seen' = [seen EXCEPT ![q] = account[target[q]]]
          /\ Goto(q, "save")
          /\ UNCHANGED reply
       \/ Answer(q, "invalid") /\ UNCHANGED seen
    /\ UNCHANGED <<table, mails, welcomed, input, target>>

\* A save of the whole row that was read.
SaveWholeRow(q) ==
    /\ pc[q] = "save"
    /\ Put(target[q], [seen[q] EXCEPT !.password = q])
    /\ Answer(q, "ok")
    /\ UNCHANGED <<mails, welcomed, input, target, seen, erased>>

\* save(update_fields=["password"]) leaves every other column as it is now, and
\* fails on an account that is gone.
SavePassword(q) ==
    /\ pc[q] = "save"
    /\ IF target[q] \in rows
       THEN /\ Put(target[q], [account[target[q]] EXCEPT !.password = q])
            /\ Answer(q, "ok")
       ELSE Answer(q, "missing") /\ UNCHANGED <<rows, account, spent, outdated>>
    /\ UNCHANGED <<mails, welcomed, input, target, seen, erased>>

-----------------------------------------------------------------------------
(* GDPRService *)

Placeholder(q) == [name |-> q, email |-> q, password |-> None, active |-> FALSE]

\* One transaction; nothing of the row that was read matters but its key.
Anonymize(q) ==
    /\ pc[q] = "anonymize"
    /\ IF target[q] \in rows
       THEN /\ Put(target[q], Placeholder(q))
            /\ erased' = erased \union {target[q]}
            /\ Answer(q, "ok")
       ELSE Answer(q, "missing") /\ UNCHANGED table
    /\ UNCHANGED <<mails, welcomed, input, target, seen>>

HardDelete(q) ==
    /\ pc[q] = "delete"
    /\ rows' = rows \ {target[q]}
    /\ erased' = erased \union {target[q]}
    /\ Answer(q, "ok")
    /\ UNCHANGED <<account, spent, outdated, mails, welcomed, input, target, seen>>

-----------------------------------------------------------------------------
(* DemoSeedService._ensure_admin_user *)

\* get_or_create: the account of the demo name is read, or inserted with the
\* rest of the transaction.
GetDemo(q) ==
    /\ pc[q] = "seed"
    /\ IF Named(DemoName) = {}
       THEN /\ Put(q, Registered(q))
            /\ target' = [target EXCEPT ![q] = q]
            /\ Answer(q, "ok")
            /\ UNCHANGED seen
       ELSE /\ \E i \in Named(DemoName) :
                 /\ target' = [target EXCEPT ![q] = i]
                 /\ seen' = [seen EXCEPT ![q] = account[i]]
            /\ Goto(q, "rewrite")
            /\ UNCHANGED <<rows, account, spent, outdated, reply>>
    /\ UNCHANGED <<mails, welcomed, input, erased>>

\* user.save() writes every column of what was read, and inserts the row where
\* it has gone in the meantime.
RewriteDemo(q) ==
    /\ pc[q] = "rewrite"
    /\ IF NameFree(seen[q].name, target[q])
       THEN /\ Put(target[q], [seen[q] EXCEPT !.email = DemoEmail, !.password = q])
            /\ Answer(q, "ok")
       ELSE Answer(q, "integrity") /\ UNCHANGED <<rows, account, spent, outdated>>
    /\ UNCHANGED <<mails, welcomed, input, target, seen, erased>>

-----------------------------------------------------------------------------
\* The process dies, or a statement fails, between two steps.
Crash(q) ==
    /\ pc[q] \notin {"new", "done"}
    /\ Goto(q, "done")
    /\ UNCHANGED <<table, mails, welcomed, input, target, seen, reply>>

Init ==
    /\ rows = OldIds
    /\ account = [i \in Ids |-> IF i \in OldIds THEN OldRow[i] ELSE Blank]
    /\ mails = {}
    /\ welcomed = {}
    /\ pc = [q \in Requests |-> "new"]
    /\ op = [q \in Requests |-> "none"]
    /\ name = [q \in Requests |-> None]
    /\ email = [q \in Requests |-> None]
    /\ target = [q \in Requests |-> None]
    /\ seen = [q \in Requests |-> Blank]
    /\ token = [q \in Requests |-> TokenOf(q, Blank)]
    /\ reply = [q \in Requests |-> "none"]
    /\ erased = {}
    /\ spent = OldIds
    /\ outdated = {}

Arrive(q) ==
    \/ "register" \in Ops /\ \E n \in Names, e \in Emails : Register(q, n, e)
    \/ "ask" \in Ops /\ \E e \in Emails : Ask(q, e)
    \/ "confirm" \in Ops /\ \E t \in mails : Confirm(q, t)
    \/ "seed" \in Ops /\ Seed(q)
    \/ \E o \in {"anonymize", "delete"} \intersect Ops, i \in Ids : EraseUser(q, o, i)

Handle(q) ==
    \/ CheckName(q)
    \/ CheckEmail(q)
    \/ Clean(q)
    \/ Insert(q)
    \/ Welcome(q)
    \/ FindAccount(q)
    \/ SendLink(q)
    \/ CheckLink(q)
    \/ SavePassword(q)
    \/ Anonymize(q)
    \/ HardDelete(q)
    \/ GetDemo(q)
    \/ RewriteDemo(q)

Next == \E q \in Requests : Arrive(q) \/ Handle(q) \/ Crash(q)

Spec == Init /\ [][Next]_vars

-----------------------------------------------------------------------------
(* Properties *)

\* Accounts, requests and links hold values of their types; only keys that were
\* given out are used.
TypeOK ==
    /\ rows \subseteq spent
    /\ account \in [Ids -> Row]
    /\ mails \subseteq Token
    /\ welcomed \subseteq Requests
    /\ pc \in [Requests -> {"new", "done", "register", "email", "clean", "insert", "welcome",
                            "ask", "send", "confirm", "save", "anonymize", "delete",
                            "seed", "rewrite"}]
    /\ op \in [Requests -> Ops \union {"none"}]
    /\ name \in [Requests -> Names \union {None}]
    /\ email \in [Requests -> Emails \union {None}]
    /\ target \in [Requests -> Ids \union {None}]
    /\ seen \in [Requests -> Row]
    /\ token \in [Requests -> Token]
    /\ reply \in [Requests -> Replies]
    /\ erased \subseteq spent
    /\ spent \subseteq Ids
    /\ outdated \subseteq mails

\* Seeding is about to rewrite, or has rewritten, account i.
Reseeded(i) == \E q \in Requests : op[q] = "seed" /\ target[q] = i

\* Right to be Forgotten: once an erasure has committed the account is gone or
\* a placeholder that nobody can sign in to, whatever reset of its password or
\* other erasure was in flight; only the seeding brings the identity back.
ErasedStaysErased ==
    \A i \in erased :
        i \in rows /\ ~ Reseeded(i) =>
            ~ account[i].active /\ account[i].name \in Requests /\ account[i].email \in Requests

\* "A token is automatically invalidated once the password changes": a link is
\* accepted only if neither the password nor the address it was made for has
\* changed, by any request, before its confirmation reads the account.
OutdatedLinksRefused ==
    [][\A q \in Requests :
         (pc[q] = "confirm" /\ pc'[q] = "save") => token[q] \notin outdated]_vars

\* The welcome mail is queued for committed accounts only; a registration that
\* was answered with success made its account and its mail, one that was
\* answered with a conflict neither.  Of an error nothing follows: where the broker
\* refuses the welcome mail after the commit, the account is there all the same.
RegistrationsSettle ==
    /\ welcomed \subseteq spent
    /\ \A q \in Requests :
         op[q] = "register" =>
             /\ reply[q] = "ok" => q \in spent /\ q \in welcomed
             /\ reply[q] \in {"conflict", "unvalidated"} => q \notin spent /\ q \notin welcomed

-----------------------------------------------------------------------------
(* A statement of the repository the code does not live up to *)

\* "Always returns silently -- never reveals whether the address exists"
\* (request_reset): no request for a link fails on what it finds.
AsksAreSilent == \A q \in Requests : reply[q] # "ambiguous"

=============================================================================
