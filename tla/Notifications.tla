--------------------------- MODULE Notifications ---------------------------
(***************************************************************************)
(* Notifications: their rows, the broadcast to the sockets of their user,  *)
(* and the requests that walk the pages of the list or mark one as read.   *)
(* A client learns of a notification from the list or from its socket; the *)
(* database, the channel layer in Redis and the socket servers share no    *)
(* transaction, and a page is read with two statements.  Forms of the      *)
(* admin site add, edit and delete single rows, and broadcast nothing.     *)
(*                                                                         *)
(* A notification is known by its first created_at, which the web worker   *)
(* takes before it inserts the row: rows may appear in another order.      *)
(***************************************************************************)
EXTENDS Naturals, FiniteSets

CONSTANTS
    Users,
    Stamps,         \* notifications: calls of NotificationService.create, and add forms
    Times,          \* values of created_at
    MaxWork,        \* requests, and visits to the forms, together
    Sockets,        \* attempts to connect
    Calls,          \* walks of the list and requests to mark as read
    PageSize,
    None            \* no user, no notification, no call

Requests ==
    [op : {"all", "unread"}, user : Users, what : {None}]
    \union [op : {"read"}, user : Users, what : Stamps]

ASSUME NotificationsAssumption ==
    /\ Stamps \subseteq Times /\ Times \subseteq Nat
    /\ IsFiniteSet(Stamps)
    /\ PageSize \in Nat \ {0}
    /\ None \notin Users \union Stamps \union Requests

VARIABLES
    users,                      \* user -> "active", "anonymized" or "deleted"
    rows, read,                 \* stamps with a row; those that are read
    owner, place,               \* stamp -> the user and the created_at of its row
    stage, to,                  \* stamp -> how far its creation is, and for which user
    forms, visits,              \* rows that an edit form has loaded; a count
    groups,                     \* user -> sockets in the user's group
    conn, who, inbox, got,      \* a socket: state, user, messages held for it and sent
    at, call, page, total, seen, reply,     \* a request
    \* history
    lost,       \* socket -> messages its channel dropped
    since,      \* walk -> sockets of its user that were open when it began
    edited,     \* notifications that a form added, saved or deleted
    shifted,    \* walks whose list grew between the count and the slice of a page, or
                \* from which a form took a row
    thinned     \* walks of unread notifications during which one was read

database == <<users, rows, read, owner, place>>
creation == <<stage, to>>
admin == <<forms, visits, edited>>
channels == <<groups, inbox, lost>>
socket == <<conn, who, got>>
request == <<at, call, page, total, seen, reply, since>>
walks == <<shifted, thinned>>
vars == <<database, creation, admin, channels, socket, request, walks>>

-----------------------------------------------------------------------------
(* Queries *)

\* list_all and list_unread, the last created_at first.
Listed(q) == {n \in rows : owner[n] = call[q].user /\ (call[q].op = "unread" => n \notin read)}

Rank(q, n) == Cardinality({m \in Listed(q) : place[m] > place[n]})

Walking(q) == at[q] \in {"count", "slice", "next"}

\* _notification_group
Group(u) == u

Goto(q, step) == at' = [at EXCEPT ![q] = step]

\* The locals of a request that ends without a list, or with one that no socket is
\* to complete, are of no interest.
Respond(q, r) ==
    /\ Goto(q, "done")
    /\ reply' = [reply EXCEPT ![q] = r]
    /\ call' = [call EXCEPT ![q] = None]
    /\ page' = [page EXCEPT ![q] = 0]
    /\ total' = [total EXCEPT ![q] = 0]
    /\ seen' = [seen EXCEPT ![q] = {}]
    /\ since' = [since EXCEPT ![q] = {}]
    /\ shifted' = shifted \ {q}
    /\ thinned' = thinned \ {q}

\* Bounded by MaxWork.
Work == Cardinality({q \in Calls : at[q] # "new"}) + visits

-----------------------------------------------------------------------------
(* NotificationService.create *)

\* A creation that broadcasts before its row is there.
CreateAfterBroadcast(n, u) ==
    /\ users[u] = "active"
    /\ \/ stage[n] = "new" /\ stage' = [stage EXCEPT ![n] = "sending"] /\ UNCHANGED rows
       \/ stage[n] = "sent" /\ owner[n] = u /\ rows' = rows \union {n} /\ UNCHANGED stage
    /\ owner' = [owner EXCEPT ![n] = u]
    /\ to' = [to EXCEPT ![n] = u]
    /\ UNCHANGED <<users, read, place, admin, channels, socket, request, walks>>

\* Autocommit: the row is there before the broadcast.  The user was loaded earlier.
Create(n, u) ==
    /\ stage[n] = "new"
    /\ owner' = [owner EXCEPT ![n] = u]
    /\ to' = [to EXCEPT ![n] = u]
    /\ IF users[u] = "deleted"
       THEN stage' = [stage EXCEPT ![n] = "failed"] /\ UNCHANGED <<rows, shifted>>
       ELSE /\ stage' = [stage EXCEPT ![n] = "sending"]
            /\ rows' = rows \union {n}
            /\ shifted' = shifted \union
                   {q \in Calls : at[q] = "slice" /\ call[q].user = u}
    /\ UNCHANGED <<users, read, place, admin, channels, socket, request, thinned>>

\* The channels of the group of the user the call was for; one that nobody reads any
\* more is of no interest.
Live(n) == {s \in groups[Group(to[n])] : conn[s] # "closed"}

\* The channel layer drops a message for a channel that is full.  It drops it for all
\* of them where it fails, which is swallowed, or where the worker dies before.
Broadcast(n) ==
    /\ stage[n] = "sending"
    /\ stage' = [stage EXCEPT ![n] = "sent"]
    /\ \E dropped \in SUBSET Live(n) :
           /\ inbox' = [s \in Sockets |->
                  IF s \in Live(n) \ dropped THEN inbox[s] \union {n} ELSE inbox[s]]
           /\ lost' = [s \in Sockets |->
                  IF s \in dropped THEN lost[s] \union {n} ELSE lost[s]]
    /\ UNCHANGED <<database, to, admin, groups, socket, request, walks>>

-----------------------------------------------------------------------------
(* Sockets *)

\* The middleware looks up the user of the token, whatever its activity; without
\* a valid token, or a user, the consumer closes.
Authenticate(s, u) ==
    /\ conn[s] = "new"
    /\ \/ /\ users[u] # "deleted"
          /\ conn' = [conn EXCEPT ![s] = "join"]
          /\ who' = [who EXCEPT ![s] = u]
       \/ conn' = [conn EXCEPT ![s] = "closed"] /\ UNCHANGED who
    /\ UNCHANGED <<database, creation, admin, channels, got, request, walks>>

\* connect: group_add, then accept.
Join(s) ==
    /\ conn[s] = "join"
    /\ conn' = [conn EXCEPT ![s] = "accept"]
    /\ groups' = [groups EXCEPT ![Group(who[s])] = @ \union {s}]
    /\ UNCHANGED <<database, creation, admin, inbox, lost, who, got, request, walks>>

\* A client that may be accepted before its channel has joined the group.
AcceptEarly(s) ==
    /\ conn[s] \in {"join", "accept"}
    /\ conn' = [conn EXCEPT ![s] = "open"]
    /\ UNCHANGED <<database, creation, admin, channels, who, got, request, walks>>

Accept(s) ==
    /\ conn[s] = "accept"
    /\ conn' = [conn EXCEPT ![s] = "open"]
    /\ UNCHANGED <<database, creation, admin, channels, who, got, request, walks>>

\* A consumer handles one event at a time: what came before accept waits for it.
Deliver(s, n) ==
    /\ conn[s] = "open"
    /\ n \in inbox[s]
    /\ inbox' = [inbox EXCEPT ![s] = @ \ {n}]
    /\ got' = [got EXCEPT ![s] = @ \union {n}]
    /\ UNCHANGED <<database, creation, admin, groups, lost, conn, who, request, walks>>

\* The client leaves, an error of Redis ends connect, or the server dies; in the
\* last two the channel may stay in its group.  What else a closed socket had is of
\* no interest.
Disconnect(s) ==
    /\ conn[s] \in {"join", "accept", "open"}
    /\ conn' = [conn EXCEPT ![s] = "closed"]
    /\ who' = [who EXCEPT ![s] = None]
    /\ inbox' = [inbox EXCEPT ![s] = {}]
    /\ got' = [got EXCEPT ![s] = {}]
    /\ lost' = [lost EXCEPT ![s] = {}]
    /\ \/ groups' = [groups EXCEPT ![Group(who[s])] = @ \ {s}]
       \/ UNCHANGED groups
    /\ UNCHANGED <<database, creation, admin, request, walks>>

-----------------------------------------------------------------------------
(* Requests *)

Receive(q, c) ==
    /\ at[q] = "new" /\ Work < MaxWork
    /\ \/ users[c.user] # "active" /\ Respond(q, "unauthorized")
       \/ /\ users[c.user] = "active"
          /\ Goto(q, IF c.op = "read" THEN "get" ELSE "count")
          /\ call' = [call EXCEPT ![q] = c]
          /\ since' = [since EXCEPT ![q] = {s \in Sockets :
                 c.op # "read" /\ conn[s] = "open" /\ who[s] = c.user}]
          /\ UNCHANGED <<page, total, seen, reply, walks>>
    /\ UNCHANGED <<database, creation, admin, channels, socket>>

\* The paginator counts first, and refuses a page beyond the last.
Count(q) ==
    /\ at[q] = "count"
    /\ LET rest == Cardinality(Listed(q))
       IN  \/ /\ page[q] > 0 /\ page[q] * PageSize >= rest
              /\ Respond(q, "notfound")
           \/ /\ page[q] = 0 \/ page[q] * PageSize < rest
              /\ total' = [total EXCEPT ![q] = rest]
              /\ Goto(q, "slice")
              /\ UNCHANGED <<call, page, seen, reply, since, walks>>
    /\ UNCHANGED <<database, creation, admin, channels, socket>>

\* The rows of page number page[q] + 1 of total[q] rows.
OnPage(q, n) ==
    /\ page[q] * PageSize <= Rank(q, n)
    /\ Rank(q, n) < (page[q] + 1) * PageSize
    /\ Rank(q, n) < total[q]

\* The page has a link to the next one while the count goes beyond it.  A list that
\* was read beside no socket is of no interest.
Slice(q) ==
    /\ at[q] = "slice"
    /\ LET last == (page[q] + 1) * PageSize >= total[q]
       IN  \/ last /\ since[q] = {} /\ Respond(q, "ok")
           \/ /\ ~ last \/ since[q] # {}
              /\ Goto(q, IF last THEN "done" ELSE "next")
              /\ page' = [page EXCEPT ![q] = IF last THEN 0 ELSE @ + 1]
              /\ reply' = [reply EXCEPT ![q] = IF last THEN "ok" ELSE @]
              /\ seen' = [seen EXCEPT ![q] = @ \union {n \in Listed(q) : OnPage(q, n)}]
              /\ total' = [total EXCEPT ![q] = 0]
              /\ UNCHANGED <<call, since, walks>>
    /\ UNCHANGED <<database, creation, admin, channels, socket>>

\* The client follows the link: another request, authenticated again.
NextPage(q) ==
    /\ at[q] = "next"
    /\ \/ users[call[q].user] # "active" /\ Respond(q, "unauthorized")
       \/ /\ users[call[q].user] = "active"
          /\ Goto(q, "count")
          /\ UNCHANGED <<call, page, total, seen, reply, since, walks>>
    /\ UNCHANGED <<database, creation, admin, channels, socket>>

Own(q) == call[q].what \in rows /\ owner[call[q].what] = call[q].user

\* mark_read: the row by its key and user, then an UPDATE of one column, which
\* fails if the row has gone.
Get(q) ==
    /\ at[q] = "get"
    /\ \/ ~ Own(q) /\ Respond(q, "notfound")
       \/ Own(q) /\ call[q].what \in read /\ Respond(q, "read")
       \/ /\ Own(q) /\ call[q].what \notin read
          /\ Goto(q, "save")
          /\ UNCHANGED <<call, page, total, seen, reply, since, walks>>
    /\ UNCHANGED <<database, creation, admin, channels, socket>>

\* The unread notifications that the walks of u are going through lose one.
Thinned(u) == {w \in Calls : Walking(w) /\ call[w].op = "unread" /\ call[w].user = u}

\* A save of every column, which inserts a row that has gone.
MarkReadWhole(q) ==
    /\ at[q] = "save"
    /\ users[call[q].user] # "deleted"
    /\ rows' = rows \union {call[q].what}
    /\ read' = read \union {call[q].what}
    /\ Respond(q, "read")
    /\ UNCHANGED <<users, owner, place, creation, admin, channels, socket>>

MarkRead(q) ==
    /\ at[q] = "save"
    /\ \/ call[q].what \notin rows /\ Respond(q, "error") /\ UNCHANGED read
       \/ /\ call[q].what \in rows
          /\ read' = read \union {call[q].what}
          /\ Goto(q, "done")
          /\ reply' = [reply EXCEPT ![q] = "read"]
          /\ call' = [call EXCEPT ![q] = None]
          /\ thinned' = thinned \union Thinned(owner[call[q].what])
          /\ UNCHANGED <<page, total, seen, since, shifted>>
    /\ UNCHANGED <<users, rows, owner, place, creation, admin, channels, socket>>

-----------------------------------------------------------------------------
\* An erasure that leaves the marks of what was read.
EraseWithoutRows(u) ==
    /\ users[u] = "active"
    /\ users' = [users EXCEPT ![u] = "anonymized"]
    /\ rows' = {n \in rows : owner[n] # u}
    /\ UNCHANGED <<read, owner, place, creation, admin, channels, socket, request, walks>>

\* GDPRService.anonymize and hard_delete, each one transaction.  A creation in
\* flight is not in its way: it comes after, or fails on its foreign key.
Erase(u) ==
    /\ \/ users[u] = "active" /\ users' = [users EXCEPT ![u] = "anonymized"]
       \/ users[u] # "deleted" /\ users' = [users EXCEPT ![u] = "deleted"]
    /\ rows' = {n \in rows : owner[n] # u}
    /\ read' = {n \in read : owner[n] # u}
    /\ UNCHANGED <<owner, place, creation, admin, channels, socket, request, walks>>

-----------------------------------------------------------------------------
(* NotificationAdmin *)

Visit ==
    /\ Work < MaxWork
    /\ visits' = visits + 1

\* A form changed the lists: a row that is gone moves those after it up, and one that
\* is new between the count and the slice moves them down.
Shift ==
    shifted' = shifted \union {q \in Calls :
        /\ Walking(q)
        /\ \/ ~ (Listed(q) \subseteq Listed(q)')
           \/ at[q] = "slice" /\ ~ (Listed(q)' \subseteq Listed(q))}

AddRow(n, u, marked) ==
    /\ stage[n] = "new" /\ Visit
    /\ users[u] # "deleted"
    /\ stage' = [stage EXCEPT ![n] = "added"]
    /\ rows' = rows \union {n}
    /\ read' = IF marked THEN read \union {n} ELSE read
    /\ owner' = [owner EXCEPT ![n] = u]
    /\ edited' = edited \union {n}
    /\ UNCHANGED <<users, place, to, forms, channels, socket, request, thinned>>
    /\ Shift

LoadForm(n) ==
    /\ n \in rows \ forms
    /\ Visit
    /\ forms' = forms \union {n}
    /\ UNCHANGED <<database, creation, edited, channels, socket, request, walks>>

\* Every column is written, as loaded or as edited, and a row that has gone is
\* inserted again, with a created_at of its own.
SaveForm(n, u, marked) ==
    /\ n \in forms
    /\ forms' = forms \ {n}
    /\ IF users[u] = "deleted"
       THEN UNCHANGED <<rows, read, owner, place, edited>>
       ELSE /\ edited' = edited \union {n}
            /\ rows' = rows \union {n}
            /\ read' = IF marked THEN read \union {n} ELSE read \ {n}
            /\ owner' = [owner EXCEPT ![n] = u]
            /\ \/ n \in rows /\ UNCHANGED place
               \/ /\ n \notin rows
                  /\ \E t \in Times \ {place[m] : m \in Stamps} :
                         t > place[n] /\ place' = [place EXCEPT ![n] = t]
    /\ UNCHANGED <<users, creation, visits, channels, socket, request, thinned>>
    /\ Shift

\* Or the action that deletes what was selected.
DeleteRow(n) ==
    /\ n \in rows
    /\ Visit
    /\ rows' = rows \ {n}
    /\ read' = read \ {n}
    /\ edited' = edited \union {n}
    /\ UNCHANGED <<users, owner, place, creation, forms, channels, socket, request, thinned>>
    /\ Shift

-----------------------------------------------------------------------------
Init ==
    /\ users = [u \in Users |-> "active"]
    /\ rows = {} /\ read = {}
    /\ owner = [n \in Stamps |-> None]
    /\ place = [n \in Stamps |-> n]
    /\ stage = [n \in Stamps |-> "new"]
    /\ to = [n \in Stamps |-> None]
    /\ forms = {} /\ visits = 0 /\ edited = {}
    /\ groups = [u \in Users |-> {}]
    /\ conn = [s \in Sockets |-> "new"]
    /\ who = [s \in Sockets |-> None]
    /\ inbox = [s \in Sockets |-> {}] /\ got = [s \in Sockets |-> {}]
    /\ at = [q \in Calls |-> "new"]
    /\ call = [q \in Calls |-> None]
    /\ page = [q \in Calls |-> 0] /\ total = [q \in Calls |-> 0]
    /\ seen = [q \in Calls |-> {}]
    /\ reply = [q \in Calls |-> "none"]
    /\ lost = [s \in Sockets |-> {}]
    /\ since = [q \in Calls |-> {}]
    /\ shifted = {} /\ thinned = {}

Next ==
    \/ \E n \in Stamps : Broadcast(n) \/ \E u \in Users : Create(n, u)
    \/ \E s \in Sockets :
           \/ \E u \in Users : Authenticate(s, u)
           \/ Join(s) \/ Accept(s) \/ Disconnect(s)
           \/ \E n \in Stamps : Deliver(s, n)
    \/ \E q \in Calls :
           \/ \E c \in Requests : Receive(q, c)
           \/ Count(q) \/ Slice(q) \/ NextPage(q)
           \/ Get(q) \/ MarkRead(q)
    \/ \E u \in Users : Erase(u)
    \/ \E n \in Stamps :
           \/ LoadForm(n) \/ DeleteRow(n)
           \/ \E u \in Users, marked \in BOOLEAN : AddRow(n, u, marked) \/ SaveForm(n, u, marked)

Spec == Init /\ [][Next]_vars

-----------------------------------------------------------------------------
TypeOK ==
    /\ users \in [Users -> {"active", "anonymized", "deleted"}]
    /\ rows \subseteq Stamps /\ read \subseteq rows
    /\ owner \in [Stamps -> Users \union {None}] /\ place \in [Stamps -> Times]
    /\ stage \in [Stamps -> {"new", "sending", "sent", "failed", "added"}]
    /\ to \in [Stamps -> Users \union {None}]
    /\ forms \subseteq Stamps /\ visits \in Nat /\ edited \subseteq Stamps
    /\ groups \in [Users -> SUBSET Sockets]
    /\ conn \in [Sockets -> {"new", "join", "accept", "open", "closed"}]
    /\ who \in [Sockets -> Users \union {None}]
    /\ inbox \in [Sockets -> SUBSET Stamps] /\ got \in [Sockets -> SUBSET Stamps]
    /\ at \in [Calls -> {"new", "count", "slice", "next", "get", "save", "done"}]
    /\ call \in [Calls -> Requests \union {None}]
    /\ page \in [Calls -> Nat] /\ total \in [Calls -> Nat]
    /\ seen \in [Calls -> SUBSET Stamps]
    /\ reply \in [Calls -> {"none", "ok", "read", "unauthorized", "notfound", "error"}]
    /\ lost \in [Sockets -> SUBSET Stamps]
    /\ since \in [Calls -> SUBSET Sockets]
    /\ shifted \subseteq Calls /\ thinned \subseteq Calls

\* What the client of walk q and socket s has been told of, or soon will be.
Learned(q, s) ==
    seen[q] \union got[s] \union inbox[s] \union lost[s] \union {n \in Stamps : stage[n] = "sending"}

\* A client that walks the list once its socket is accepted misses nothing: every
\* notification of its user was on a page or goes to the socket, unless the channel
\* layer drops it.  It takes the row before the broadcast, the group before accept,
\* and pages that do not lose rows.  The exceptions: two races of the pages; the admin
\* site's forms, which broadcast nothing; and a list one of them took a row from, where
\* a row that no form ever touched may move up over the edge of a page.
NothingMissed ==
    \A q \in Calls \ (shifted \union thinned) : reply[q] = "ok" =>
        \A s \in since[q] : conn[s] = "open" => Listed(q) \ edited \subseteq Learned(q, s)

\* A client that acts on a message finds its row: what an open socket was sent, or
\* will be, is a notification of its user, in the table unless the user was erased.
\* A form of the admin site may move the row to another user or delete it.
MessagesHaveRows ==
    \A s \in Sockets, n \in Stamps : n \in inbox[s] \union got[s] =>
        /\ to[n] = who[s]
        /\ \/ n \in rows /\ owner[n] = to[n]
           \/ users[who[s]] # "active" \/ n \in edited

\* What an erasure deleted stays deleted, whatever was reading it, and what was
\* answered as read stays read: but for the full save of a form of the admin site,
\* which writes is_read as it was loaded and inserts a row that was erased since.
ErasedAndReadLast ==
    [][\A n \in Stamps \ edited' :
         /\ stage[n] # "new" /\ users[owner[n]] # "active" /\ n \notin rows
              => n \notin rows'
         /\ n \in read /\ n \in rows' => n \in read']_vars

=============================================================================
