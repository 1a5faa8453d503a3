------------------------ MODULE NotificationsProofs ------------------------
(***************************************************************************)
(* Proofs about Notifications: a client that walks the list beside its     *)
(* socket misses nothing, messages have rows, and what was erased or read  *)
(* stays so, but for what a form of the admin site touches; for any number *)
(* of users, notifications, sockets and requests and any size of a page.   *)
(***************************************************************************)
EXTENDS Notifications, FiniteSetTheorems, TLAPS

\* A notification that no form touched keeps the user it was created for, and its row
\* until that user is erased.  A form loads no row that was never there.
RowsFine ==
    \A n \in Stamps :
        /\ n \in rows \union forms => stage[n] \in {"sending", "sent", "added"}
        /\ stage[n] = "added" => n \in edited
        /\ stage[n] # "new" /\ n \notin edited => owner[n] \in Users /\ owner[n] = to[n]
        /\ stage[n] \in {"sending", "sent"} => to[n] \in Users
        /\ stage[n] \in {"sending", "sent"} /\ n \notin edited =>
               n \in rows \/ users[owner[n]] # "active"

\* A socket that is accepted is in the group of its user; a channel that joined no
\* group has no messages; messages are of notifications already broadcast.
SocketFine(s) ==
    /\ conn[s] \in {"join", "accept", "open"} => who[s] \in Users
    /\ conn[s] \in {"accept", "open"} => s \in groups[who[s]]
    /\ \A u \in Users : s \in groups[u] =>
           conn[s] = "closed" \/ (conn[s] \in {"accept", "open"} /\ who[s] = u)
    /\ \A n \in inbox[s] \union got[s] :
           /\ conn[s] \in {"accept", "open"}
           /\ stage[n] = "sent"
           /\ to[n] = who[s]

\* A request under way has a call, and the sockets it began beside are its user's.
CallFine(q) ==
    /\ at[q] \notin {"new", "done"} => call[q] \in Requests /\ reply[q] = "none"
    /\ Walking(q) => call[q].op # "read"
    /\ at[q] \in {"get", "save"} => call[q].op = "read" /\ since[q] = {}
    /\ reply[q] = "ok" => at[q] = "done" /\ (since[q] = {} \/ call[q] \in Requests)
    /\ at[q] = "new" => reply[q] = "none" /\ page[q] = 0
    /\ \A s \in since[q] : at[q] # "new" /\ (conn[s] = "closed" \/
                             (conn[s] = "open" /\ who[s] = call[q].user))

\* On the pages that were read, or for a finished walk anywhere in the list, there
\* is nothing that client has not been told of, but for what a form touched.
Told(q) ==
    \A s \in since[q] : conn[s] = "open" =>
        \A n \in Listed(q) \ edited :
            at[q] = "done" \/ Rank(q, n) < page[q] * PageSize => n \in Learned(q, s)

Counted(q) == at[q] = "slice" => Cardinality(Listed(q)) <= total[q]

WalkFine(q) ==
    (Walking(q) \/ reply[q] = "ok") /\ q \notin shifted \union thinned => Told(q) /\ Counted(q)

IInv ==
    /\ TypeOK
    /\ RowsFine
    /\ \A s \in Sockets : SocketFine(s)
    /\ \A q \in Calls : CallFine(q) /\ WalkFine(q)

-----------------------------------------------------------------------------
(* Types *)

LEMMA ListedFinite ==
    ASSUME TypeOK, NEW q
    PROVE  /\ Listed(q) \subseteq Stamps
           /\ IsFiniteSet(Listed(q))
           /\ Cardinality(Listed(q)) \in Nat
           /\ \A n : Rank(q, n) \in Nat
  <1>1. Listed(q) \subseteq Stamps
    BY DEF TypeOK, Listed
  <1>2. IsFiniteSet(Listed(q))
    BY <1>1, FS_Subset, NotificationsAssumption
  <1>3. \A n : IsFiniteSet({m \in Listed(q) : place[m] > place[n]})
    BY <1>2, FS_Subset
  <1>4. QED
    BY <1>1, <1>2, <1>3, FS_CardinalityType DEF Rank

LEMMA InitTyped == Init => TypeOK
  BY NotificationsAssumption DEF Init, TypeOK

LEMMA CreateTyped ==
    ASSUME TypeOK, NEW n \in Stamps, NEW u \in Users, Create(n, u)
    PROVE  TypeOK'
  BY DEF TypeOK, Create, admin, channels, socket, request

LEMMA BroadcastTyped ==
    ASSUME TypeOK, NEW n \in Stamps, Broadcast(n)
    PROVE  TypeOK'
  <1>1. inbox' \in [Sockets -> SUBSET Stamps] /\ lost' \in [Sockets -> SUBSET Stamps]
    BY DEF TypeOK, Broadcast
  <1>2. QED
    BY <1>1 DEF TypeOK, Broadcast, database, admin, socket, request, walks

LEMMA SocketTyped ==
    ASSUME TypeOK, NEW s \in Sockets,
           \/ \E u \in Users : Authenticate(s, u)
           \/ Join(s) \/ Accept(s) \/ Disconnect(s)
           \/ \E n \in Stamps : Deliver(s, n)
    PROVE  TypeOK'
  <1>1. CASE \E u \in Users : Authenticate(s, u)
    BY <1>1 DEF TypeOK, Authenticate, database, creation, admin, channels, request, walks
  <1>2. CASE Join(s)
    BY <1>2 DEF TypeOK, Join, database, creation, admin, request, walks
  <1>3. CASE Accept(s)
    BY <1>3 DEF TypeOK, Accept, database, creation, admin, channels, request, walks
  <1>4. CASE Disconnect(s)
    <2>1. groups' \in [Users -> SUBSET Sockets]
      BY <1>4 DEF TypeOK, Disconnect
    <2>2. QED
      BY <1>4, <2>1 DEF TypeOK, Disconnect, database, creation, admin, request, walks
  <1>5. CASE \E n \in Stamps : Deliver(s, n)
    BY <1>5 DEF TypeOK, Deliver, database, creation, admin, request, walks
  <1>6. QED
    BY <1>1, <1>2, <1>3, <1>4, <1>5

\* The types of what a request changes.
RequestTyped ==
    /\ read \subseteq rows
    /\ at \in [Calls -> {"new", "count", "slice", "next", "get", "save", "done"}]
    /\ call \in [Calls -> Requests \union {None}]
    /\ page \in [Calls -> Nat] /\ total \in [Calls -> Nat]
    /\ seen \in [Calls -> SUBSET Stamps]
    /\ reply \in [Calls -> {"none", "ok", "read", "unauthorized", "notfound", "error"}]
    /\ since \in [Calls -> SUBSET Sockets]
    /\ shifted \subseteq Calls /\ thinned \subseteq Calls

LEMMA RequestTypes ==
    ASSUME TypeOK, RequestTyped', UNCHANGED <<users, rows, owner, place, creation, admin, channels, socket>>
    PROVE  TypeOK'
  BY DEF TypeOK, RequestTyped, creation, admin, channels, socket

LEMMA RespondTyped ==
    ASSUME TypeOK, NEW q \in Calls, UNCHANGED <<rows, read>>,
           NEW r \in {"ok", "read", "unauthorized", "notfound", "error"}, Respond(q, r)
    PROVE  RequestTyped'
  BY DEF TypeOK, Respond, Goto, RequestTyped

LEMMA ReceiveTyped ==
    ASSUME TypeOK, NEW q \in Calls, NEW c \in Requests, Receive(q, c)
    PROVE  TypeOK'
  <1>1. UNCHANGED <<users, rows, read, owner, place, creation, admin, channels, socket>>
    BY DEF Receive, database
  <1>2. CASE Respond(q, "unauthorized")
    BY <1>1, <1>2, RespondTyped, RequestTypes
  <1>3. CASE ~ Respond(q, "unauthorized")
    <2>0. /\ at' = [at EXCEPT ![q] = IF c.op = "read" THEN "get" ELSE "count"]
          /\ call' = [call EXCEPT ![q] = c]
          /\ since' = [since EXCEPT ![q] = {s \in Sockets :
                 c.op # "read" /\ conn[s] = "open" /\ who[s] = c.user}]
          /\ UNCHANGED <<page, total, seen, reply, shifted, thinned>>
      BY <1>3 DEF Receive, Goto, walks
    <2>1. RequestTyped'
      BY <1>1, <2>0 DEF TypeOK, RequestTyped
    <2>2. QED
      BY <1>1, <2>1, RequestTypes
  <1>4. QED
    BY <1>2, <1>3

LEMMA CountTyped ==
    ASSUME TypeOK, NEW q \in Calls, Count(q)
    PROVE  TypeOK'
  <1>1. UNCHANGED <<users, rows, read, owner, place, creation, admin, channels, socket>>
    BY DEF Count, database
  <1>2. CASE Respond(q, "notfound")
    BY <1>1, <1>2, RespondTyped, RequestTypes
  <1>3. CASE ~ Respond(q, "notfound")
    <2>1. Cardinality(Listed(q)) \in Nat
      BY ListedFinite
    <2>2. RequestTyped'
      BY <1>1, <1>3, <2>1 DEF TypeOK, RequestTyped, Count, Goto, walks
    <2>3. QED
      BY <1>1, <2>2, RequestTypes
  <1>4. QED
    BY <1>2, <1>3

LEMMA SliceTyped ==
    ASSUME TypeOK, NEW q \in Calls, Slice(q)
    PROVE  TypeOK'
  <1>1. UNCHANGED <<users, rows, read, owner, place, creation, admin, channels, socket>>
    BY DEF Slice, database
  <1>2. CASE Respond(q, "ok")
    BY <1>1, <1>2, RespondTyped, RequestTypes
  <1>3. CASE ~ Respond(q, "ok")
    <2>1. Listed(q) \subseteq Stamps
      BY ListedFinite
    <2>2. seen' \in [Calls -> SUBSET Stamps]
      BY <1>3, <2>1 DEF TypeOK, Slice
    <2>3. at' \in [Calls -> {"new", "count", "slice", "next", "get", "save", "done"}]
          /\ page' \in [Calls -> Nat] /\ total' \in [Calls -> Nat]
      <3>1. at' \in [Calls -> {"new", "count", "slice", "next", "get", "save", "done"}]
        BY <1>3 DEF TypeOK, Slice, Goto
      <3>2. page' \in [Calls -> Nat]
        BY <1>3 DEF TypeOK, Slice
      <3>3. total' \in [Calls -> Nat]
        BY <1>3 DEF TypeOK, Slice
      <3>4. QED
        BY <3>1, <3>2, <3>3
    <2>4. reply' \in [Calls -> {"none", "ok", "read", "unauthorized", "notfound", "error"}]
      BY <1>3 DEF TypeOK, Slice
    <2>5. RequestTyped'
      BY <1>1, <1>3, <2>2, <2>3, <2>4 DEF TypeOK, RequestTyped, Slice, walks
    <2>6. QED
      BY <1>1, <2>5, RequestTypes
  <1>4. QED
    BY <1>2, <1>3

LEMMA NextPageTyped ==
    ASSUME TypeOK, NEW q \in Calls, NextPage(q)
    PROVE  TypeOK'
  <1>1. UNCHANGED <<users, rows, read, owner, place, creation, admin, channels, socket>>
    BY DEF NextPage, database
  <1>2. CASE Respond(q, "unauthorized")
    BY <1>1, <1>2, RespondTyped, RequestTypes
  <1>3. CASE ~ Respond(q, "unauthorized")
    <2>1. RequestTyped'
      BY <1>1, <1>3 DEF TypeOK, RequestTyped, NextPage, Goto, walks
    <2>2. QED
      BY <1>1, <2>1, RequestTypes
  <1>4. QED
    BY <1>2, <1>3

LEMMA GetTyped ==
    ASSUME TypeOK, NEW q \in Calls, Get(q)
    PROVE  TypeOK'
  <1>1. UNCHANGED <<users, rows, read, owner, place, creation, admin, channels, socket>>
    BY DEF Get, database
  <1>2. CASE Respond(q, "notfound") \/ Respond(q, "read")
    BY <1>1, <1>2, RespondTyped, RequestTypes
  <1>3. CASE ~ (Respond(q, "notfound") \/ Respond(q, "read"))
    <2>1. RequestTyped'
      BY <1>1, <1>3 DEF TypeOK, RequestTyped, Get, Goto, walks
    <2>2. QED
      BY <1>1, <2>1, RequestTypes
  <1>4. QED
    BY <1>2, <1>3

LEMMA MarkReadTyped ==
    ASSUME TypeOK, NEW q \in Calls, MarkRead(q)
    PROVE  TypeOK'
  <1>1. UNCHANGED <<users, rows, owner, place, creation, admin, channels, socket>>
    BY DEF MarkRead
  <1>2. CASE Respond(q, "error") /\ UNCHANGED read
    BY <1>1, <1>2, RespondTyped, RequestTypes
  <1>3. CASE ~ (Respond(q, "error") /\ UNCHANGED read)
    <2>1. /\ at' = [at EXCEPT ![q] = "done"] /\ reply' = [reply EXCEPT ![q] = "read"]
          /\ call' = [call EXCEPT ![q] = None]
          /\ UNCHANGED <<rows, page, total, seen, since, shifted>>
      BY <1>1, <1>3 DEF MarkRead, Goto
    <2>2. read' \subseteq rows /\ thinned' \subseteq Calls
      BY <1>3 DEF TypeOK, MarkRead, Thinned
    <2>3. RequestTyped'
      BY <2>1, <2>2 DEF TypeOK, RequestTyped
    <2>4. QED
      BY <1>1, <2>3, RequestTypes
  <1>4. QED
    BY <1>2, <1>3

LEMMA EraseTyped ==
    ASSUME TypeOK, NEW u \in Users, Erase(u)
    PROVE  TypeOK'
  <1>1. users' \in [Users -> {"active", "anonymized", "deleted"}]
    BY DEF TypeOK, Erase
  <1>2. QED
    BY <1>1 DEF TypeOK, Erase, creation, admin, channels, socket, request, walks

LEMMA FormTyped ==
    ASSUME TypeOK, NEW n \in Stamps,
           \/ LoadForm(n) \/ DeleteRow(n)
           \/ \E u \in Users, marked \in BOOLEAN : AddRow(n, u, marked) \/ SaveForm(n, u, marked)
    PROVE  TypeOK'
  <1>1. CASE LoadForm(n)
    BY <1>1 DEF TypeOK, LoadForm, Visit, database, creation, channels, socket, request, walks
  <1>2. CASE DeleteRow(n)
    BY <1>2 DEF TypeOK, DeleteRow, Visit, Shift, creation, channels, socket, request
  <1>3. ASSUME NEW u \in Users, NEW marked \in BOOLEAN, AddRow(n, u, marked) PROVE TypeOK'
    BY <1>3 DEF TypeOK, AddRow, Visit, Shift, channels, socket, request
  <1>4. ASSUME NEW u \in Users, NEW marked \in BOOLEAN, SaveForm(n, u, marked) PROVE TypeOK'
    <2>1. place' \in [Stamps -> Times]
      <3>1. CASE UNCHANGED place
        BY <3>1 DEF TypeOK
      <3>2. CASE \E t \in Times : place' = [place EXCEPT ![n] = t]
        BY <3>2 DEF TypeOK
      <3>3. QED
        BY <1>4, <3>1, <3>2 DEF SaveForm
    <2>2. rows' \subseteq Stamps /\ read' \subseteq rows' /\ edited' \subseteq Stamps
          /\ owner' \in [Stamps -> Users \union {None}] /\ forms' \subseteq Stamps
      <3>1. CASE UNCHANGED <<rows, read, owner, edited>>
        BY <1>4, <3>1 DEF TypeOK, SaveForm
      <3>2. CASE /\ rows' = rows \union {n} /\ edited' = edited \union {n}
                 /\ read' = IF marked THEN read \union {n} ELSE read \ {n}
                 /\ owner' = [owner EXCEPT ![n] = u]
        BY <1>4, <3>2 DEF TypeOK, SaveForm
      <3>3. QED
        BY <1>4, <3>1, <3>2 DEF SaveForm
    <2>3. shifted' \subseteq Calls
      BY <1>4 DEF TypeOK, SaveForm, Shift
    <2>4. QED
      BY <1>4, <2>1, <2>2, <2>3 DEF TypeOK, SaveForm, creation, channels, socket, request
  <1>5. QED
    BY <1>1, <1>2, <1>3, <1>4

-----------------------------------------------------------------------------
(* Rows and sockets *)

\* The rows, the sockets and what the invariants above say of them.
LEMMA RowsKept ==
    ASSUME RowsFine, UNCHANGED <<users, rows, owner, creation, admin>>
    PROVE  RowsFine'
  BY DEF RowsFine, creation, admin

LEMMA SocketKept ==
    ASSUME NEW s \in Sockets, SocketFine(s), UNCHANGED groups,
           \A n \in Stamps : stage[n] = "sent" => stage'[n] = "sent" /\ to'[n] = to[n],
           TypeOK, conn'[s] = conn[s], who'[s] = who[s], inbox'[s] = inbox[s], got'[s] = got[s]
    PROVE  SocketFine(s)'
  <1>1. inbox[s] \union got[s] \subseteq Stamps
    BY DEF TypeOK
  <1>2. QED
    BY <1>1 DEF SocketFine

LEMMA CreateRows ==
    ASSUME TypeOK, RowsFine, NEW n \in Stamps, NEW u \in Users, Create(n, u)
    PROVE  RowsFine'
  BY DEF TypeOK, RowsFine, Create, admin

LEMMA CreateSockets ==
    ASSUME TypeOK, NEW s \in Sockets, SocketFine(s),
           NEW n \in Stamps, NEW u \in Users, Create(n, u)
    PROVE  SocketFine(s)'
  BY SocketKept DEF TypeOK, Create, channels, socket

LEMMA BroadcastRows ==
    ASSUME TypeOK, RowsFine, NEW n \in Stamps, Broadcast(n)
    PROVE  RowsFine'
  BY DEF TypeOK, RowsFine, Broadcast, database, admin

LEMMA BroadcastSockets ==
    ASSUME TypeOK, RowsFine, NEW s \in Sockets, SocketFine(s), NEW n \in Stamps, Broadcast(n)
    PROVE  SocketFine(s)'
  <1>1. UNCHANGED <<to, groups, conn, who, got>>
    BY DEF Broadcast, database, socket
  <1>2. \A m \in Stamps : stage[m] = "sent" => stage'[m] = "sent"
    BY DEF TypeOK, Broadcast
  <1>3. stage'[n] = "sent" /\ to[n] \in Users
    BY DEF TypeOK, Broadcast, RowsFine
  <1>4. inbox'[s] \subseteq inbox[s] \union {n}
        /\ (n \in inbox'[s] \ inbox[s] => s \in groups[to[n]] /\ conn[s] # "closed")
    BY DEF TypeOK, Broadcast, Live, Group
  <1>5. n \in inbox'[s] \ inbox[s] => conn[s] \in {"accept", "open"} /\ to[n] = who[s]
    BY <1>3, <1>4 DEF SocketFine
  <1>6. QED
    BY <1>1, <1>2, <1>3, <1>4, <1>5 DEF TypeOK, SocketFine

LEMMA SocketSockets ==
    ASSUME TypeOK, NEW s \in Sockets, SocketFine(s), NEW r \in Sockets,
           \/ \E u \in Users : Authenticate(r, u)
           \/ Join(r) \/ Accept(r) \/ Disconnect(r)
           \/ \E n \in Stamps : Deliver(r, n)
    PROVE  SocketFine(s)'
  <1>1. CASE \E u \in Users : Authenticate(r, u)
    BY <1>1 DEF TypeOK, SocketFine, Authenticate, creation, channels
  <1>2. CASE Join(r)
    BY <1>2 DEF TypeOK, SocketFine, Join, Group, creation
  <1>3. CASE Accept(r)
    BY <1>3 DEF TypeOK, SocketFine, Accept, creation, channels
  <1>4. CASE Disconnect(r)
    <2>1. UNCHANGED <<stage, to>>
      BY <1>4 DEF Disconnect, creation
    <2>2. \A u \in Users : /\ groups'[u] \subseteq groups[u]
                           /\ s # r /\ s \in groups[u] => s \in groups'[u]
      BY <1>4 DEF TypeOK, Disconnect, Group
    <2>3. CASE s = r
      BY <1>4, <2>3 DEF TypeOK, SocketFine, Disconnect
    <2>4. CASE s # r
      <3>1. conn'[s] = conn[s] /\ who'[s] = who[s] /\ inbox'[s] = inbox[s] /\ got'[s] = got[s]
        BY <1>4, <2>4 DEF TypeOK, Disconnect
      <3>2. QED
        BY <2>1, <2>2, <2>4, <3>1 DEF TypeOK, SocketFine
    <2>5. QED
      BY <2>3, <2>4
  <1>5. CASE \E n \in Stamps : Deliver(r, n)
    BY <1>5 DEF TypeOK, SocketFine, Deliver, creation
  <1>6. QED
    BY <1>1, <1>2, <1>3, <1>4, <1>5

LEMMA EraseRows ==
    ASSUME TypeOK, RowsFine, NEW u \in Users, Erase(u)
    PROVE  RowsFine'
  BY DEF TypeOK, RowsFine, Erase, creation, admin

LEMMA EraseSockets ==
    ASSUME TypeOK, NEW s \in Sockets, SocketFine(s), NEW u \in Users, Erase(u)
    PROVE  SocketFine(s)'
  BY SocketKept DEF Erase, creation, channels, socket

LEMMA FormRows ==
    ASSUME TypeOK, RowsFine, NEW n \in Stamps,
           \/ LoadForm(n) \/ DeleteRow(n)
           \/ \E u \in Users, marked \in BOOLEAN : AddRow(n, u, marked) \/ SaveForm(n, u, marked)
    PROVE  RowsFine'
  <1>1. CASE LoadForm(n)
    BY <1>1 DEF TypeOK, RowsFine, LoadForm, database, creation
  <1>2. CASE DeleteRow(n)
    BY <1>2 DEF TypeOK, RowsFine, DeleteRow, creation
  <1>3. ASSUME NEW u \in Users, NEW marked \in BOOLEAN, AddRow(n, u, marked) PROVE RowsFine'
    BY <1>3 DEF TypeOK, RowsFine, AddRow
  <1>4. ASSUME NEW u \in Users, NEW marked \in BOOLEAN, SaveForm(n, u, marked) PROVE RowsFine'
    BY <1>4 DEF TypeOK, RowsFine, SaveForm, creation
  <1>5. QED
    BY <1>1, <1>2, <1>3, <1>4

LEMMA FormSockets ==
    ASSUME TypeOK, NEW s \in Sockets, SocketFine(s), NEW n \in Stamps,
           \/ LoadForm(n) \/ DeleteRow(n)
           \/ \E u \in Users, marked \in BOOLEAN : AddRow(n, u, marked) \/ SaveForm(n, u, marked)
    PROVE  SocketFine(s)'
  <1>1. UNCHANGED <<to, channels, socket>>
    BY DEF LoadForm, DeleteRow, AddRow, SaveForm, creation
  <1>2. \A m \in Stamps : stage[m] = "sent" => stage'[m] = "sent"
    BY DEF TypeOK, LoadForm, DeleteRow, AddRow, SaveForm, creation
  <1>3. QED
    BY <1>1, <1>2, SocketKept DEF channels, socket

-----------------------------------------------------------------------------
(* Requests that a step does not touch *)

Same(q) ==
    /\ at'[q] = at[q] /\ call'[q] = call[q] /\ reply'[q] = reply[q]
    /\ page'[q] = page[q] /\ total'[q] = total[q]
    /\ seen'[q] = seen[q] /\ since'[q] = since[q]

\* Sockets never open again once closed, and keep their user until then.
SocketsAge ==
    \A s \in Sockets :
        /\ conn[s] = "closed" => conn'[s] = "closed"
        /\ conn[s] = "open" =>
               conn'[s] = "closed" \/ (conn'[s] = "open" /\ who'[s] = who[s])

LEMMA CallKept ==
    ASSUME TypeOK, NEW q \in Calls, CallFine(q), Same(q), SocketsAge
    PROVE  CallFine(q)'
  <1>1. since[q] \subseteq Sockets
    BY DEF TypeOK
  <1>2. \A s \in since'[q] : at'[q] # "new" /\ (conn'[s] = "closed" \/
                               (conn'[s] = "open" /\ who'[s] = call'[q].user))
    BY <1>1 DEF CallFine, Same, SocketsAge
  <1>3. QED
    BY <1>2 DEF CallFine, Same, Walking

LEMMA RankGrows ==
    ASSUME TypeOK', NEW q, Listed(q) \subseteq Listed(q)', NEW n \in Listed(q),
           \A m \in Listed(q) : place'[m] = place[m]
    PROVE  Rank(q, n) <= Rank(q, n)'
  <1>1. IsFiniteSet(Listed(q)') /\ Listed(q)' \subseteq Stamps
    <2>1. Listed(q)' \subseteq Stamps
      BY DEF TypeOK, Listed
    <2>2. QED
      BY <2>1, FS_Subset, NotificationsAssumption
  <1>2. IsFiniteSet({m \in Listed(q)' : place'[m] > place'[n]})
    BY <1>1, FS_Subset
  <1>3. {m \in Listed(q) : place[m] > place[n]} \subseteq {m \in Listed(q)' : place'[m] > place'[n]}
    OBVIOUS
  <1>4. QED
    BY <1>2, <1>3, FS_Subset DEF Rank

\* A step that touches no walk keeps what a walk knows, if what the client had been
\* told stays told, what it adds to the list is to be told or came by a form, and what
\* it takes from the list is all of it or is remarked upon.
LEMMA WalkKept ==
    ASSUME TypeOK, TypeOK', NEW q \in Calls, WalkFine(q), Same(q),
           q \in shifted \union thinned => q \in shifted' \union thinned',
           \A s \in since[q] : conn'[s] = "open" =>
               /\ conn[s] = "open"
               /\ \A n \in Listed(q) \ edited : n \in Learned(q, s) => n \in Learned(q, s)'
               /\ \A n \in Listed(q)' \ Listed(q) : n \in edited' \/ n \in Learned(q, s)',
           edited \subseteq edited', \A n \in Listed(q) : place'[n] = place[n],
           (Walking(q) \/ reply[q] = "ok") /\ q \notin shifted' \union thinned' =>
               \/ Listed(q) \subseteq Listed(q)'
               \/ Listed(q)' = {}
               \/ at[q] = "done",
           Walking(q) /\ at[q] = "slice" /\ q \notin shifted' \union thinned' =>
               Listed(q)' \subseteq Listed(q)
    PROVE  WalkFine(q)'
  <1> SUFFICES ASSUME (Walking(q) \/ reply[q] = "ok")', (q \notin shifted \union thinned)'
               PROVE  Told(q)' /\ Counted(q)'
    BY DEF WalkFine
  <1>1. (Walking(q) \/ reply[q] = "ok") /\ Told(q) /\ Counted(q)
    BY DEF WalkFine, Same, Walking
  <1>2. Told(q)'
    <2> SUFFICES ASSUME NEW s \in since[q], conn'[s] = "open", NEW n \in (Listed(q) \ edited)',
                        at[q] = "done" \/ Rank(q, n)' < page[q] * PageSize
                 PROVE  n \in Learned(q, s)'
      BY DEF Told, Same
    <2>1. CASE n \notin Listed(q)
      BY <2>1
    <2>2. CASE n \in Listed(q) /\ at[q] = "done"
      BY <1>1, <2>2 DEF Told
    <2>3. CASE n \in Listed(q) /\ at[q] # "done"
      <3>1. Listed(q) \subseteq Listed(q)'
        BY <1>1, <2>3
      <3>2. Rank(q, n) <= Rank(q, n)'
        BY <2>3, <3>1, RankGrows
      <3>3. Rank(q, n) \in Nat /\ Rank(q, n)' \in Nat
        <4>1. Rank(q, n) \in Nat
          BY ListedFinite
        <4>2. IsFiniteSet({m \in Listed(q)' : place'[m] > place'[n]})
          <5>1. {m \in Listed(q)' : place'[m] > place'[n]} \subseteq Stamps
            BY DEF TypeOK, Listed
          <5>2. QED
            BY <5>1, FS_Subset, NotificationsAssumption
        <4>3. QED
          BY <4>1, <4>2, FS_CardinalityType DEF Rank
      <3>4. page[q] * PageSize \in Nat
        BY NotificationsAssumption DEF TypeOK
      <3>5. Rank(q, n) < page[q] * PageSize
        BY <2>3, <3>2, <3>3, <3>4
      <3>6. QED
        BY <1>1, <2>3, <3>5 DEF Told
    <2>4. QED
      BY <2>1, <2>2, <2>3
  <1>3. Counted(q)'
    <2> SUFFICES ASSUME at[q] = "slice" PROVE Cardinality(Listed(q)') <= total[q]
      BY DEF Counted, Same
    <2>1. Listed(q)' \subseteq Listed(q)
      BY <1>1 DEF Walking
    <2>2. IsFiniteSet(Listed(q)) /\ Cardinality(Listed(q)) \in Nat
      BY ListedFinite
    <2>3. IsFiniteSet(Listed(q)') /\ Cardinality(Listed(q)') <= Cardinality(Listed(q))
      BY <2>1, <2>2, FS_Subset
    <2>4. Cardinality(Listed(q)') \in Nat /\ total[q] \in Nat
      BY <2>3, FS_CardinalityType DEF TypeOK
    <2>5. QED
      BY <1>1, <2>2, <2>3, <2>4 DEF Counted
  <1>4. QED
    BY <1>2, <1>3

\* What a walk lists and what its client has been told, by what they depend on.
LEMMA SameListed ==
    ASSUME NEW q, call'[q] = call[q], UNCHANGED <<rows, read, owner, place>>
    PROVE  /\ Listed(q)' = Listed(q)
           /\ \A n : Rank(q, n)' = Rank(q, n)
  BY DEF Listed, Rank

LEMMA SameLearned ==
    ASSUME NEW q, seen'[q] = seen[q], UNCHANGED <<stage, got, inbox, lost>>
    PROVE  \A s : Learned(q, s)' = Learned(q, s)
  BY DEF Learned

-----------------------------------------------------------------------------
(* Steps of the surroundings *)

LEMMA CreateSafe ==
    ASSUME IInv, NEW n \in Stamps, NEW u \in Users, Create(n, u)
    PROVE  IInv'
  <1>1. TypeOK'
    BY CreateTyped DEF IInv
  <1>2. RowsFine' /\ \A s \in Sockets : SocketFine(s)'
    BY CreateRows, CreateSockets DEF IInv
  <1>3. SocketsAge /\ \A q \in Calls : Same(q)
    BY DEF IInv, TypeOK, Create, SocketsAge, Same, socket, request
  <1>4. ASSUME NEW q \in Calls PROVE CallFine(q)'
    BY <1>3, CallKept DEF IInv
  <1>5. ASSUME NEW q \in Calls PROVE WalkFine(q)'
    <2>1. stage[n] = "new" /\ n \notin rows
      BY DEF IInv, RowsFine, Create
    <2>2. /\ rows \subseteq rows' /\ rows' \subseteq rows \union {n}
          /\ UNCHANGED <<place, edited>>
          /\ \A m \in rows : owner'[m] = owner[m]
          /\ n \in rows' => stage'[n] = "sending" /\ owner'[n] = u
          /\ read' = read /\ call' = call /\ conn' = conn
      BY <2>1 DEF IInv, TypeOK, Create, admin, socket, request
    <2>3. Listed(q) \subseteq Listed(q)' /\ Listed(q)' \subseteq Listed(q) \union {n}
      BY <2>2 DEF Listed
    <2>4. \A s : Learned(q, s) \subseteq Learned(q, s)'
      BY <2>1 DEF IInv, TypeOK, Create, Learned, channels, socket, request
    <2>5. n \in Listed(q)' => \A s : n \in Learned(q, s)'
      BY <2>2 DEF Listed, Learned
    <2>6. shifted \subseteq shifted' /\ thinned' = thinned
      BY DEF Create
    <2>7. n \in Listed(q)' /\ at[q] = "slice" => q \in shifted'
      BY <2>2, <2>1 DEF IInv, TypeOK, Listed, Create
    <2>8. at[q] = "slice" /\ q \notin shifted' \union thinned' => Listed(q)' \subseteq Listed(q)
      BY <2>3, <2>7
    <2>9. WalkFine(q) /\ Same(q) /\ TypeOK
      BY <1>3 DEF IInv
    <2>10. QED
      BY <1>1, <2>2, <2>3, <2>4, <2>5, <2>6, <2>8, <2>9, WalkKept
  <1>6. QED
    BY <1>1, <1>2, <1>4, <1>5 DEF IInv

LEMMA BroadcastSafe ==
    ASSUME IInv, NEW n \in Stamps, Broadcast(n)
    PROVE  IInv'
  <1>1. TypeOK'
    BY BroadcastTyped DEF IInv
  <1>2. RowsFine' /\ \A s \in Sockets : SocketFine(s)'
    BY BroadcastRows, BroadcastSockets DEF IInv
  <1>3. SocketsAge /\ \A q \in Calls : Same(q)
    BY DEF IInv, TypeOK, Broadcast, SocketsAge, Same, database, socket, request
  <1>4. ASSUME NEW q \in Calls PROVE CallFine(q)'
    BY <1>3, CallKept DEF IInv
  <1>5. ASSUME NEW q \in Calls PROVE WalkFine(q)'
    <2>1. Listed(q)' = Listed(q)
      BY SameListed DEF Broadcast, database, request
    <2>2. ASSUME NEW s \in since[q], conn[s] = "open",
                 NEW m \in Listed(q) \ edited, m \in Learned(q, s)
          PROVE  m \in Learned(q, s)'
      <3>1. s \in Sockets /\ s \in groups[call[q].user] /\ call[q].user = to[m]
        <4>1. m \in Stamps /\ m \in rows /\ owner[m] = call[q].user
          BY DEF IInv, TypeOK, Listed
        <4>2. stage[m] # "new"
          BY <4>1 DEF IInv, RowsFine
        <4>3. call[q].user = to[m]
          BY <4>1, <4>2 DEF IInv, RowsFine
        <4>4. s \in Sockets /\ who[s] = call[q].user
          BY <2>2 DEF IInv, TypeOK, CallFine
        <4>5. s \in groups[who[s]]
          BY <2>2, <4>4 DEF IInv, SocketFine
        <4>6. QED
          BY <4>3, <4>4, <4>5
      <3>2. s \in groups[to[n]] => n \in inbox'[s] \union lost'[s]
        BY <2>2, <3>1 DEF IInv, TypeOK, Broadcast, Live, Group
      <3>3. /\ inbox[s] \subseteq inbox'[s] /\ lost[s] \subseteq lost'[s]
            /\ got' = got /\ seen' = seen
        BY <3>1 DEF IInv, TypeOK, Broadcast, socket, request
      <3>4. \A k \in Stamps \ {n} : stage'[k] = stage[k]
        BY DEF IInv, TypeOK, Broadcast
      <3>5. m \in seen[q] \union got[s] \union inbox[s] \union lost[s] \/ stage[m] = "sending"
        BY <2>2 DEF Learned
      <3>6. m = n \/ (m \in Stamps /\ stage'[m] = stage[m])
        BY <3>4 DEF IInv, TypeOK, Listed
      <3>7. QED
        BY <3>1, <3>2, <3>3, <3>5, <3>6 DEF Learned
    <2>3. shifted' = shifted /\ thinned' = thinned /\ conn' = conn /\ UNCHANGED <<place, edited>>
      BY DEF Broadcast, walks, socket, database, admin
    <2>4. WalkFine(q) /\ Same(q) /\ TypeOK
      BY <1>3 DEF IInv
    <2>5. QED
      BY <1>1, <2>1, <2>2, <2>3, <2>4, WalkKept
  <1>6. QED
    BY <1>1, <1>2, <1>4, <1>5 DEF IInv

LEMMA SocketSafe ==
    ASSUME IInv, NEW r \in Sockets,
           \/ \E u \in Users : Authenticate(r, u)
           \/ Join(r) \/ Accept(r) \/ Disconnect(r)
           \/ \E n \in Stamps : Deliver(r, n)
    PROVE  IInv'
  <1>1. TypeOK'
    BY SocketTyped DEF IInv
  <1>2. \A s \in Sockets : SocketFine(s)'
    BY SocketSockets DEF IInv
  <1>3. UNCHANGED <<database, creation, admin, request, walks>>
    BY DEF Authenticate, Join, Accept, Disconnect, Deliver, channels
  <1>4. RowsFine'
    BY <1>3, RowsKept DEF IInv, database
  <1>5. \A q \in Calls : Same(q)
    BY <1>3 DEF Same, database, request
  <1>6. /\ \A s \in Sockets \ {r} : conn'[s] = conn[s] /\ who'[s] = who[s]
               /\ inbox'[s] = inbox[s] /\ got'[s] = got[s] /\ lost'[s] = lost[s]
        /\ conn[r] # "closed"
        /\ conn[r] = "open" => conn'[r] = "closed" \/
               (/\ conn'[r] = "open" /\ who'[r] = who[r] /\ lost'[r] = lost[r]
                /\ inbox[r] \union got[r] = inbox'[r] \union got'[r])
    BY DEF IInv, TypeOK, Authenticate, Join, Accept, Disconnect, Deliver, channels
  <1>7. SocketsAge
    BY <1>6 DEF SocketsAge
  <1>8. ASSUME NEW q \in Calls PROVE CallFine(q)'
    BY <1>5, <1>7, CallKept DEF IInv
  <1>9. ASSUME NEW q \in Calls PROVE WalkFine(q)'
    <2>1. Listed(q)' = Listed(q)
      BY <1>3, SameListed DEF database, request
    <2>2. ASSUME NEW s \in since[q], conn'[s] = "open"
          PROVE  conn[s] = "open" /\ Learned(q, s) \subseteq Learned(q, s)'
      <3>1. s \in Sockets /\ conn[s] \in {"open", "closed"}
        BY <2>2 DEF IInv, TypeOK, CallFine
      <3>2. conn[s] = "open"
        BY <2>2, <3>1, <1>7 DEF SocketsAge
      <3>3. inbox[s] \union got[s] \union lost[s] = inbox'[s] \union got'[s] \union lost'[s]
        BY <1>6, <2>2, <3>1, <3>2
      <3>4. QED
        BY <1>3, <3>2, <3>3 DEF Learned, creation, request
    <2>3. WalkFine(q) /\ Same(q) /\ TypeOK /\ shifted' = shifted /\ thinned' = thinned
          /\ UNCHANGED <<place, edited>>
      BY <1>3, <1>5 DEF IInv, walks, database, admin
    <2>4. QED
      BY <1>1, <2>1, <2>2, <2>3, WalkKept
  <1>10. QED
    BY <1>1, <1>2, <1>4, <1>8, <1>9 DEF IInv

LEMMA EraseSafe ==
    ASSUME IInv, NEW u \in Users, Erase(u)
    PROVE  IInv'
  <1>1. TypeOK'
    BY EraseTyped DEF IInv
  <1>2. RowsFine' /\ \A s \in Sockets : SocketFine(s)'
    BY EraseRows, EraseSockets DEF IInv
  <1>3. SocketsAge /\ \A q \in Calls : Same(q)
    BY DEF Erase, SocketsAge, Same, socket, request
  <1>4. ASSUME NEW q \in Calls PROVE CallFine(q)'
    BY <1>3, CallKept DEF IInv
  <1>5. ASSUME NEW q \in Calls PROVE WalkFine(q)'
    <2>1. Listed(q)' = {} \/ Listed(q)' = Listed(q)
      BY DEF IInv, TypeOK, Erase, Listed, request
    <2>2. \A s : Learned(q, s)' = Learned(q, s)
      BY SameLearned DEF Erase, creation, channels, socket, request
    <2>3. WalkFine(q) /\ Same(q) /\ TypeOK /\ shifted' = shifted /\ thinned' = thinned
          /\ conn' = conn /\ UNCHANGED <<place, edited>>
      BY <1>3 DEF IInv, Erase, walks, socket, admin
    <2>4. QED
      BY <1>1, <2>1, <2>2, <2>3, WalkKept
  <1>6. QED
    BY <1>1, <1>2, <1>4, <1>5 DEF IInv

LEMMA FormSafe ==
    ASSUME IInv, NEW n \in Stamps,
           \/ LoadForm(n) \/ DeleteRow(n)
           \/ \E u \in Users, marked \in BOOLEAN : AddRow(n, u, marked) \/ SaveForm(n, u, marked)
    PROVE  IInv'
  <1>1. TypeOK'
    BY FormTyped DEF IInv
  <1>2. RowsFine' /\ \A s \in Sockets : SocketFine(s)'
    BY FormRows, FormSockets DEF IInv
  <1>3. /\ UNCHANGED <<users, channels, socket, request, thinned>>
        /\ shifted \subseteq shifted' /\ edited \subseteq edited'
        /\ \A m \in Stamps : stage[m] = "sending" => stage'[m] = "sending"
    BY DEF IInv, TypeOK, LoadForm, DeleteRow, AddRow, SaveForm, Shift, database, creation, walks
  <1>4. SocketsAge /\ \A q \in Calls : Same(q)
    BY <1>3 DEF SocketsAge, Same, socket, request
  <1>5. ASSUME NEW q \in Calls PROVE CallFine(q)'
    BY <1>4, CallKept DEF IInv
  <1>6. /\ \A m \in Stamps \ edited' :
               (m \in rows <=> m \in rows') /\ (m \in read <=> m \in read') /\ owner'[m] = owner[m]
        /\ \A m \in rows : place'[m] = place[m]
    BY DEF IInv, TypeOK, LoadForm, DeleteRow, AddRow, SaveForm, RowsFine, database
  <1>7. Shift \/ UNCHANGED <<database, request>>
    BY <1>3 DEF LoadForm, DeleteRow, AddRow, SaveForm
  <1>8. ASSUME NEW q \in Calls PROVE WalkFine(q)'
    <2>1. \A s : Learned(q, s) \subseteq Learned(q, s)'
      BY <1>3 DEF Learned, channels, socket, request
    <2>2. call' = call /\ conn' = conn /\ Listed(q)' \subseteq Stamps
      BY <1>1, <1>3 DEF TypeOK, Listed, socket, request
    <2>3. \A m \in Listed(q)' \ Listed(q) : m \in edited'
      BY <1>6, <2>2 DEF Listed
    <2>4. \A m \in Listed(q) : place'[m] = place[m]
      BY <1>6 DEF Listed
    <2>5. Walking(q) /\ q \notin shifted' =>
              /\ Listed(q) \subseteq Listed(q)'
              /\ at[q] = "slice" => Listed(q)' \subseteq Listed(q)
      <3>1. CASE Shift
        BY <3>1 DEF Shift
      <3>2. CASE UNCHANGED <<database, request>>
        BY <3>2, SameListed DEF database, request
      <3>3. QED
        BY <1>7, <3>1, <3>2
    <2>6. reply[q] = "ok" => at[q] = "done"
      BY DEF IInv, CallFine
    <2>7. WalkFine(q) /\ Same(q) /\ TypeOK
          /\ (q \in shifted \union thinned => q \in shifted' \union thinned')
      BY <1>3, <1>4 DEF IInv
    <2>8. QED
      BY <1>1, <1>3, <2>1, <2>2, <2>3, <2>4, <2>5, <2>6, <2>7, WalkKept
  <1>9. QED
    BY <1>1, <1>2, <1>5, <1>8 DEF IInv

-----------------------------------------------------------------------------
(* Steps of a request *)

\* A step of q that reads the tables, and changes q alone.
LEMMA RequestStep ==
    ASSUME IInv, TypeOK', NEW q \in Calls, \A p \in Calls \ {q} : Same(p),
           UNCHANGED <<database, creation, admin, channels, socket>>,
           \A p \in Calls \ {q} :
               p \in shifted \union thinned => p \in shifted' \union thinned',
           CallFine(q)', WalkFine(q)'
    PROVE  IInv'
  <1>1. RowsFine' /\ \A s \in Sockets : SocketFine(s)'
    BY RowsKept, SocketKept DEF IInv, database, creation, channels, socket
  <1>2. ASSUME NEW p \in Calls \ {q} PROVE CallFine(p)'
    BY CallKept DEF IInv, SocketsAge, database, socket
  <1>3. ASSUME NEW p \in Calls \ {q} PROVE WalkFine(p)'
    <2>1. Listed(p)' = Listed(p) /\ \A s : Learned(p, s)' = Learned(p, s)
      BY SameListed, SameLearned DEF Same, database, creation, channels, socket
    <2>2. WalkFine(p) /\ Same(p) /\ conn' = conn /\ TypeOK
          /\ (p \in shifted \union thinned => p \in shifted' \union thinned')
          /\ UNCHANGED <<place, edited>>
      BY DEF IInv, socket, database, admin
    <2>3. QED
      BY <2>1, <2>2, WalkKept
  <1>4. QED
    BY <1>1, <1>2, <1>3 DEF IInv

LEMMA RespondStep ==
    ASSUME IInv, TypeOK', NEW q \in Calls, NEW r \in {"ok", "read", "unauthorized", "notfound", "error"},
           Respond(q, r), UNCHANGED <<database, creation, admin, channels, socket>>
    PROVE  IInv'
  <1>1. \A p \in Calls \ {q} :
            Same(p) /\ (p \in shifted \union thinned => p \in shifted' \union thinned')
    BY DEF IInv, TypeOK, Respond, Goto, Same
  <1>2. at'[q] = "done" /\ reply'[q] = r /\ since'[q] = {}
    BY DEF IInv, TypeOK, Respond, Goto
  <1>3. CallFine(q)' /\ WalkFine(q)'
    BY <1>2 DEF CallFine, WalkFine, Walking, Told, Counted
  <1>4. QED
    BY <1>1, <1>3, RequestStep

\* A step that moves q on, and what it keeps of q.
LEMMA MoveSame ==
    ASSUME IInv, NEW q \in Calls, NEW s, Goto(q, s)
    PROVE  /\ at'[q] = s
           /\ \A p \in Calls \ {q} : at'[p] = at[p]
  BY DEF IInv, TypeOK, Goto

LEMMA ReceiveSafe ==
    ASSUME IInv, NEW q \in Calls, NEW c \in Requests, Receive(q, c)
    PROVE  IInv'
  <1>1. TypeOK' /\ UNCHANGED <<database, creation, admin, channels, socket>>
    BY ReceiveTyped DEF IInv, Receive
  <1>2. CASE Respond(q, "unauthorized")
    BY <1>1, <1>2, RespondStep
  <1>3. CASE ~ Respond(q, "unauthorized")
    <2>1. /\ at'[q] = (IF c.op = "read" THEN "get" ELSE "count") /\ call'[q] = c
          /\ since'[q] = {s \in Sockets : c.op # "read" /\ conn[s] = "open" /\ who[s] = c.user}
          /\ reply'[q] = reply[q] /\ page'[q] = page[q] /\ walks' = walks
          /\ \A p \in Calls \ {q} : Same(p)
      BY <1>3 DEF IInv, TypeOK, Receive, Goto, Same
    <2>2. reply[q] = "none" /\ page[q] = 0
      BY DEF IInv, CallFine, Receive
    <2>3. CallFine(q)'
      BY <1>1, <2>1, <2>2 DEF CallFine, Walking, socket
    <2>4. \A n : Rank(q, n)' \in Nat \/ n \notin Listed(q)'
      <3>1. ASSUME NEW n PROVE Rank(q, n)' \in Nat
        <4>1. {m \in Listed(q)' : place'[m] > place'[n]} \subseteq Stamps
          BY <1>1 DEF TypeOK, Listed
        <4>2. IsFiniteSet({m \in Listed(q)' : place'[m] > place'[n]})
          BY <4>1, FS_Subset, NotificationsAssumption
        <4>3. QED
          BY <4>2, FS_CardinalityType DEF Rank
      <3>2. QED
        BY <3>1
    <2>5. 0 * PageSize = 0
      BY NotificationsAssumption
    <2>6. at'[q] = "count" => Told(q)' /\ Counted(q)'
      BY <2>1, <2>2, <2>4, <2>5 DEF Told, Counted
    <2>7. WalkFine(q)'
      BY <2>1, <2>2, <2>6 DEF WalkFine, Walking
    <2>8. QED
      BY <1>1, <2>1, <2>3, <2>7, RequestStep DEF walks
  <1>4. QED
    BY <1>2, <1>3

LEMMA CountSafe ==
    ASSUME IInv, NEW q \in Calls, Count(q)
    PROVE  IInv'
  <1>1. TypeOK' /\ UNCHANGED <<database, creation, admin, channels, socket>>
    BY CountTyped DEF IInv, Count
  <1>2. CASE Respond(q, "notfound")
    BY <1>1, <1>2, RespondStep
  <1>3. CASE ~ Respond(q, "notfound")
    <2>1. /\ at[q] = "count" /\ at'[q] = "slice" /\ total'[q] = Cardinality(Listed(q))
          /\ UNCHANGED <<call, page, seen, reply, since, walks>>
          /\ \A p \in Calls \ {q} : Same(p)
      BY <1>3 DEF IInv, TypeOK, Count, Goto, Same
    <2>2. CallFine(q)'
      BY <1>1, <2>1 DEF IInv, CallFine, Walking, socket
    <2>3. /\ Listed(q)' = Listed(q) /\ \A n : Rank(q, n)' = Rank(q, n)
          /\ \A s : Learned(q, s)' = Learned(q, s)
      BY <1>1, <2>1, SameListed, SameLearned DEF database, creation, channels, socket
    <2>4. Cardinality(Listed(q)) \in Nat
      BY ListedFinite DEF IInv
    <2>5. Told(q) => Told(q)' /\ Counted(q)'
      BY <1>1, <2>1, <2>3, <2>4 DEF Told, Counted, admin, socket
    <2>6. WalkFine(q)'
      BY <2>1, <2>5 DEF IInv, WalkFine, Walking, walks
    <2>7. QED
      BY <1>1, <2>1, <2>2, <2>6, RequestStep DEF walks
  <1>4. QED
    BY <1>2, <1>3

LEMMA Pages ==
    ASSUME NEW p \in Nat
    PROVE  /\ p * PageSize \in Nat
           /\ (p + 1) * PageSize = p * PageSize + PageSize
           /\ (p + 1) * PageSize \in Nat
  BY NotificationsAssumption

\* Whatever is in the list, and not before the page, is on it or after it: a row
\* has fewer rows above it than there are rows.
LEMMA RankBound ==
    ASSUME TypeOK, NEW q, NEW n \in Listed(q)
    PROVE  Rank(q, n) < Cardinality(Listed(q))
  <1> DEFINE Above == {m \in Listed(q) : place[m] > place[n]}
  <1>1. IsFiniteSet(Listed(q)) /\ Cardinality(Listed(q)) \in Nat /\ Rank(q, n) \in Nat
        /\ place[n] \in Nat
    BY ListedFinite, NotificationsAssumption DEF TypeOK
  <1>2. n \notin Above
    BY <1>1
  <1>3. Cardinality(Above) <= Cardinality(Listed(q))
        /\ (Cardinality(Listed(q)) = Cardinality(Above) => Listed(q) = Above)
    BY <1>1, FS_Subset
  <1>4. QED
    BY <1>1, <1>2, <1>3 DEF Rank

\* A page that is kept: the walk goes on, or a socket is to complete its list.
LEMMA PageSafe ==
    ASSUME IInv, NEW q \in Calls, Slice(q), ~ Respond(q, "ok")
    PROVE  IInv'
  <1>1. TypeOK' /\ UNCHANGED <<database, creation, admin, channels, socket>>
    BY SliceTyped DEF IInv, Slice
  <1> DEFINE last == (page[q] + 1) * PageSize >= total[q]
  <1>step. /\ at[q] = "slice" /\ UNCHANGED <<call, since, walks>>
        /\ at' = [at EXCEPT ![q] = IF last THEN "done" ELSE "next"]
        /\ page' = [page EXCEPT ![q] = IF last THEN 0 ELSE @ + 1]
        /\ reply' = [reply EXCEPT ![q] = IF last THEN "ok" ELSE @]
        /\ seen' = [seen EXCEPT ![q] = @ \union {n \in Listed(q) : OnPage(q, n)}]
        /\ total' = [total EXCEPT ![q] = 0]
    BY DEF Slice, Goto
  <1>sizes. page[q] \in Nat /\ total[q] \in Nat /\ (page[q] + 1) * PageSize \in Nat
    BY Pages DEF IInv, TypeOK
  <1>2. /\ at[q] = "slice" /\ UNCHANGED <<call, since, walks>>
        /\ seen'[q] = seen[q] \union {n \in Listed(q) : OnPage(q, n)}
        /\ \/ /\ (page[q] + 1) * PageSize < total[q]
              /\ at'[q] = "next" /\ page'[q] = page[q] + 1 /\ reply'[q] = reply[q]
           \/ /\ (page[q] + 1) * PageSize >= total[q]
              /\ at'[q] = "done" /\ reply'[q] = "ok"
        /\ \A p \in Calls \ {q} : Same(p)
    <2> HIDE DEF last
    <2>1. /\ at'[q] = (IF last THEN "done" ELSE "next")
          /\ page'[q] = (IF last THEN 0 ELSE page[q] + 1)
          /\ reply'[q] = (IF last THEN "ok" ELSE reply[q])
          /\ seen'[q] = seen[q] \union {n \in Listed(q) : OnPage(q, n)}
      BY <1>step DEF IInv, TypeOK
    <2>2. \A p \in Calls \ {q} : Same(p)
      BY <1>step DEF IInv, TypeOK, Same
    <2>3. last \/ (page[q] + 1) * PageSize < total[q]
      BY <1>sizes DEF last
    <2>4. QED
      BY <1>step, <2>1, <2>2, <2>3 DEF last
  <1>3. CallFine(q)'
    BY <1>1, <1>2 DEF IInv, CallFine, Walking, socket
  <1>4. /\ Listed(q)' = Listed(q) /\ \A n : Rank(q, n)' = Rank(q, n)
    BY <1>1, <1>2, SameListed DEF database
  <1>5. \A s : Learned(q, s)' = Learned(q, s) \union {n \in Listed(q) : OnPage(q, n)}
    BY <1>1, <1>2 DEF Learned, creation, channels, socket
  <1>6. ASSUME Told(q), Counted(q) PROVE Told(q)'
    <2> SUFFICES ASSUME NEW s \in since[q], conn[s] = "open", NEW n \in Listed(q) \ edited,
                        at'[q] = "done" \/ Rank(q, n) < page'[q] * PageSize
                 PROVE  n \in Learned(q, s)'
      BY <1>1, <1>2, <1>4 DEF Told, admin, socket
    <2>1. page[q] \in Nat /\ total[q] \in Nat /\ Rank(q, n) \in Nat
          /\ Cardinality(Listed(q)) \in Nat
      BY ListedFinite DEF IInv, TypeOK
    <2>2. Rank(q, n) < total[q]
      BY <1>2, <1>6, <2>1, RankBound DEF Counted, IInv
    <2>3. page[q] * PageSize \in Nat /\ (page[q] + 1) * PageSize \in Nat
      BY <2>1, Pages
    <2>4. Rank(q, n) < (page[q] + 1) * PageSize
      BY <1>2, <2>1, <2>2, <2>3
    <2>5. CASE Rank(q, n) < page[q] * PageSize
      BY <1>5, <1>6, <2>5 DEF Told
    <2>6. CASE ~ (Rank(q, n) < page[q] * PageSize)
      <3>1. page[q] * PageSize <= Rank(q, n)
        BY <2>1, <2>3, <2>6
      <3>2. OnPage(q, n)
        BY <2>2, <2>4, <3>1 DEF OnPage
      <3>3. QED
        BY <1>5, <3>2
    <2>7. QED
      BY <2>5, <2>6
  <1>7. WalkFine(q)'
    BY <1>2, <1>6 DEF IInv, WalkFine, Walking, Counted, walks
  <1>8. QED
    BY <1>1, <1>2, <1>3, <1>7, RequestStep DEF walks

LEMMA SliceSafe ==
    ASSUME IInv, NEW q \in Calls, Slice(q)
    PROVE  IInv'
  <1>1. CASE Respond(q, "ok")
    BY <1>1, SliceTyped, RespondStep DEF IInv, Slice
  <1>2. CASE ~ Respond(q, "ok")
    BY <1>2, PageSafe
  <1>3. QED
    BY <1>1, <1>2

LEMMA NextPageSafe ==
    ASSUME IInv, NEW q \in Calls, NextPage(q)
    PROVE  IInv'
  <1>1. TypeOK' /\ UNCHANGED <<database, creation, admin, channels, socket>>
    BY NextPageTyped DEF IInv, NextPage
  <1>2. CASE Respond(q, "unauthorized")
    BY <1>1, <1>2, RespondStep
  <1>3. CASE ~ Respond(q, "unauthorized")
    <2>1. /\ at[q] = "next" /\ at'[q] = "count"
          /\ UNCHANGED <<call, page, total, seen, reply, since, walks>>
          /\ \A p \in Calls \ {q} : Same(p)
      BY <1>3 DEF IInv, TypeOK, NextPage, Goto, Same
    <2>2. CallFine(q)'
      BY <1>1, <2>1 DEF IInv, CallFine, Walking, socket
    <2>3. /\ Listed(q)' = Listed(q) /\ \A n : Rank(q, n)' = Rank(q, n)
          /\ \A s : Learned(q, s)' = Learned(q, s)
      BY <1>1, <2>1, SameListed, SameLearned DEF database, creation, channels, socket
    <2>4. Told(q) => Told(q)' /\ Counted(q)'
      BY <1>1, <2>1, <2>3 DEF Told, Counted, admin, socket
    <2>5. WalkFine(q)'
      BY <2>1, <2>4 DEF IInv, WalkFine, Walking, walks
    <2>6. QED
      BY <1>1, <2>1, <2>2, <2>5, RequestStep DEF walks
  <1>4. QED
    BY <1>2, <1>3

LEMMA GetSafe ==
    ASSUME IInv, NEW q \in Calls, Get(q)
    PROVE  IInv'
  <1>1. TypeOK' /\ UNCHANGED <<database, creation, admin, channels, socket>>
    BY GetTyped DEF IInv, Get
  <1>2. CASE Respond(q, "notfound") \/ Respond(q, "read")
    BY <1>1, <1>2, RespondStep
  <1>3. CASE ~ (Respond(q, "notfound") \/ Respond(q, "read"))
    <2>1. /\ at[q] = "get" /\ at'[q] = "save" /\ Own(q)
          /\ UNCHANGED <<call, page, total, seen, reply, since, walks>>
          /\ \A p \in Calls \ {q} : Same(p)
      BY <1>3 DEF IInv, TypeOK, Get, Goto, Same
    <2>3. CallFine(q)'
      BY <1>1, <2>1 DEF IInv, CallFine, Walking, database, socket
    <2>4. WalkFine(q)'
      BY <2>1 DEF IInv, CallFine, WalkFine, Walking
    <2>5. QED
      BY <1>1, <2>1, <2>3, <2>4, RequestStep DEF walks
  <1>4. QED
    BY <1>2, <1>3

LEMMA MarkReadSafe ==
    ASSUME IInv, NEW q \in Calls, MarkRead(q)
    PROVE  IInv'
  <1>1. TypeOK' /\ UNCHANGED <<users, rows, owner, place, creation, admin, channels, socket>>
    BY MarkReadTyped DEF IInv, MarkRead
  <1>2. CASE Respond(q, "error") /\ UNCHANGED read
    BY <1>1, <1>2, RespondStep DEF database
  <1>3. CASE ~ (Respond(q, "error") /\ UNCHANGED read)
    <2>1. /\ at[q] = "save" /\ at'[q] = "done" /\ reply'[q] = "read" /\ call'[q] = None
          /\ read' = read \union {call[q].what} /\ call[q].what \in rows
          /\ thinned' = thinned \union Thinned(owner[call[q].what]) /\ shifted' = shifted
          /\ since'[q] = since[q]
          /\ \A p \in Calls \ {q} : Same(p)
      BY <1>3 DEF IInv, TypeOK, MarkRead, Goto, Same
    <2>2. since[q] = {}
      BY <2>1 DEF IInv, CallFine
    <2>3. RowsFine' /\ \A s \in Sockets : SocketFine(s)'
      BY <1>1, RowsKept, SocketKept DEF IInv, creation, channels, socket
    <2>4. CallFine(q)' /\ WalkFine(q)'
      BY <2>1, <2>2 DEF CallFine, WalkFine, Walking
    <2>5. ASSUME NEW p \in Calls \ {q} PROVE CallFine(p)'
      BY <1>1, <2>1, CallKept DEF IInv, SocketsAge, socket
    <2>6. ASSUME NEW p \in Calls \ {q} PROVE WalkFine(p)'
      <3>1. Listed(p)' \subseteq Listed(p)
        BY <1>1, <2>1 DEF Listed, Same
      <3>2. Listed(p)' = Listed(p) \/ (call[p].op = "unread" /\ call[p].user = owner[call[q].what])
        BY <1>1, <2>1 DEF Listed, Same
      <3>3. Walking(p) /\ p \notin thinned' => Listed(p)' = Listed(p)
        BY <2>1, <3>2 DEF Thinned
      <3>4. reply[p] = "ok" => at[p] = "done"
        BY DEF IInv, CallFine
      <3>5. \A s : Learned(p, s)' = Learned(p, s)
        BY <1>1, <2>1, SameLearned DEF Same, creation, channels, socket
      <3>6. WalkFine(p) /\ Same(p) /\ TypeOK /\ conn' = conn
            /\ (p \in shifted \union thinned => p \in shifted' \union thinned')
            /\ UNCHANGED <<place, edited>>
        BY <1>1, <2>1 DEF IInv, socket, admin
      <3>7. QED
        BY <1>1, <3>1, <3>3, <3>4, <3>5, <3>6, WalkKept
    <2>7. QED
      BY <1>1, <2>3, <2>4, <2>5, <2>6 DEF IInv
  <1>4. QED
    BY <1>2, <1>3

-----------------------------------------------------------------------------
LEMMA InitSafe == Init => IInv
  <1> SUFFICES ASSUME Init PROVE IInv
    OBVIOUS
  <1>1. TypeOK
    BY InitTyped
  <1>2. RowsFine /\ \A s \in Sockets : SocketFine(s)
    BY DEF Init, RowsFine, SocketFine
  <1>3. \A q \in Calls : CallFine(q) /\ WalkFine(q)
    BY DEF Init, CallFine, WalkFine, Walking
  <1>4. QED
    BY <1>1, <1>2, <1>3 DEF IInv

LEMMA StutterSafe ==
    ASSUME IInv, UNCHANGED vars
    PROVE  IInv'
  <1>1. UNCHANGED <<database, creation, admin, channels, socket, request, walks>>
    BY DEF vars
  <1>2. TypeOK'
    BY <1>1 DEF IInv, TypeOK, database, creation, admin, channels, socket, request, walks
  <1>3. RowsFine' /\ \A s \in Sockets : SocketFine(s)'
    BY <1>1, RowsKept, SocketKept DEF IInv, database, creation, channels, socket
  <1>4. \A q \in Calls : Same(q) /\ CallFine(q)'
    BY <1>1, CallKept DEF IInv, SocketsAge, Same, database, socket, request
  <1>5. ASSUME NEW q \in Calls PROVE WalkFine(q)'
    <2>1. Listed(q)' = Listed(q) /\ \A s : Learned(q, s)' = Learned(q, s)
      BY <1>1, SameListed, SameLearned DEF database, creation, channels, socket, request
    <2>2. WalkFine(q) /\ Same(q) /\ TypeOK /\ conn' = conn /\ UNCHANGED walks
          /\ UNCHANGED <<place, edited>>
      BY <1>1, <1>4 DEF IInv, socket, database, admin
    <2>3. QED
      BY <1>2, <2>1, <2>2, WalkKept DEF walks
  <1>6. QED
    BY <1>2, <1>3, <1>4, <1>5 DEF IInv

LEMMA NextSafe == IInv /\ [Next]_vars => IInv'
  <1> SUFFICES ASSUME IInv, [Next]_vars PROVE IInv'
    OBVIOUS
  <1>1. ASSUME NEW n \in Stamps, Broadcast(n) \/ \E u \in Users : Create(n, u) PROVE IInv'
    BY <1>1, CreateSafe, BroadcastSafe
  <1>2. ASSUME NEW s \in Sockets,
               \/ \E u \in Users : Authenticate(s, u)
               \/ Join(s) \/ Accept(s) \/ Disconnect(s)
               \/ \E n \in Stamps : Deliver(s, n)
        PROVE IInv'
    BY <1>2, SocketSafe
  <1>3. ASSUME NEW q \in Calls, \E c \in Requests : Receive(q, c) PROVE IInv'
    BY <1>3, ReceiveSafe
  <1>4. ASSUME NEW q \in Calls, Count(q) \/ Slice(q) \/ NextPage(q) PROVE IInv'
    BY <1>4, CountSafe, SliceSafe, NextPageSafe
  <1>5. ASSUME NEW q \in Calls, Get(q) \/ MarkRead(q) PROVE IInv'
    BY <1>5, GetSafe, MarkReadSafe
  <1>6. ASSUME NEW u \in Users, Erase(u) PROVE IInv'
    BY <1>6, EraseSafe
  <1>7. ASSUME NEW n \in Stamps,
               \/ LoadForm(n) \/ DeleteRow(n)
               \/ \E u \in Users, marked \in BOOLEAN :
                      AddRow(n, u, marked) \/ SaveForm(n, u, marked)
        PROVE IInv'
    BY <1>7, FormSafe
  <1>8. QED
    BY <1>1, <1>2, <1>3, <1>4, <1>5, <1>6, <1>7, StutterSafe DEF Next

\* The inductive invariant: accepted sockets are in the group of their user, and on
\* the pages a walk has read there is nothing its client has not been told of, but for
\* what a form of the admin site touched.
THEOREM Invariance == Spec => []IInv
  BY InitSafe, NextSafe, PTL DEF Spec

\* The tables, the channels and the requests have their types.
THEOREM TypeCorrect == Spec => []TypeOK
  <1>1. IInv => TypeOK
    BY DEF IInv
  <1>2. QED
    BY <1>1, Invariance, PTL

\* A client that walks the list beside its open socket misses nothing, but for the
\* two races of the pages, what forms touched and the lists they took rows from.
THEOREM NothingIsMissed == Spec => []NothingMissed
  <1>1. IInv => NothingMissed
    BY DEF IInv, CallFine, WalkFine, Told, NothingMissed
  <1>2. QED
    BY <1>1, Invariance, PTL

\* What an open socket was sent is a notification of its user, whose row is there
\* until the user is erased or a form touches it.
THEOREM Messages == Spec => []MessagesHaveRows
  <1>1. IInv => MessagesHaveRows
    BY DEF IInv, TypeOK, RowsFine, SocketFine, MessagesHaveRows
  <1>2. QED
    BY <1>1, Invariance, PTL

\* What an erasure deleted, or a client marked as read, stays so but for a form.
LEMMA LastingStep ==
    ASSUME IInv, [Next]_vars, NEW n \in Stamps \ edited'
    PROVE  /\ stage[n] # "new" /\ users[owner[n]] # "active" /\ n \notin rows => n \notin rows'
           /\ n \in read /\ n \in rows' => n \in read'
  <1>1. CASE \E m \in Stamps, u \in Users : Create(m, u)
    BY <1>1 DEF Create
  <1>2. CASE \E q \in Calls : MarkRead(q)
    BY <1>2 DEF MarkRead, Respond
  <1>3. CASE \E u \in Users : Erase(u)
    BY <1>3 DEF Erase
  <1>4. CASE UNCHANGED <<rows, read>>
    BY <1>4
  <1>5. CASE \E m \in Stamps :
               \/ DeleteRow(m)
               \/ \E u \in Users, marked \in BOOLEAN :
                      AddRow(m, u, marked) \/ SaveForm(m, u, marked)
    BY <1>5 DEF DeleteRow, AddRow, SaveForm
  <1>6. QED
    BY <1>1, <1>2, <1>3, <1>4, <1>5 DEF Next, vars, database, Broadcast, Authenticate, Join,
       Accept, Deliver, Disconnect, Receive, Count, Slice, NextPage, Get, LoadForm

\* What an erasure deleted stays deleted, whatever was reading it, and what was
\* marked as read stays read, unless a form saves the row.
THEOREM ErasuresLast == Spec => ErasedAndReadLast
  <1>1. IInv /\ [Next]_vars =>
            [\A n \in Stamps \ edited' :
                /\ stage[n] # "new" /\ users[owner[n]] # "active" /\ n \notin rows
                     => n \notin rows'
                /\ n \in read /\ n \in rows' => n \in read']_vars
    BY LastingStep
  <1>2. QED
    BY <1>1, Invariance, PTL DEF Spec, ErasedAndReadLast

=============================================================================
