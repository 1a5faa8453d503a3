--------------------------- MODULE AccountsProofs ---------------------------
(***************************************************************************)
(* Proofs about Accounts: erasures, reset links and registrations, for any *)
(* number of accounts and requests in any order; and, in the second part,  *)
(* about SoftDelete, whose rows refer to accounts that erasures remove, for *)
(* any records and requests.                                               *)
(***************************************************************************)
EXTENDS Accounts, SoftDelete, TLAPS

Early == {"register", "email", "clean", "insert"}

\* What a request is doing at its position.
Position(q) ==
    /\ pc[q] = "new" => op[q] = "none"
    /\ pc[q] \in Early \union {"welcome"} => op[q] = "register"
    /\ pc[q] \in {"ask", "send"} => op[q] = "ask"
    /\ pc[q] \in {"confirm", "save"} => op[q] = "confirm"
    /\ pc[q] = "anonymize" => op[q] = "anonymize"
    /\ pc[q] = "delete" => op[q] = "delete"
    /\ pc[q] \in {"seed", "rewrite"} => op[q] = "seed"
    /\ pc[q] = "seed" => target[q] = None
    /\ pc[q] \in {"send", "save", "anonymize", "delete", "rewrite"} => target[q] \in spent

\* A request has given out its key only when it has come to its welcome mail,
\* and an answer is its last step.
Progress(q) ==
    /\ pc[q] = "welcome" => q \in spent
    /\ pc[q] \notin {"welcome", "done"} => q \notin spent
    /\ reply[q] # "none" => pc[q] = "done"

\* RegistrationsSettle, for one request.
Settled(q) ==
    op[q] = "register" =>
        /\ reply[q] = "ok" => q \in spent /\ q \in welcomed
        /\ reply[q] \in {"conflict", "unvalidated"} => q \notin spent /\ q \notin welcomed

\* A row or a link carries what request q makes.
Mentions(q, r) == r.password = q \/ r.email = q

\* Nothing carries the password and the placeholder of a request to come.
Fresh(q) ==
    pc[q] \notin {"welcome", "done"} =>
        /\ \A i \in Ids : ~ Mentions(q, account[i])
        /\ \A t \in mails : ~ Mentions(q, t)
        /\ \A r \in Requests : ~ Mentions(q, seen[r])

Known(q) == Position(q) /\ Progress(q) /\ Settled(q) /\ Fresh(q)

\* An outdated link never fits the row of its account again.
OutdatedDiffer == \A t \in outdated : t # TokenOf(t.id, account[t.id])

IInv ==
    /\ TypeOK
    /\ welcomed \subseteq spent
    /\ OutdatedDiffer
    /\ ErasedStaysErased
    /\ \A q \in Requests : Known(q)

-----------------------------------------------------------------------------
LEMMA Disjoint ==
    /\ None \notin Ids
    /\ \A q \in Requests : q \notin Emails /\ q \notin OldIds /\ q \in Ids /\ q # None
    /\ DemoEmail \in Emails /\ DemoName \in Names
  BY AccountsAssumption DEF Ids

LEMMA BlankTyped == Blank \in Row /\ Blank.password = None /\ Blank.email = None
  BY DEF Blank, Row

LEMMA TokenTyped ==
    ASSUME NEW i \in Ids, NEW r \in Row
    PROVE  /\ TokenOf(i, r) \in Token
           /\ TokenOf(i, r).id = i
           /\ TokenOf(i, r).password = r.password
           /\ TokenOf(i, r).email = r.email
  BY DEF TokenOf, Token, Row

LEMMA InitIInv == Init => IInv
<1> SUFFICES ASSUME Init PROVE IInv
  OBVIOUS
<1>1. \A i \in Ids : account[i] \in Row
  BY AccountsAssumption, BlankTyped DEF Init
<1>2. TypeOK
  <2>1. account \in [Ids -> Row]
    BY <1>1 DEF Init
  <2>2. \A q \in Requests : TokenOf(q, Blank) \in Token
    BY TokenTyped, BlankTyped, Disjoint
  <2> QED
    BY <2>1, <2>2, BlankTyped DEF Init, TypeOK, Replies, Ids
<1>3. \A q \in Requests : Known(q)
  <2> SUFFICES ASSUME NEW q \in Requests PROVE Known(q)
    OBVIOUS
  <2>1. ASSUME NEW i \in Ids PROVE ~ Mentions(q, account[i])
    <3>1. CASE i \in OldIds
      BY <3>1, Disjoint, AccountsAssumption DEF Init, Mentions
    <3>2. CASE i \notin OldIds
      BY <3>2, Disjoint, BlankTyped DEF Init, Mentions
    <3> QED
      BY <3>1, <3>2
  <2>2. \A r \in Requests : ~ Mentions(q, seen[r])
    BY Disjoint, BlankTyped DEF Init, Mentions
  <2> QED
    BY <2>1, <2>2, Disjoint DEF Init, Known, Position, Progress, Settled, Fresh, Early
<1> QED
  BY <1>2, <1>3 DEF Init, IInv, OutdatedDiffer, ErasedStaysErased

-----------------------------------------------------------------------------
(* The parts of the invariant a step may disturb *)

\* A step of another request leaves q where it is.
LEMMA OthersStay ==
    ASSUME NEW q \in Requests, NEW x, q # x, Position(q), Progress(q), Settled(q),
           pc'[q] = pc[q], op'[q] = op[q], target'[q] = target[q], reply'[q] = reply[q],
           spent \subseteq spent', spent' \subseteq spent \union {x},
           welcomed \subseteq welcomed', welcomed' \subseteq welcomed \union {x}
    PROVE  Position(q)' /\ Progress(q)' /\ Settled(q)'
  BY DEF Position, Progress, Settled

\* What is new mentions q nowhere, or q is over.
LEMMA FreshStays ==
    ASSUME NEW q \in Requests, Fresh(q),
           pc'[q] = pc[q] \/ pc[q] \notin {"welcome", "done"} \/ pc'[q] \in {"welcome", "done"},
           \A i \in Ids : account'[i] = account[i] \/ ~ Mentions(q, account'[i]),
           \A t \in mails' : t \in mails \/ ~ Mentions(q, t),
           \A r \in Requests : seen'[r] = seen[r] \/ ~ Mentions(q, seen'[r])
    PROVE  Fresh(q)'
  BY DEF Fresh, Mentions

\* A step that leaves the tables, the target and the reading of every request
\* and moves one request on, or ends it.
LEMMA QuietStep ==
    ASSUME IInv, NEW x \in Requests,
           UNCHANGED <<table, mails, welcomed, input, target, seen>>,
           TypeOK', Position(x)', Progress(x)', Settled(x)', pc[x] \notin {"welcome", "done"} \/ pc'[x] = "done",
           \A q \in Requests : q # x => pc'[q] = pc[q] /\ reply'[q] = reply[q]
    PROVE  IInv'
<1>1. ASSUME NEW q \in Requests PROVE Known(q)'
  <2>1. CASE q = x
    <3>1. Fresh(x)'
      BY FreshStays DEF IInv, Known, table
    <3> QED
      BY <2>1, <3>1 DEF Known
  <2>2. CASE q # x
    <3>1. Position(q)' /\ Progress(q)' /\ Settled(q)'
      BY <2>2, OthersStay DEF IInv, Known, table, input
    <3>2. Fresh(q)'
      BY <2>2, FreshStays DEF IInv, Known, table
    <3> QED
      BY <3>1, <3>2 DEF Known
  <2> QED
    BY <2>1, <2>2
<1>2. ErasedStaysErased'
  BY DEF IInv, ErasedStaysErased, Reseeded, table, input
<1> QED
  BY <1>1, <1>2 DEF IInv, OutdatedDiffer, table

\* A row that is put: its type, and the links it makes outdated.
LEMMA PutTyped ==
    ASSUME TypeOK, NEW i \in Ids, NEW r \in Row, Put(i, r), mails' = mails
    PROVE  /\ account' \in [Ids -> Row]
           /\ account'[i] = r
           /\ \A j \in Ids : j # i => account'[j] = account[j]
           /\ rows' = rows \union {i}
           /\ spent' = spent \union {i}
           /\ rows' \subseteq spent'
           /\ spent' \subseteq Ids
           /\ outdated' = outdated \union {t \in mails : t.id = i /\ t # TokenOf(i, r)}
           /\ outdated' \subseteq mails'
  BY DEF Put, Outdate, TypeOK

\* A row that carries something new makes no outdated link fit again.
LEMMA PutOutdates ==
    ASSUME TypeOK, OutdatedDiffer, NEW x \in Requests, NEW i \in Ids, NEW r \in Row,
           Put(i, r), mails' = mails, Mentions(x, r), Fresh(x),
           pc[x] \notin {"welcome", "done"}
    PROVE  OutdatedDiffer'
<1> SUFFICES ASSUME NEW t \in outdated' PROVE t # TokenOf(t.id, account'[t.id])
  BY DEF OutdatedDiffer
<1>1. t \in mails /\ t \in Token
  BY PutTyped DEF TypeOK
<1>2. CASE t.id = i
  <2>1. ~ Mentions(x, t)
    BY <1>1 DEF Fresh
  <2>2. t.password # r.password \/ t.email # r.email
    BY <2>1 DEF Mentions
  <2> QED
    BY <1>2, <2>2, TokenTyped, PutTyped
<1>3. CASE t.id # i
  <2>1. t \in outdated /\ t.id \in Ids
    BY <1>1, <1>3, PutTyped DEF Token
  <2>2. account'[t.id] = account[t.id]
    BY <1>3, <2>1, PutTyped
  <2> QED
    BY <2>1, <2>2 DEF OutdatedDiffer
<1> QED
  BY <1>2, <1>3

\* The step of x that puts a row with its own password or placeholder: what is
\* left to show of it is what it does to x, to types and to erased accounts.
LEMMA PutStep ==
    ASSUME IInv, NEW x \in Requests, NEW i \in Ids, NEW r \in Row, Put(i, r),
           i \in spent \/ i = x,
           Mentions(x, r), \A q \in Requests : q # x => ~ Mentions(q, r) \/ Mentions(q, account[i])
                                                        \/ Mentions(q, seen[x]),
           pc[x] \notin {"welcome", "done"}, pc'[x] \in {"welcome", "done"},
           UNCHANGED <<mails, welcomed, input, seen>>,
           \A q \in Requests : q # x => /\ pc'[q] = pc[q]
                                        /\ reply'[q] = reply[q]
                                        /\ target'[q] = target[q],
           TypeOK', Position(x)', Progress(x)', Settled(x)', ErasedStaysErased'
    PROVE  IInv'
<1> USE DEF input
<1>0. TypeOK /\ OutdatedDiffer /\ (\A q \in Requests : Known(q)) /\ welcomed \subseteq spent
  BY DEF IInv
<1>1. ASSUME NEW q \in Requests PROVE Known(q)'
  <2>1. CASE q = x
    <3>1. Fresh(x)'
      BY DEF Fresh
    <3> QED
      BY <2>1, <3>1 DEF Known
  <2>2. CASE q # x
    <3>1. Position(q)' /\ Progress(q)' /\ Settled(q)'
      <4>1. spent' \subseteq spent \union {x} /\ spent \subseteq spent'
        BY <1>0, PutTyped
      <4> QED
        BY <1>0, <2>2, <4>1, OthersStay DEF Known
    <3>2. Fresh(q)'
      <4>1. CASE pc[q] \in {"welcome", "done"}
        BY <2>2, <4>1 DEF Fresh
      <4>2. CASE pc[q] \notin {"welcome", "done"}
        <5>1. ~ Mentions(q, account[i]) /\ ~ Mentions(q, seen[x])
          BY <1>0, <4>2 DEF Known, Fresh
        <5>2. ~ Mentions(q, r)
          BY <2>2, <5>1
        <5>3. \A j \in Ids : account'[j] = account[j] \/ ~ Mentions(q, account'[j])
          BY <1>0, <5>2, PutTyped
        <5> QED
          BY <1>0, <2>2, <5>3, FreshStays DEF Known
      <4> QED
        BY <4>1, <4>2
    <3> QED
      BY <3>1, <3>2 DEF Known
  <2> QED
    BY <2>1, <2>2
<1>2. OutdatedDiffer'
  BY <1>0, PutOutdates DEF Known
<1>3. welcomed' \subseteq spent'
  BY <1>0, PutTyped
<1> QED
  BY <1>1, <1>2, <1>3 DEF IInv

\* An erased account stays erased where a step leaves its identity, makes it a
\* placeholder, or seeds it.
LEMMA ErasedKept ==
    ASSUME IInv, NEW x \in Requests, op' = op,
           \A q \in Requests : q # x => target'[q] = target[q],
           op[x] # "seed" \/ target[x] = None \/ target'[x] = target[x],
           \A j \in erased' :
               j \in rows' =>
                   \/ Reseeded(j)'
                   \/ /\ ~ account'[j].active
                      /\ account'[j].name \in Requests
                      /\ account'[j].email \in Requests
                   \/ /\ j \in erased /\ j \in rows
                      /\ account'[j].active = account[j].active
                      /\ account'[j].name = account[j].name
                      /\ account'[j].email = account[j].email
    PROVE  ErasedStaysErased'
<1> SUFFICES ASSUME NEW j \in erased', j \in rows', ~ Reseeded(j)'
             PROVE  /\ ~ account'[j].active
                    /\ account'[j].name \in Requests
                    /\ account'[j].email \in Requests
  BY DEF ErasedStaysErased
<1>1. CASE j \in erased
  <2>1. j # None
    BY <1>1, Disjoint DEF IInv, TypeOK
  <2>2. ~ Reseeded(j)
    BY <2>1 DEF Reseeded
  <2> QED
    BY <1>1, <2>2 DEF IInv, ErasedStaysErased
<1>2. CASE j \notin erased
  BY <1>2
<1> QED
  BY <1>1, <1>2

-----------------------------------------------------------------------------
(* The actions *)

LEMMA ReceiveStep ==
    ASSUME IInv, NEW x \in Requests, NEW o \in Ops, NEW n \in Names \union {None},
           NEW e \in Emails \union {None}, NEW t \in Token, NEW i \in Ids \union {None},
           Receive(x, o, n, e, t, i),
           o \in {"anonymize", "delete"} => i \in spent,
           o = "seed" => i = None
    PROVE  IInv'
<1>1. TypeOK'
  <2>1. o \in {"register", "ask", "confirm", "anonymize", "delete", "seed"}
    BY AccountsAssumption
  <2> QED
    BY <2>1 DEF IInv, TypeOK, Receive, Goto, table
<1>2. op[x] = "none" /\ reply[x] = "none" /\ x \notin spent
  BY DEF IInv, Known, Position, Progress, Receive
<1>3. ASSUME NEW q \in Requests PROVE Known(q)'
  <2>1. Fresh(q)'
    <3>1. pc'[q] = pc[q] \/ pc[q] \notin {"welcome", "done"}
      BY DEF IInv, TypeOK, Receive, Goto
    <3> QED
      BY <3>1, FreshStays DEF IInv, Known, Receive, table
  <2>2. CASE q = x
    <3>1. pc'[x] = o /\ op'[x] = o /\ target'[x] = i /\ reply'[x] = "none" /\ spent' = spent
      BY <1>2 DEF IInv, TypeOK, Receive, Goto, table
    <3>2. o \in {"register", "ask", "confirm", "anonymize", "delete", "seed"}
      BY AccountsAssumption
    <3>3. Position(x)' /\ Progress(x)' /\ Settled(x)'
      BY <1>2, <3>1, <3>2 DEF Position, Progress, Settled, Early
    <3> QED
      BY <2>1, <2>2, <3>3 DEF Known
  <2>3. CASE q # x
    <3>1. Position(q)' /\ Progress(q)' /\ Settled(q)'
      BY <2>3, OthersStay DEF IInv, TypeOK, Known, Receive, Goto, table
    <3> QED
      BY <2>1, <3>1 DEF Known
  <2> QED
    BY <2>2, <2>3
<1>4. ErasedStaysErased'
  <2>1. ASSUME NEW j, Reseeded(j) PROVE Reseeded(j)'
    <3>1. PICK q \in Requests : op[q] = "seed" /\ target[q] = j
      BY <2>1 DEF Reseeded
    <3>2. q # x
      BY <1>2, <3>1
    <3>3. op'[q] = "seed" /\ target'[q] = j
      BY <3>1, <3>2 DEF IInv, TypeOK, Receive
    <3> QED
      BY <3>3 DEF Reseeded
  <2> QED
    BY <2>1 DEF IInv, ErasedStaysErased, Receive, table
<1> QED
  BY <1>1, <1>3, <1>4 DEF IInv, OutdatedDiffer, Receive, table

LEMMA ArriveStep ==
    ASSUME IInv, NEW x \in Requests, Arrive(x)
    PROVE  IInv'
<1> USE DEF Arrive
<1>0. token[x] \in Token /\ mails \subseteq Token /\ rows \subseteq spent /\ spent \subseteq Ids
  BY DEF IInv, TypeOK
<1>1. ASSUME "register" \in Ops, NEW n \in Names, NEW e \in Emails, Register(x, n, e) PROVE IInv'
  BY <1>0, <1>1, ReceiveStep DEF Register
<1>2. ASSUME "ask" \in Ops, NEW e \in Emails, Ask(x, e) PROVE IInv'
  BY <1>0, <1>2, ReceiveStep DEF Ask
<1>3. ASSUME "confirm" \in Ops, NEW t \in mails, Confirm(x, t) PROVE IInv'
  <2>1. t \in Token /\ t.id \in Ids
    BY <1>0 DEF Token
  <2> QED
    BY <1>3, <2>1, ReceiveStep DEF Confirm
<1>4. ASSUME "seed" \in Ops, Seed(x) PROVE IInv'
  BY <1>0, <1>4, Disjoint, ReceiveStep DEF Seed
<1>5. ASSUME NEW o \in {"anonymize", "delete"} \intersect Ops, NEW i \in Ids, EraseUser(x, o, i)
      PROVE  IInv'
  BY <1>0, <1>5, ReceiveStep DEF EraseUser
<1> QED
  BY <1>1, <1>2, <1>3, <1>4, <1>5

\* The checks of a registration, and a crash.
LEMMA CheckStep ==
    ASSUME IInv, NEW x \in Requests,
           CheckName(x) \/ CheckEmail(x) \/ Clean(x) \/ Crash(x)
    PROVE  IInv'
<1> USE DEF CheckName, CheckEmail, Clean, Crash, Goto, Answer
<1>1. UNCHANGED <<table, mails, welcomed, input, target, seen>>
  OBVIOUS
<1>2. TypeOK'
  BY <1>1 DEF IInv, TypeOK, Replies, table, input
<1>3. \A q \in Requests : q # x => pc'[q] = pc[q] /\ reply'[q] = reply[q]
  BY DEF IInv, TypeOK
<1>4. pc[x] \notin {"welcome", "done"} \/ pc'[x] = "done"
  BY DEF IInv, TypeOK
<1>5. Position(x)' /\ Progress(x)' /\ Settled(x)'
  BY <1>1 DEF IInv, TypeOK, Known, Position, Progress, Settled, Early, table, input
<1> QED
  BY <1>1, <1>2, <1>3, <1>4, <1>5, QuietStep

LEMMA RegisteredTyped ==
    ASSUME IInv, NEW x \in Requests
    PROVE  /\ Registered(x) \in Row
           /\ Mentions(x, Registered(x))
           /\ \A q \in Requests : q # x => ~ Mentions(q, Registered(x))
  BY Disjoint DEF Registered, Row, Mentions, IInv, TypeOK

\* An account inserted under a new key is nobody's erased account.
LEMMA InsertKeeps ==
    ASSUME IInv, NEW x \in Requests, x \notin spent, Put(x, Registered(x)),
           mails' = mails, op' = op, erased' = erased,
           \A q \in Requests : q # x => target'[q] = target[q],
           op[x] # "seed" \/ target[x] = None
    PROVE  ErasedStaysErased'
<1>1. x \in Ids /\ Registered(x) \in Row
  BY Disjoint, RegisteredTyped
<1>2. x \notin erased /\ erased \subseteq Ids
  BY DEF IInv, TypeOK
<1>3. ASSUME NEW j \in erased', j \in rows'
      PROVE  j \in erased /\ j \in rows /\ account'[j] = account[j]
  BY <1>1, <1>2, <1>3, PutTyped DEF IInv
<1> QED
  BY <1>3, ErasedKept

LEMMA InsertStep ==
    ASSUME IInv, NEW x \in Requests, Insert(x)
    PROVE  IInv'
<1>0. /\ pc[x] = "insert" /\ op[x] = "register" /\ x \notin spent /\ reply[x] = "none"
      /\ x \in Ids /\ x \notin welcomed
  BY Disjoint DEF IInv, Known, Position, Progress, Early, Insert
<1>1. CASE Put(x, Registered(x)) /\ target' = [target EXCEPT ![x] = x]
           /\ Goto(x, "welcome") /\ UNCHANGED reply
  <2>1. TypeOK'
    BY <1>0, <1>1, RegisteredTyped, PutTyped DEF IInv, TypeOK, Insert, Goto, input
  <2>2. x \in spent'
    BY <1>0, <1>1, RegisteredTyped, PutTyped DEF IInv, Insert
  <2>3. Position(x)' /\ Progress(x)' /\ Settled(x)'
    BY <1>0, <1>1, <2>2 DEF IInv, TypeOK, Insert, Goto, input, Position, Progress, Settled, Early
  <2>4. \A q \in Requests : q # x => pc'[q] = pc[q] /\ reply'[q] = reply[q] /\ target'[q] = target[q]
    BY <1>1 DEF IInv, TypeOK, Goto
  <2>5. ErasedStaysErased'
    BY <1>0, <1>1, <2>4, InsertKeeps DEF Insert, input
  <2>6. pc'[x] = "welcome"
    BY <1>1 DEF IInv, TypeOK, Goto
  <2> QED
    BY <1>0, <1>1, <2>1, <2>3, <2>4, <2>5, <2>6, RegisteredTyped, PutStep DEF Insert
<1>2. CASE Answer(x, "conflict") /\ UNCHANGED <<rows, account, spent, outdated, target>>
  <2>1. UNCHANGED <<table, mails, welcomed, input, target, seen>>
    BY <1>2 DEF Insert, table
  <2>2. TypeOK'
    BY <1>2, <2>1 DEF IInv, TypeOK, Answer, Goto, Replies, table, input
  <2>3. \A q \in Requests : q # x => pc'[q] = pc[q] /\ reply'[q] = reply[q]
    BY <1>2 DEF IInv, TypeOK, Answer, Goto
  <2>4. Position(x)' /\ Progress(x)' /\ Settled(x)'
    BY <1>0, <1>2, <2>1 DEF IInv, TypeOK, Answer, Goto, Position, Progress, Settled, Early, table, input
  <2> QED
    BY <1>0, <2>1, <2>2, <2>3, <2>4, QuietStep
<1> QED
  BY <1>1, <1>2 DEF Insert

LEMMA WelcomeStep ==
    ASSUME IInv, NEW x \in Requests, Welcome(x)
    PROVE  IInv'
<1>0. pc[x] = "welcome" /\ op[x] = "register" /\ x \in spent
  BY DEF IInv, Known, Position, Progress, Early, Welcome
<1>1. welcomed' \subseteq welcomed \union {x} /\ welcomed \subseteq welcomed'
  BY DEF Welcome
<1>2. /\ pc'[x] = "done"
      /\ \A q \in Requests : q # x => pc'[q] = pc[q] /\ reply'[q] = reply[q]
  BY DEF IInv, TypeOK, Welcome, Answer, Goto
<1>3. TypeOK'
  BY <1>1 DEF IInv, TypeOK, Welcome, Answer, Goto, Replies, table, input
<1>4. ASSUME NEW q \in Requests PROVE Known(q)'
  <2>1. Fresh(q)'
    BY <1>2, FreshStays DEF IInv, Known, Welcome, table
  <2>2. CASE q = x
    <3>1. Position(x)' /\ Progress(x)'
      BY <1>2 DEF IInv, Welcome, table, Position, Progress, Early
    <3>2. Settled(x)'
      BY <1>0 DEF IInv, TypeOK, Welcome, Answer, Settled, table
    <3> QED
      BY <2>1, <2>2, <3>1, <3>2 DEF Known
  <2>3. CASE q # x
    <3>1. Position(q)' /\ Progress(q)' /\ Settled(q)'
      BY <1>1, <1>2, <2>3, OthersStay DEF IInv, Known, Welcome, table, input
    <3> QED
      BY <2>1, <3>1 DEF Known
  <2> QED
    BY <2>2, <2>3
<1>5. ErasedStaysErased'
  BY DEF IInv, ErasedStaysErased, Reseeded, Welcome, table, input
<1> QED
  BY <1>0, <1>1, <1>3, <1>4, <1>5 DEF IInv, OutdatedDiffer, Welcome, table

\* A step of x that reads a row or queues a link made from a row it has read.
LEMMA ReadStep ==
    ASSUME IInv, NEW x \in Requests, UNCHANGED <<table, welcomed, input>>,
           TypeOK', Position(x)', Progress(x)', Settled(x)', pc[x] \notin {"welcome", "done"},
           \A q \in Requests : q # x => /\ pc'[q] = pc[q]
                                        /\ reply'[q] = reply[q]
                                        /\ target'[q] = target[q],
           \A r \in Requests : seen'[r] = seen[r] \/ \E i \in Ids : seen'[r] = account[i],
           \A t \in mails' : t \in mails \/ \E i \in Ids, r \in Requests : t = TokenOf(i, seen[r]),
           op[x] # "seed" \/ target[x] = None \/ target'[x] = target[x]
    PROVE  IInv'
<1>1. ASSUME NEW q \in Requests PROVE Fresh(q)'
  <2>1. CASE pc[q] \in {"welcome", "done"}
    BY <2>1 DEF Fresh
  <2>2. CASE pc[q] \notin {"welcome", "done"}
    <3>1. /\ \A i \in Ids : ~ Mentions(q, account[i])
          /\ \A r \in Requests : ~ Mentions(q, seen[r])
      BY <2>2 DEF IInv, Known, Fresh
    <3>2. \A t \in mails' : t \in mails \/ ~ Mentions(q, t)
      <4>1. ASSUME NEW i \in Ids, NEW r \in Requests PROVE ~ Mentions(q, TokenOf(i, seen[r]))
        <5>1. seen[r] \in Row /\ seen[r].password # q /\ seen[r].email # q
          BY <3>1 DEF Mentions, IInv, TypeOK
        <5>2. TokenOf(i, seen[r]).password # q /\ TokenOf(i, seen[r]).email # q
          BY <5>1, TokenTyped
        <5> QED
          BY <5>2 DEF Mentions
      <4> QED
        BY <4>1
    <3>3. \A r \in Requests : seen'[r] = seen[r] \/ ~ Mentions(q, seen'[r])
      BY <3>1
    <3> QED
      BY <2>2, <3>2, <3>3, FreshStays DEF IInv, Known, table
  <2> QED
    BY <2>1, <2>2
<1>2. ASSUME NEW q \in Requests PROVE Known(q)'
  <2>1. CASE q = x
    BY <1>1, <2>1 DEF Known
  <2>2. CASE q # x
    <3>1. Position(q)' /\ Progress(q)' /\ Settled(q)'
      BY <2>2, OthersStay DEF IInv, Known, table, input
    <3> QED
      BY <1>1, <3>1 DEF Known
  <2> QED
    BY <2>1, <2>2
<1>3. ErasedStaysErased'
  <2>1. \A j \in erased' : j \in rows' => j \in erased /\ j \in rows /\ account'[j] = account[j]
    BY DEF table
  <2>2. op' = op
    BY DEF input
  <2> QED
    BY <2>1, <2>2, ErasedKept
<1> QED
  BY <1>2, <1>3 DEF IInv, OutdatedDiffer, table

LEMMA FindAccountStep ==
    ASSUME IInv, NEW x \in Requests, FindAccount(x)
    PROVE  IInv'
<1> USE DEF FindAccount
<1>0. /\ pc[x] = "ask" /\ op[x] = "ask" /\ reply[x] = "none" /\ x \notin spent
      /\ UNCHANGED <<table, mails, welcomed, input>>
  BY DEF IInv, Known, Position, Progress
<1>1. CASE UNCHANGED <<target, seen>> /\ (Answer(x, "ok") \/ Answer(x, "ambiguous"))
  <2>1. TypeOK'
    BY <1>0, <1>1 DEF IInv, TypeOK, Answer, Goto, Replies, table, input
  <2>2. \A q \in Requests : q # x => pc'[q] = pc[q] /\ reply'[q] = reply[q]
    BY <1>1 DEF IInv, TypeOK, Answer, Goto
  <2>3. Position(x)' /\ Progress(x)' /\ Settled(x)'
    BY <1>0, <1>1 DEF IInv, TypeOK, Answer, Goto, Position, Progress, Settled, Early, table, input
  <2> QED
    BY <1>0, <1>1, <2>1, <2>2, <2>3, QuietStep
<1>2. ASSUME NEW i \in Addressed(email[x]),
             target' = [target EXCEPT ![x] = i], seen' = [seen EXCEPT ![x] = account[i]],
             Goto(x, "send"), UNCHANGED reply
      PROVE  IInv'
  <2>0. i \in rows /\ i \in spent /\ i \in Ids
    BY DEF IInv, TypeOK, Addressed
  <2>1. TypeOK'
    BY <1>0, <1>2, <2>0 DEF IInv, TypeOK, Goto, table, input
  <2>2. \A q \in Requests : q # x => pc'[q] = pc[q] /\ reply'[q] = reply[q] /\ target'[q] = target[q]
    BY <1>2 DEF IInv, TypeOK, Goto
  <2>3. Position(x)' /\ Progress(x)' /\ Settled(x)'
    BY <1>0, <1>2, <2>0 DEF IInv, TypeOK, Goto, Position, Progress, Settled, Early, table, input
  <2>4. \A r \in Requests : seen'[r] = seen[r] \/ \E j \in Ids : seen'[r] = account[j]
    BY <1>2, <2>0 DEF IInv, TypeOK
  <2> QED
    BY <1>0, <2>1, <2>2, <2>3, <2>4, ReadStep
<1> QED
  BY <1>1, <1>2

LEMMA SendLinkStep ==
    ASSUME IInv, NEW x \in Requests, SendLink(x)
    PROVE  IInv'
<1> USE DEF SendLink, Answer, Goto
<1>0. /\ pc[x] = "send" /\ op[x] = "ask" /\ target[x] \in Ids /\ x \notin spent
      /\ UNCHANGED <<table, welcomed, input, target, seen>>
  BY DEF IInv, TypeOK, Known, Position, Progress
<1>1. mails \subseteq mails' /\ mails' \subseteq mails \union {TokenOf(target[x], seen[x])}
  OBVIOUS
<1>2. TypeOK'
  <2>1. mails' \subseteq Token
    BY <1>0, <1>1, TokenTyped DEF IInv, TypeOK
  <2>2. pc' = [pc EXCEPT ![x] = "done"]
    OBVIOUS
  <2>3. reply' \in [Requests -> Replies]
    BY DEF IInv, TypeOK, Replies
  <2> QED
    BY <1>0, <1>1, <2>1, <2>2, <2>3 DEF IInv, TypeOK, table, input
<1>3. \A q \in Requests : q # x => pc'[q] = pc[q] /\ reply'[q] = reply[q] /\ target'[q] = target[q]
  BY <1>0 DEF IInv, TypeOK
<1>4. Position(x)' /\ Progress(x)' /\ Settled(x)'
  BY <1>0 DEF IInv, TypeOK, Position, Progress, Settled, Early, table, input
<1> QED
  BY <1>0, <1>1, <1>2, <1>3, <1>4, ReadStep

LEMMA CheckLinkStep ==
    ASSUME IInv, NEW x \in Requests, CheckLink(x)
    PROVE  IInv'
<1> USE DEF CheckLink
<1>0. /\ pc[x] = "confirm" /\ op[x] = "confirm" /\ reply[x] = "none" /\ x \notin spent
      /\ UNCHANGED <<table, mails, welcomed, input, target>>
  BY DEF IInv, Known, Position, Progress
<1>1. CASE Answer(x, "invalid") /\ UNCHANGED seen
  <2>1. TypeOK'
    BY <1>0, <1>1 DEF IInv, TypeOK, Answer, Goto, Replies, table, input
  <2>2. \A q \in Requests : q # x => pc'[q] = pc[q] /\ reply'[q] = reply[q]
    BY <1>1 DEF IInv, TypeOK, Answer, Goto
  <2>3. Position(x)' /\ Progress(x)' /\ Settled(x)'
    BY <1>0, <1>1 DEF IInv, TypeOK, Answer, Goto, Position, Progress, Settled, Early, table, input
  <2> QED
    BY <1>0, <1>1, <2>1, <2>2, <2>3, QuietStep
<1>2. CASE /\ target[x] \in rows
           /\ seen' = [seen EXCEPT ![x] = account[target[x]]]
           /\ Goto(x, "save")
           /\ UNCHANGED reply
  <2>0. target[x] \in spent /\ target[x] \in Ids
    BY <1>2 DEF IInv, TypeOK
  <2>1. TypeOK'
    BY <1>0, <1>2, <2>0 DEF IInv, TypeOK, Goto, table, input
  <2>2. \A q \in Requests : q # x => pc'[q] = pc[q] /\ reply'[q] = reply[q] /\ target'[q] = target[q]
    BY <1>0, <1>2 DEF IInv, TypeOK, Goto
  <2>3. Position(x)' /\ Progress(x)' /\ Settled(x)'
    BY <1>0, <1>2, <2>0 DEF IInv, TypeOK, Goto, Position, Progress, Settled, Early, table, input
  <2>4. \A r \in Requests : seen'[r] = seen[r] \/ \E j \in Ids : seen'[r] = account[j]
    BY <1>2, <2>0 DEF IInv, TypeOK
  <2> QED
    BY <1>0, <2>0, <2>1, <2>2, <2>3, <2>4, ReadStep
<1> QED
  BY <1>1, <1>2

\* An answer that leaves the tables as they are ends a request.
LEMMA RefusedStep ==
    ASSUME IInv, NEW x \in Requests, NEW r \in Replies, Answer(x, r), r # "ok",
           op[x] # "register",
           UNCHANGED <<table, mails, welcomed, input, target, seen>>
    PROVE  IInv'
<1>1. TypeOK'
  BY DEF IInv, TypeOK, Answer, Goto, table, input
<1>2. \A q \in Requests : q # x => pc'[q] = pc[q] /\ reply'[q] = reply[q]
  BY DEF IInv, TypeOK, Answer, Goto
<1>3. pc'[x] = "done" /\ Position(x)' /\ Progress(x)' /\ Settled(x)'
  BY DEF IInv, TypeOK, Answer, Goto, Position, Progress, Settled, Early, table, input
<1> QED
  BY <1>1, <1>2, <1>3, QuietStep

\* A request other than a registration that puts its row and is done.
LEMMA PutAndAnswer ==
    ASSUME IInv, NEW x \in Requests, NEW i \in Ids, NEW r \in Row, Put(i, r),
           i \in spent \/ i = x, op[x] # "register", pc[x] \notin {"welcome", "done"},
           Answer(x, "ok"), UNCHANGED <<mails, welcomed, input, seen>>,
           target' \in [Requests -> Ids \union {None}],
           \A q \in Requests : q # x => target'[q] = target[q],
           erased' \subseteq spent',
           Mentions(x, r), \A q \in Requests : q # x => ~ Mentions(q, r) \/ Mentions(q, account[i])
                                                        \/ Mentions(q, seen[x]),
           ErasedStaysErased'
    PROVE  IInv'
<1>1. TypeOK'
  BY PutTyped DEF IInv, TypeOK, Answer, Goto, Replies, input
<1>2. /\ pc'[x] = "done"
      /\ \A q \in Requests : q # x => pc'[q] = pc[q] /\ reply'[q] = reply[q]
  BY DEF IInv, TypeOK, Answer, Goto
<1>3. Position(x)' /\ Progress(x)' /\ Settled(x)'
  BY <1>2 DEF Position, Progress, Settled, Early, input
<1> QED
  BY <1>1, <1>2, <1>3, PutStep

LEMMA SavePasswordStep ==
    ASSUME IInv, NEW x \in Requests, SavePassword(x)
    PROVE  IInv'
<1> USE DEF SavePassword
<1>0. pc[x] = "save" /\ op[x] = "confirm" /\ target[x] \in spent /\ target[x] \in Ids /\ x \in Ids
  BY Disjoint DEF IInv, TypeOK, Known, Position
<1>1. CASE target[x] \in rows
  <2> DEFINE r == [account[target[x]] EXCEPT !.password = x]
  <2>1. /\ r \in Row
        /\ r.password = x
        /\ r.active = account[target[x]].active
        /\ r.name = account[target[x]].name
        /\ r.email = account[target[x]].email
    BY <1>0 DEF IInv, TypeOK, Row
  <2>2. Put(target[x], r) /\ Answer(x, "ok") /\ mails' = mails /\ op' = op /\ erased' = erased
    BY <1>1 DEF input
  <2> HIDE DEF r
  <2>3. \A j \in erased' : j \in rows' => /\ j \in erased /\ j \in rows
                                          /\ account'[j].active = account[j].active
                                          /\ account'[j].name = account[j].name
                                          /\ account'[j].email = account[j].email
    BY <1>0, <1>1, <2>1, <2>2, PutTyped DEF IInv, TypeOK
  <2>4. ErasedStaysErased'
    BY <2>2, <2>3, ErasedKept
  <2>5. Mentions(x, r) /\ \A q \in Requests : q # x => ~ Mentions(q, r) \/ Mentions(q, account[target[x]])
    BY <2>1 DEF Mentions
  <2>6. erased' \subseteq spent'
    BY <1>0, <2>1, <2>2, PutTyped DEF IInv, TypeOK
  <2> QED
    BY <1>0, <2>1, <2>2, <2>4, <2>5, <2>6, PutAndAnswer DEF IInv, TypeOK
<1>2. CASE target[x] \notin rows
  BY <1>0, <1>2, RefusedStep DEF table, Replies
<1> QED
  BY <1>1, <1>2

LEMMA AnonymizeStep ==
    ASSUME IInv, NEW x \in Requests, Anonymize(x)
    PROVE  IInv'
<1> USE DEF Anonymize
<1>0. /\ pc[x] = "anonymize" /\ op[x] = "anonymize" /\ x \in Ids
      /\ target[x] \in spent /\ target[x] \in Ids
  BY Disjoint DEF IInv, TypeOK, Known, Position
<1>1. CASE target[x] \in rows
  <2>1. /\ Placeholder(x) \in Row
        /\ Mentions(x, Placeholder(x))
        /\ \A q \in Requests : q # x => ~ Mentions(q, Placeholder(x))
    BY Disjoint DEF Placeholder, Row, Mentions
  <2>2. /\ Put(target[x], Placeholder(x)) /\ Answer(x, "ok") /\ mails' = mails /\ op' = op
        /\ erased' = erased \union {target[x]}
    BY <1>1 DEF input
  <2>3. ASSUME NEW j \in erased', j \in rows'
        PROVE  \/ /\ ~ account'[j].active
                  /\ account'[j].name \in Requests
                  /\ account'[j].email \in Requests
               \/ j \in erased /\ j \in rows /\ account'[j] = account[j]
    <3>1. CASE j = target[x]
      BY <1>0, <2>1, <2>2, <3>1, PutTyped DEF IInv, Placeholder
    <3>2. CASE j # target[x]
      BY <1>0, <2>1, <2>2, <2>3, <3>2, PutTyped DEF IInv, TypeOK
    <3> QED
      BY <3>1, <3>2
  <2>4. ErasedStaysErased'
    BY <2>2, <2>3, ErasedKept
  <2>5. erased' \subseteq spent'
    BY <1>0, <2>1, <2>2, PutTyped DEF IInv, TypeOK
  <2> QED
    BY <1>0, <2>1, <2>2, <2>4, <2>5, PutAndAnswer DEF IInv, TypeOK
<1>2. CASE target[x] \notin rows
  BY <1>0, <1>2, RefusedStep DEF Replies
<1> QED
  BY <1>1, <1>2

LEMMA HardDeleteStep ==
    ASSUME IInv, NEW x \in Requests, HardDelete(x)
    PROVE  IInv'
<1> USE DEF HardDelete
<1>0. pc[x] = "delete" /\ op[x] = "delete" /\ target[x] \in spent
  BY DEF IInv, Known, Position
<1>1. TypeOK'
  BY <1>0 DEF IInv, TypeOK, Answer, Goto, Replies, input
<1>2. /\ pc'[x] = "done"
      /\ \A q \in Requests : q # x => pc'[q] = pc[q] /\ reply'[q] = reply[q]
  BY DEF IInv, TypeOK, Answer, Goto
<1>3. ASSUME NEW q \in Requests PROVE Known(q)'
  <2>1. Fresh(q)'
    BY <1>2, FreshStays DEF IInv, Known
  <2>2. CASE q = x
    <3>1. Position(x)' /\ Progress(x)' /\ Settled(x)'
      BY <1>0, <1>2 DEF Position, Progress, Settled, Early, input
    <3> QED
      BY <2>1, <2>2, <3>1 DEF Known
  <2>3. CASE q # x
    <3>1. Position(q)' /\ Progress(q)' /\ Settled(q)'
      BY <1>2, <2>3, OthersStay DEF IInv, Known, input
    <3> QED
      BY <2>1, <3>1 DEF Known
  <2> QED
    BY <2>2, <2>3
<1>4. ErasedStaysErased'
  <2>1. \A j \in erased' : j \in rows' => j \in erased /\ j \in rows /\ account'[j] = account[j]
    OBVIOUS
  <2> QED
    BY <2>1, ErasedKept DEF input
<1> QED
  BY <1>1, <1>3, <1>4 DEF IInv, OutdatedDiffer

LEMMA GetDemoStep ==
    ASSUME IInv, NEW x \in Requests, GetDemo(x)
    PROVE  IInv'
<1> USE DEF GetDemo
<1>0. /\ pc[x] = "seed" /\ op[x] = "seed" /\ target[x] = None /\ x \notin spent /\ x \in Ids
      /\ reply[x] = "none" /\ UNCHANGED <<mails, welcomed, input, erased>>
  BY Disjoint DEF IInv, Known, Position, Progress
<1>1. CASE Named(DemoName) = {}
  <2>1. ErasedStaysErased'
    BY <1>0, <1>1, InsertKeeps DEF IInv, TypeOK, input
  <2>2. erased' \subseteq spent' /\ target' \in [Requests -> Ids \union {None}]
    BY <1>0, <1>1, RegisteredTyped, PutTyped DEF IInv, TypeOK
  <2>3. \A q \in Requests : q # x => target'[q] = target[q]
    BY <1>1 DEF IInv, TypeOK
  <2> QED
    BY <1>0, <1>1, <2>1, <2>2, <2>3, RegisteredTyped, PutAndAnswer
<1>2. ASSUME NEW i \in Named(DemoName),
             target' = [target EXCEPT ![x] = i], seen' = [seen EXCEPT ![x] = account[i]],
             Goto(x, "rewrite"), UNCHANGED <<rows, account, spent, outdated, reply>>
      PROVE  IInv'
  <2>0. i \in spent /\ i \in Ids
    BY DEF IInv, TypeOK, Named
  <2>a. UNCHANGED <<table, mails, welcomed, input>>
    BY <1>0, <1>2 DEF table
  <2>1. TypeOK'
    BY <1>0, <1>2, <2>0 DEF IInv, TypeOK, Goto, input
  <2>2. \A q \in Requests : q # x => pc'[q] = pc[q] /\ reply'[q] = reply[q] /\ target'[q] = target[q]
    BY <1>2 DEF IInv, TypeOK, Goto
  <2>3. Position(x)' /\ Progress(x)' /\ Settled(x)'
    BY <1>0, <1>2, <2>0 DEF IInv, TypeOK, Goto, Position, Progress, Settled, Early, input
  <2>4. \A r \in Requests : seen'[r] = seen[r] \/ \E j \in Ids : seen'[r] = account[j]
    BY <1>2, <2>0 DEF IInv, TypeOK
  <2> QED
    BY <1>0, <2>a, <2>1, <2>2, <2>3, <2>4, ReadStep
<1> QED
  BY <1>1, <1>2

\* What the seeding rewrites is an account that it has named as its target.
LEMMA RewriteDemoStep ==
    ASSUME IInv, NEW x \in Requests, RewriteDemo(x)
    PROVE  IInv'
<1> USE DEF RewriteDemo
<1>0. /\ pc[x] = "rewrite" /\ op[x] = "seed" /\ target[x] \in spent /\ target[x] \in Ids
      /\ x \in Ids /\ DemoEmail \in Emails
  BY Disjoint DEF IInv, TypeOK, Known, Position
<1>1. CASE NameFree(seen[x].name, target[x])
  <2> DEFINE r == [seen[x] EXCEPT !.email = DemoEmail, !.password = x]
  <2>1. r \in Row /\ r.password = x /\ r.email = DemoEmail
    BY <1>0 DEF IInv, TypeOK, Row
  <2>2. Put(target[x], r) /\ Answer(x, "ok") /\ mails' = mails /\ op' = op /\ erased' = erased
        /\ target' = target
    BY <1>1 DEF input
  <2> HIDE DEF r
  <2>3. ASSUME NEW j \in erased', j \in rows'
        PROVE  Reseeded(j)' \/ (j \in erased /\ j \in rows /\ account'[j] = account[j])
    <3>1. CASE j = target[x]
      BY <1>0, <2>2, <3>1 DEF Reseeded
    <3>2. CASE j # target[x]
      BY <1>0, <2>1, <2>2, <2>3, <3>2, PutTyped DEF IInv, TypeOK
    <3> QED
      BY <3>1, <3>2
  <2>4. ErasedStaysErased'
    BY <2>2, <2>3, ErasedKept
  <2>5. Mentions(x, r) /\ \A q \in Requests : q # x => ~ Mentions(q, r)
    BY <1>0, <2>1, Disjoint DEF Mentions
  <2>6. erased' \subseteq spent'
    BY <1>0, <2>1, <2>2, PutTyped DEF IInv, TypeOK
  <2> QED
    BY <1>0, <2>1, <2>2, <2>4, <2>5, <2>6, PutAndAnswer DEF IInv, TypeOK
<1>2. CASE ~ NameFree(seen[x].name, target[x])
  BY <1>0, <1>2, RefusedStep DEF table, Replies
<1> QED
  BY <1>1, <1>2

-----------------------------------------------------------------------------
LEMMA NextIInv == IInv /\ [Next]_vars => IInv'
<1> SUFFICES ASSUME IInv, [Next]_vars PROVE IInv'
  OBVIOUS
<1>1. ASSUME NEW x \in Requests, Arrive(x) PROVE IInv'
  BY <1>1, ArriveStep
<1>2. ASSUME NEW x \in Requests, Handle(x) PROVE IInv'
  BY <1>2, CheckStep, InsertStep, WelcomeStep, FindAccountStep, SendLinkStep, CheckLinkStep,
     SavePasswordStep, AnonymizeStep, HardDeleteStep, GetDemoStep, RewriteDemoStep DEF Handle
<1>3. ASSUME NEW x \in Requests, Crash(x) PROVE IInv'
  BY <1>3, CheckStep
<1>4. CASE UNCHANGED vars
  <2>1. TypeOK' /\ OutdatedDiffer' /\ welcomed' \subseteq spent'
    BY <1>4 DEF IInv, TypeOK, OutdatedDiffer, vars, table, input
  <2>2. ErasedStaysErased'
    BY <1>4 DEF IInv, ErasedStaysErased, Reseeded, vars, table, input
  <2>3. \A q \in Requests : Known(q)'
    BY <1>4 DEF IInv, Known, Position, Progress, Settled, Fresh, vars, table, input
  <2> QED
    BY <2>1, <2>2, <2>3 DEF IInv
<1> QED
  BY <1>1, <1>2, <1>3, <1>4 DEF Next

\* Every reachable state satisfies the inductive invariant.
THEOREM Invariance == Spec => []IInv
  BY InitIInv, NextIInv, PTL DEF Spec

\* Accounts, requests and links keep their types.
THEOREM TypeCorrect == Spec => []TypeOK
<1>1. IInv => TypeOK
  BY DEF IInv
<1> QED
  BY <1>1, Invariance, PTL

\* The erasure of an account lasts, whatever resets, registrations and other
\* erasures are in flight; only the seeding of the demo administrator ends it.
THEOREM ErasureLasts == Spec => []ErasedStaysErased
<1>1. IInv => ErasedStaysErased
  BY DEF IInv
<1> QED
  BY <1>1, Invariance, PTL

\* Registrations leave what they were answered with.
THEOREM Registrations == Spec => []RegistrationsSettle
<1>1. IInv => RegistrationsSettle
  BY DEF IInv, Known, Settled, RegistrationsSettle
<1> QED
  BY <1>1, Invariance, PTL

\* No link outlives the password or the address it was made for.
THEOREM LinksExpire == Spec => OutdatedLinksRefused
<1>1. IInv /\ [Next]_vars =>
        [\A q \in Requests :
           (pc[q] = "confirm" /\ pc'[q] = "save") => token[q] \notin outdated]_vars
  <2> SUFFICES ASSUME IInv, [Next]_vars, NEW q \in Requests, pc[q] = "confirm", pc'[q] = "save"
               PROVE  token[q] \notin outdated
    OBVIOUS
  <2>1. PICK x \in Requests : Arrive(x) \/ Handle(x) \/ Crash(x)
    BY DEF Next, vars
  <2>2. x = q
    BY <2>1 DEF IInv, TypeOK, Arrive, Handle, Crash, Register, Ask, Confirm, Seed, EraseUser,
        Receive, CheckName, CheckEmail, Clean, Insert, Welcome, FindAccount, SendLink,
        CheckLink, SavePassword, Anonymize, HardDelete, GetDemo, RewriteDemo, Answer, Goto
  <2>3. CheckLink(q)
    BY <2>1, <2>2 DEF IInv, TypeOK, Arrive, Handle, Crash, Register, Ask, Confirm, Seed, EraseUser,
        Receive, CheckName, CheckEmail, Clean, Insert, Welcome, FindAccount, SendLink,
        SavePassword, Anonymize, HardDelete, GetDemo, RewriteDemo, Answer, Goto
  <2>4. token[q] = TokenOf(target[q], account[target[q]])
    BY <2>3 DEF CheckLink, Matches, Answer, Goto, IInv, TypeOK
  <2>5. token[q].id = target[q]
    BY <2>4 DEF TokenOf
  <2> QED
    BY <2>4, <2>5 DEF IInv, OutdatedDiffer
<1> QED
  BY <1>1, Invariance, PTL DEF Spec, OutdatedLinksRefused

-----------------------------------------------------------------------------
(* Records that are deleted softly *)

\* An instance's columns agree unless they came from the form; one that the form
\* may fill, or that was read as active, says so.
Agrees(i) ==
    /\ i.columns.deleted_at => i.columns.is_deleted
    /\ ~ i.form => /\ i.columns.is_deleted => i.columns.deleted_at
                   /\ i.columns.deleted_by # Nothing => i.columns.is_deleted
    /\ i.objects => i.active /\ ~ i.columns.deleted_at
    /\ ~ i.active => i.columns.is_deleted

\* Types, the agreement of the columns, and what every instance still says.
RInv ==
    /\ RecordsOK
    /\ ColumnsAgree
    /\ \A q \in Handlers : self[q] # Nothing => Agrees(self[q])

LEMMA InitR == RecordsInit => RInv
  BY DEF RecordsInit, RInv, RecordsOK, ColumnsAgree, Rows

LEMMA InstanceTyped ==
    ASSUME RecordsOK, NEW q \in Handlers, self[q] # Nothing
    PROVE  /\ self[q] \in Instances /\ self[q].pk \in Records
           /\ self[q].columns \in Columns
  BY DEF RecordsOK, Instances

LEMMA RowTyped ==
    ASSUME RecordsOK, NEW r \in Rows
    PROVE  /\ r \in Records /\ records[r] \in Columns /\ records[r] # Nothing
           /\ records[r].deleted_by \in users \union {Nothing}
  BY DEF RecordsOK, Rows

LEMMA ColumnsNotNone == ASSUME NEW c \in Columns PROVE c # Nothing
  BY SoftDeleteAssumption

LEMMA InstanceNotNone == ASSUME NEW c \in Instances PROVE c # Nothing
  BY SoftDeleteAssumption

\* What a row may say: columns of their types, a deleter who exists, and a story
\* that agrees unless it came from the form.
Fine(c, us, form) ==
    /\ c \in Columns
    /\ c.deleted_by \in us \union {Nothing}
    /\ c.deleted_at => c.is_deleted
    /\ ~ form => /\ c.is_deleted => c.deleted_at
                 /\ c.deleted_by # Nothing => c.is_deleted

LEMMA RowsFine ==
    ASSUME RInv, NEW r \in Records, records[r] # Nothing
    PROVE  Fine(records[r], users, r \in edited)
  BY DEF RInv, RecordsOK, ColumnsAgree, Rows, Fine

LEMMA InstanceFine ==
    ASSUME RInv, NEW q \in Handlers, self[q] # Nothing
    PROVE  /\ self[q] \in Instances
           /\ Agrees(self[q])
           /\ self[q].columns.deleted_by \in users \union {Nothing} =>
                 Fine(self[q].columns, users, self[q].form)
  BY DEF RInv, RecordsOK, Instances, Fine, Agrees

\* The invariant is what the rows and the instances say.
LEMMA Assembled ==
    ASSUME users' \subseteq Users,
           DOMAIN records' = Records, records' = [r \in Records |-> records'[r]],
           \A r \in Records : records'[r] # Nothing => Fine(records'[r], users', r \in edited'),
           edited' \subseteq {r \in Records : records'[r] # Nothing},
           self' \in [Handlers -> Instances \union {Nothing}],
           \A q \in Handlers : self'[q] # Nothing => Agrees(self'[q])
    PROVE  RInv'
<1>1. records' \in [Records -> Columns \union {Nothing}]
  BY DEF Fine
<1>2. Rows' = {r \in Records : records'[r] # Nothing}
  BY DEF Rows
<1>3. RecordsOK'
  BY <1>1, <1>2 DEF RecordsOK, Fine
<1>4. ColumnsAgree'
  BY <1>2 DEF ColumnsAgree, Fine
<1> QED
  BY <1>3, <1>4 DEF RInv

LEMMA CreateR == ASSUME RInv, NEW r \in Records, Create(r) PROVE RInv'
<1>1. Fine(Undeleted, users, FALSE)
  BY DEF Fine, Undeleted, Columns
<1>2. records' = [records EXCEPT ![r] = Undeleted] /\ UNCHANGED <<users, self, edited>>
  BY DEF Create
<1>3. \A x \in Records : records'[x] # Nothing => Fine(records'[x], users', x \in edited')
  <2> SUFFICES ASSUME NEW x \in Records, records'[x] # Nothing
               PROVE  Fine(records'[x], users', x \in edited')
    OBVIOUS
  <2>1. CASE x = r
    BY <1>1, <1>2, <2>1 DEF RInv, RecordsOK, Fine
  <2>2. CASE x # r
    BY <1>2, <2>2, RowsFine DEF RInv, RecordsOK
  <2> QED
    BY <2>1, <2>2
<1>4. edited' \subseteq {x \in Records : records'[x] # Nothing}
  BY <1>2 DEF RInv, RecordsOK, Rows, Create
<1> QED
  BY <1>2, <1>3, <1>4, Assembled DEF RInv, RecordsOK

LEMMA AddRecordR ==
    ASSUME RInv, NEW r \in Records, NEW d \in BOOLEAN, NEW u \in users \union {Nothing},
           AddRecord(r, d, u)
    PROVE  RInv'
<1> DEFINE c == [is_deleted |-> d, deleted_at |-> FALSE, deleted_by |-> u]
<1>1. Fine(c, users, TRUE)
  BY DEF Fine, Columns, RInv, RecordsOK
<1>2. records' = [records EXCEPT ![r] = c] /\ edited' = edited \union {r} /\ UNCHANGED <<users, self>>
  BY DEF AddRecord
<1> HIDE DEF c
<1>3. \A x \in Records : records'[x] # Nothing => Fine(records'[x], users', x \in edited')
  <2> SUFFICES ASSUME NEW x \in Records, records'[x] # Nothing
               PROVE  Fine(records'[x], users', x \in edited')
    OBVIOUS
  <2>1. CASE x = r
    BY <1>1, <1>2, <2>1 DEF RInv, RecordsOK, Fine
  <2>2. CASE x # r
    BY <1>2, <2>2, RowsFine DEF RInv, RecordsOK
  <2> QED
    BY <2>1, <2>2
<1>4. c # Nothing
  BY <1>1, ColumnsNotNone DEF Fine
<1>5. edited' \subseteq {x \in Records : records'[x] # Nothing}
  BY <1>2, <1>4 DEF RInv, RecordsOK, Rows
<1> QED
  BY <1>2, <1>3, <1>5, Assembled DEF RInv, RecordsOK

\* An update of many rows, or the removal of them.
LEMMA DeleteQueryR == ASSUME RInv, NEW rs \in SUBSET Records, DeleteQuery(rs) PROVE RInv'
<1>1. UNCHANGED <<users, self>> /\ edited' = edited \ rs /\ rs \subseteq Rows
  BY DEF DeleteQuery, Active
<1>2. \A x \in Records :
        /\ x \in rs => records'[x] = [records[x] EXCEPT !.is_deleted = TRUE, !.deleted_at = TRUE]
        /\ x \notin rs => records'[x] = records[x]
  BY DEF DeleteQuery
<1>3. \A x \in Records : records'[x] # Nothing => Fine(records'[x], users', x \in edited')
  <2> SUFFICES ASSUME NEW x \in Records, records'[x] # Nothing
               PROVE  Fine(records'[x], users', x \in edited')
    OBVIOUS
  <2>1. CASE x \in rs
    <3>1. records[x] \in Columns /\ records[x].deleted_by \in users \union {Nothing}
      BY <1>1, <2>1, RowTyped DEF RInv
    <3> QED
      BY <1>1, <1>2, <2>1, <3>1 DEF Fine, Columns
  <2>2. CASE x \notin rs
    <3>1. records'[x] = records[x] /\ (x \in edited' <=> x \in edited)
      BY <1>1, <1>2, <2>2
    <3> QED
      BY <1>1, <3>1, RowsFine DEF Fine
  <2> QED
    BY <2>1, <2>2
<1>4. edited' \subseteq {x \in Records : records'[x] # Nothing}
  BY <1>1, <1>2 DEF RInv, RecordsOK, Rows
<1>5. records' = [x \in Records |-> records'[x]]
  BY DEF DeleteQuery
<1> QED
  BY <1>1, <1>3, <1>4, <1>5, Assembled DEF RInv, RecordsOK

LEMMA PurgeQueryR == ASSUME RInv, NEW rs \in SUBSET Records, PurgeQuery(rs) PROVE RInv'
<1>1. UNCHANGED <<users, self>> /\ edited' = edited \ rs
  BY DEF PurgeQuery
<1>2. \A x \in Records : records'[x] = IF x \in rs THEN Nothing ELSE records[x]
  BY DEF PurgeQuery
<1>3. \A x \in Records : records'[x] # Nothing => Fine(records'[x], users', x \in edited')
  BY <1>1, <1>2, RowsFine
<1>4. edited' \subseteq {x \in Records : records'[x] # Nothing}
  BY <1>1, <1>2 DEF RInv, RecordsOK, Rows
<1>5. records' = [x \in Records |-> records'[x]]
  BY DEF PurgeQuery
<1> QED
  BY <1>1, <1>3, <1>4, <1>5, Assembled DEF RInv, RecordsOK

LEMMA ReadR ==
    ASSUME RInv, NEW q \in Handlers, NEW r \in Rows, NEW o \in BOOLEAN, Read(q, r, o),
           o => r \in Active
    PROVE  RInv'
<1> DEFINE i == [pk |-> r, columns |-> records[r], objects |-> o,
                 active |-> r \in Active, form |-> r \in edited]
<1>1. self' = [self EXCEPT ![q] = i] /\ UNCHANGED <<users, records, edited>>
  BY DEF Read
<1>2. r \in Records /\ records[r] # Nothing /\ Fine(records[r], users, r \in edited)
  BY RowsFine DEF Rows
<1>3. i \in Instances
  BY <1>2 DEF Instances, Fine
<1>4. Agrees(i)
  BY <1>2 DEF Agrees, Fine, Active, Columns
<1>5. self' \in [Handlers -> Instances \union {Nothing}]
  BY <1>1, <1>3 DEF RInv, RecordsOK
<1>6. ASSUME NEW p \in Handlers, self'[p] # Nothing PROVE Agrees(self'[p])
  <2>1. CASE p = q
    <3>1. self'[p] = i
      BY <1>1, <2>1 DEF RInv, RecordsOK
    <3> QED
      BY <1>4, <3>1
  <2>2. CASE p # q
    <3>1. self'[p] = self[p]
      BY <1>1, <2>2 DEF RInv, RecordsOK
    <3> QED
      BY <1>6, <3>1 DEF RInv
  <2> QED
    BY <2>1, <2>2
<1>7. \A x \in Records : records'[x] # Nothing => Fine(records'[x], users', x \in edited')
  BY <1>1, RowsFine
<1> QED
  BY <1>1, <1>5, <1>6, <1>7, Assembled DEF RInv, RecordsOK, Rows

\* A write of one row by a request that ends with it.
LEMMA WriteR ==
    ASSUME RInv, NEW q \in Handlers, self[q] # Nothing, NEW c, NEW form \in BOOLEAN,
           Fine(c, users, form), UNCHANGED users,
           self' = [self EXCEPT ![q] = Nothing],
           records' = [records EXCEPT ![self[q].pk] = c],
           edited' = IF form THEN edited \union {self[q].pk} ELSE edited \ {self[q].pk}
    PROVE  RInv'
<1>1. self[q].pk \in Records
  BY InstanceTyped DEF RInv
<1>2. c # Nothing
  BY ColumnsNotNone DEF Fine
<1>3. \A x \in Records : records'[x] # Nothing => Fine(records'[x], users', x \in edited')
  <2> SUFFICES ASSUME NEW x \in Records, records'[x] # Nothing
               PROVE  Fine(records'[x], users', x \in edited')
    OBVIOUS
  <2>1. CASE x = self[q].pk
    <3>1. records'[x] = c /\ (x \in edited' <=> form)
      BY <2>1 DEF RInv, RecordsOK
    <3> QED
      BY <3>1 DEF Fine
  <2>2. CASE x # self[q].pk
    <3>1. records'[x] = records[x] /\ (x \in edited' <=> x \in edited)
      BY <2>2 DEF RInv, RecordsOK
    <3> QED
      BY <3>1, RowsFine DEF Fine
  <2> QED
    BY <2>1, <2>2
<1>4. edited' \subseteq {x \in Records : records'[x] # Nothing}
  BY <1>1, <1>2 DEF RInv, RecordsOK, Rows
<1>5. self' \in [Handlers -> Instances \union {Nothing}]
      /\ \A p \in Handlers : self'[p] # Nothing => Agrees(self'[p])
  BY DEF RInv, RecordsOK
<1> QED
  BY <1>3, <1>4, <1>5, Assembled DEF RInv, RecordsOK

\* A request that ends without a write.
LEMMA EndR ==
    ASSUME RInv, NEW q \in Handlers, self' = [self EXCEPT ![q] = Nothing],
           UNCHANGED <<users, records, edited>>
    PROVE  RInv'
<1>1. self' \in [Handlers -> Instances \union {Nothing}]
      /\ \A p \in Handlers : self'[p] # Nothing => Agrees(self'[p])
  BY DEF RInv, RecordsOK
<1> QED
  BY <1>1 DEF RInv, RecordsOK, ColumnsAgree, Rows

LEMMA StoreR ==
    ASSUME RInv, NEW q \in Handlers, self[q] # Nothing, NEW c, Store(q, c),
           c.deleted_by \in users \union {Nothing} => Fine(c, users, FALSE)
    PROVE  RInv'
<1>1. CASE self' = [self EXCEPT ![q] = Nothing] /\ UNCHANGED <<users, records, edited>>
  BY <1>1, EndR
<1>2. CASE /\ c.deleted_by \in users \union {Nothing} /\ UNCHANGED users
           /\ self' = [self EXCEPT ![q] = Nothing]
           /\ records' = [records EXCEPT ![self[q].pk] = c]
           /\ edited' = edited \ {self[q].pk}
  BY <1>2, WriteR
<1> QED
  BY <1>1, <1>2 DEF Store

LEMMA DeleteR ==
    ASSUME RInv, NEW q \in Handlers, NEW u \in users \union {Nothing}, Delete(q, u)
    PROVE  RInv'
<1> DEFINE by == IF u = Nothing THEN self[q].columns.deleted_by ELSE u
           c == [is_deleted |-> TRUE, deleted_at |-> TRUE, deleted_by |-> by]
<1>1. self[q] # Nothing /\ Store(q, c)
  BY DEF Delete
<1>2. c.deleted_by = by /\ users \subseteq Users
  BY DEF RInv, RecordsOK
<1>3. by \in users \union {Nothing} => Fine(c, users, FALSE)
  BY <1>2 DEF Fine, Columns
<1> HIDE DEF c
<1> QED
  BY <1>1, <1>2, <1>3, StoreR

LEMMA RestoreR == ASSUME RInv, NEW q \in Handlers, Restore(q) PROVE RInv'
<1>1. Fine(Undeleted, users, FALSE)
  BY DEF Fine, Undeleted, Columns
<1> QED
  BY <1>1, StoreR DEF Restore

LEMMA HardDeleteR == ASSUME RInv, NEW q \in Handlers, HardDeleteRecord(q) PROVE RInv'
<1>1. self[q] # Nothing /\ self[q].pk \in Records
  BY InstanceTyped DEF RInv, HardDeleteRecord
<1>2. \A x \in Records : records'[x] # Nothing => Fine(records'[x], users', x \in edited')
  <2> SUFFICES ASSUME NEW x \in Records, records'[x] # Nothing
               PROVE  Fine(records'[x], users', x \in edited')
    OBVIOUS
  <2>1. records'[x] = records[x] /\ (x \in edited' <=> x \in edited) /\ users' = users
    BY DEF RInv, RecordsOK, HardDeleteRecord
  <2> QED
    BY <2>1, RowsFine DEF Fine
<1>3. edited' \subseteq {x \in Records : records'[x] # Nothing}
  BY <1>1 DEF RInv, RecordsOK, Rows, HardDeleteRecord
<1>4. self' \in [Handlers -> Instances \union {Nothing}]
      /\ \A p \in Handlers : self'[p] # Nothing => Agrees(self'[p])
  BY DEF RInv, RecordsOK, HardDeleteRecord
<1> QED
  BY <1>2, <1>3, <1>4, Assembled DEF RInv, RecordsOK, HardDeleteRecord

LEMMA FillFormR ==
    ASSUME RInv, NEW q \in Handlers, NEW d \in BOOLEAN, NEW u \in users \union {Nothing},
           FillForm(q, d, u)
    PROVE  RInv'
<1>1. self[q] # Nothing /\ self[q].objects
  BY DEF FillForm
<1>2. self[q] \in Instances /\ Agrees(self[q])
  BY <1>1, InstanceFine
<1> DEFINE i == [self[q] EXCEPT !.form = TRUE, !.columns.is_deleted = d, !.columns.deleted_by = u]
<1>3. i \in Instances /\ Agrees(i)
  BY <1>1, <1>2 DEF Instances, Columns, Agrees, RInv, RecordsOK
<1>4. self' = [self EXCEPT ![q] = i] /\ UNCHANGED <<users, records, edited>>
  BY DEF FillForm
<1> HIDE DEF i
<1>5. self' \in [Handlers -> Instances \union {Nothing}]
      /\ \A p \in Handlers : self'[p] # Nothing => Agrees(self'[p])
  BY <1>3, <1>4 DEF RInv, RecordsOK
<1> QED
  BY <1>4, <1>5 DEF RInv, RecordsOK, ColumnsAgree, Rows

LEMMA SaveR == ASSUME RInv, NEW q \in Handlers, Save(q) PROVE RInv'
<1>1. self[q] # Nothing
  BY DEF Save
<1>2. CASE self[q].columns.deleted_by \in users \union {Nothing}
  <2>1. Fine(self[q].columns, users, self[q].form) /\ self[q].form \in BOOLEAN
    BY <1>1, <1>2, InstanceFine DEF Instances
  <2> QED
    BY <1>1, <1>2, <2>1, WriteR DEF Save
<1>3. CASE self[q].columns.deleted_by \notin users \union {Nothing}
  BY <1>3, EndR DEF Save
<1> QED
  BY <1>2, <1>3

LEMMA DeleteUserR == ASSUME RInv, NEW u \in Users, DeleteUser(u) PROVE RInv'
<1>1. users' = users \ {u} /\ UNCHANGED <<self, edited>>
  BY DEF DeleteUser
<1>2. \A x \in Records :
        /\ x \in Rows /\ records[x].deleted_by = u => records'[x] = [records[x] EXCEPT !.deleted_by = Nothing]
        /\ ~ (x \in Rows /\ records[x].deleted_by = u) => records'[x] = records[x]
  BY DEF DeleteUser
<1>3. \A x \in Records : records'[x] # Nothing => Fine(records'[x], users', x \in edited')
  <2> SUFFICES ASSUME NEW x \in Records, records'[x] # Nothing
               PROVE  Fine(records'[x], users', x \in edited')
    OBVIOUS
  <2>1. records[x] # Nothing /\ Fine(records[x], users, x \in edited)
    BY <1>2, RowsFine DEF Rows
  <2>2. CASE records[x].deleted_by = u
    BY <1>1, <1>2, <2>1, <2>2 DEF Fine, Columns, Rows
  <2>3. CASE records[x].deleted_by # u
    BY <1>1, <1>2, <2>1, <2>3 DEF Fine
  <2> QED
    BY <2>2, <2>3
<1>4. edited' \subseteq {x \in Records : records'[x] # Nothing}
  <2> SUFFICES ASSUME NEW x \in edited PROVE x \in Records /\ records'[x] # Nothing
    BY <1>1
  <2>1. x \in Rows /\ x \in Records /\ records[x] \in Columns /\ records[x] # Nothing
    BY RowTyped DEF RInv, RecordsOK
  <2>2. [records[x] EXCEPT !.deleted_by = Nothing] \in Columns
    BY <2>1 DEF Columns
  <2> QED
    BY <1>2, <2>1, <2>2, ColumnsNotNone
<1>5. records' = [x \in Records |-> records'[x]]
  BY DEF DeleteUser
<1> QED
  BY <1>1, <1>3, <1>4, <1>5, Assembled DEF RInv, RecordsOK

LEMMA NextR == RInv /\ [RecordsNext]_recordVars => RInv'
<1> SUFFICES ASSUME RInv, [RecordsNext]_recordVars PROVE RInv'
  OBVIOUS
<1>1. CASE \E r \in Records : Make(r)
  BY <1>1, CreateR, AddRecordR DEF Make
<1>2. CASE \E rs \in SUBSET Records : DeleteQuery(rs) \/ PurgeQuery(rs)
  BY <1>2, DeleteQueryR, PurgeQueryR
<1>3. ASSUME NEW q \in Handlers, Get(q) \/ GetAll(q) PROVE RInv'
  BY <1>3, ReadR DEF Get, GetAll, Active
<1>4. ASSUME NEW q \in Handlers, Restore(q) \/ HardDeleteRecord(q) \/ Save(q) PROVE RInv'
  BY <1>4, RestoreR, HardDeleteR, SaveR
<1>5. ASSUME NEW q \in Handlers, \E u \in users \union {Nothing} : Delete(q, u) PROVE RInv'
  BY <1>5, DeleteR
<1>6. ASSUME NEW q \in Handlers,
             \E d \in BOOLEAN, u \in users \union {Nothing} : FillForm(q, d, u)
      PROVE RInv'
  BY <1>6, FillFormR
<1>7. CASE \E u \in Users : DeleteUser(u)
  BY <1>7, DeleteUserR
<1>8. CASE UNCHANGED recordVars
  BY <1>8 DEF RInv, RecordsOK, ColumnsAgree, Rows, recordVars
<1> QED
  BY <1>1, <1>2, <1>3, <1>4, <1>5, <1>6, <1>7, <1>8 DEF RecordsNext

\* Rows and instances keep their story in every behaviour.
THEOREM RecordsInvariance == RecordsSpec => []RInv
  BY InitR, NextR, PTL DEF RecordsSpec

\* Rows have their types, and the deleter of a record is an account that exists.
THEOREM RecordsTyped == RecordsSpec => []RecordsOK
<1>1. RInv => RecordsOK
  BY DEF RInv
<1> QED
  BY <1>1, RecordsInvariance, PTL

\* The three columns of a row agree, whatever old instances requests write back.
THEOREM DeletionStory == RecordsSpec => []ColumnsAgree
<1>1. RInv => ColumnsAgree
  BY DEF RInv
<1> QED
  BY <1>1, RecordsInvariance, PTL

\* An instance that was read deleted, and cannot be filled in, stays so.
LEMMA SaveRevives ==
    ASSUME RInv, NEW q \in Handlers, Save(q), NEW r \in Records,
           r \notin Active, r \in Active'
    PROVE  self[q] # Nothing /\ self[q].pk = r /\ self[q].active
<1>1. self[q] # Nothing /\ self[q].pk \in Records /\ Agrees(self[q])
  BY InstanceTyped DEF RInv, Save
<1>2. records' = [records EXCEPT ![self[q].pk] = self[q].columns]
  BY DEF Save, Active, Rows
<1>3. self[q].pk = r
  BY <1>1, <1>2 DEF Active, Rows, RInv, RecordsOK
<1>4. records'[r] = self[q].columns
  BY <1>1, <1>2, <1>3 DEF RInv, RecordsOK
<1>5. ~ self[q].columns.is_deleted
  BY <1>4 DEF Active
<1> QED
  BY <1>1, <1>3, <1>5 DEF Agrees

\* Nothing but a restoration, a save or a creation makes a row or an active one.
LEMMA OthersRevive ==
    ASSUME RInv, NEW r \in Records, [RecordsNext]_recordVars, r \notin Active, r \in Active'
    PROVE  Make(r) \/ \E q \in Handlers : (Restore(q) /\ self[q] # Nothing /\ self[q].pk = r) \/ Save(q)
<1>1. ASSUME NEW x \in Records, Make(x) PROVE Make(r)
  BY <1>1 DEF Make, Create, AddRecord, Active, Rows, RInv, RecordsOK
<1>2. CASE \E rs \in SUBSET Records : DeleteQuery(rs) \/ PurgeQuery(rs)
  <2>1. PICK rs \in SUBSET Records : DeleteQuery(rs) \/ PurgeQuery(rs)
    BY <1>2
  <2>2. CASE r \in rs /\ DeleteQuery(rs)
    BY <2>2 DEF DeleteQuery
  <2>3. CASE r \in rs /\ PurgeQuery(rs)
    BY <2>3 DEF PurgeQuery, Active, Rows
  <2>4. CASE r \notin rs
    BY <2>1, <2>4 DEF DeleteQuery, PurgeQuery, Active, Rows
  <2> QED
    BY <2>1, <2>2, <2>3, <2>4
<1>3. ASSUME NEW q \in Handlers, Get(q) \/ GetAll(q) PROVE FALSE
  BY <1>3 DEF Get, GetAll, Read, Active, Rows
<1>4. ASSUME NEW q \in Handlers, Restore(q) PROVE self[q] # Nothing /\ self[q].pk = r
  BY <1>4 DEF Restore, Store, Active, Rows, RInv, RecordsOK
<1>5. ASSUME NEW q \in Handlers, HardDeleteRecord(q) PROVE FALSE
  BY <1>5 DEF HardDeleteRecord, Active, Rows, RInv, RecordsOK
<1>6. ASSUME NEW q \in Handlers, NEW u \in users \union {Nothing}, Delete(q, u) PROVE FALSE
  <2>1. CASE records' = records
    BY <2>1 DEF Active, Rows
  <2>2. CASE r # self[q].pk
    BY <1>6, <2>2 DEF Delete, Store, Active, Rows, RInv, RecordsOK
  <2>3. CASE r = self[q].pk /\ records' # records
    <3>1. records'[r].is_deleted = TRUE
      BY <1>6, <2>3 DEF Delete, Store, RInv, RecordsOK
    <3> QED
      BY <3>1 DEF Active
  <2> QED
    BY <2>1, <2>2, <2>3
<1>7. ASSUME NEW q \in Handlers, NEW d \in BOOLEAN, NEW u \in users \union {Nothing},
             FillForm(q, d, u)
      PROVE FALSE
  BY <1>7 DEF FillForm, Active, Rows
<1>8. ASSUME NEW u \in Users, DeleteUser(u) PROVE FALSE
  <2>1. r \in Rows /\ records'[r].is_deleted = records[r].is_deleted
    <3>1. r \in Rows
      BY <1>8 DEF DeleteUser, Active, Rows
    <3>2. records[r] \in Columns
      BY <3>1, RowTyped DEF RInv
    <3> QED
      BY <1>8, <3>1, <3>2 DEF DeleteUser, Columns
  <2> QED
    BY <2>1 DEF Active
<1>9. CASE UNCHANGED recordVars
  BY <1>9 DEF recordVars, Active, Rows
<1> QED
  BY <1>1, <1>2, <1>3, <1>4, <1>5, <1>6, <1>7, <1>8, <1>9 DEF RecordsNext

\* Nothing but a creation and a save inserts a row.
LEMMA OthersInsert ==
    ASSUME RInv, NEW r \in Records, [RecordsNext]_recordVars, r \notin Rows, r \in Rows'
    PROVE  Make(r) \/ \E q \in Handlers : Save(q) /\ self[q] # Nothing /\ self[q].pk = r
<1>1. ASSUME NEW x \in Records, Make(x) PROVE Make(r)
  BY <1>1 DEF Make, Create, AddRecord, Rows, RInv, RecordsOK
<1>2. CASE \E rs \in SUBSET Records : DeleteQuery(rs) \/ PurgeQuery(rs)
  BY <1>2 DEF DeleteQuery, PurgeQuery, Active, Rows
<1>3. ASSUME NEW q \in Handlers, Get(q) \/ GetAll(q) PROVE FALSE
  BY <1>3 DEF Get, GetAll, Read, Rows
<1>4. ASSUME NEW q \in Handlers, NEW c, Store(q, c) PROVE FALSE
  BY <1>4 DEF Store, Rows, RInv, RecordsOK
<1>5. ASSUME NEW q \in Handlers, HardDeleteRecord(q) PROVE FALSE
  BY <1>5 DEF HardDeleteRecord, Rows, RInv, RecordsOK
<1>6. ASSUME NEW q \in Handlers, Save(q) PROVE self[q] # Nothing /\ self[q].pk = r
  BY <1>6 DEF Save, Rows, RInv, RecordsOK
<1>7. ASSUME NEW q \in Handlers, NEW d \in BOOLEAN, NEW u \in users \union {Nothing},
             FillForm(q, d, u)
      PROVE FALSE
  BY <1>7 DEF FillForm, Rows
<1>8. ASSUME NEW u \in Users, DeleteUser(u) PROVE FALSE
  BY <1>8 DEF DeleteUser, Rows
<1>9. CASE UNCHANGED recordVars
  BY <1>9 DEF recordVars, Rows
<1> QED
  BY <1>1, <1>2, <1>3, <1>4, <1>5, <1>6, <1>7, <1>8, <1>9 DEF RecordsNext, Delete, Restore

\* A deletion lasts until a restore, or a save by somebody who read the active row.
THEOREM Deletions == RecordsSpec => DeletionsLast
<1>1. RInv /\ [RecordsNext]_recordVars =>
        [\A r \in Records :
            /\ r \in Rows \ Active /\ r \in Active' =>
                   \E q \in Handlers :
                       self[q] # Nothing /\ self[q].pk = r /\ (Restore(q) \/ (Save(q) /\ self[q].active))
            /\ r \notin Rows /\ r \in Rows' /\ ~ Make(r) =>
                   \E q \in Handlers :
                       /\ self[q] # Nothing /\ self[q].pk = r /\ Save(q)
                       /\ r \in Active' => self[q].active]_recordVars
  <2> SUFFICES ASSUME RInv, [RecordsNext]_recordVars, NEW r \in Records
               PROVE  /\ r \in Rows \ Active /\ r \in Active' =>
                          \E q \in Handlers :
                              self[q] # Nothing /\ self[q].pk = r /\ (Restore(q) \/ (Save(q) /\ self[q].active))
                      /\ r \notin Rows /\ r \in Rows' /\ ~ Make(r) =>
                          \E q \in Handlers :
                              /\ self[q] # Nothing /\ self[q].pk = r /\ Save(q)
                              /\ r \in Active' => self[q].active
    OBVIOUS
  <2>1. ASSUME r \in Rows \ Active, r \in Active'
        PROVE  \E q \in Handlers :
                   self[q] # Nothing /\ self[q].pk = r /\ (Restore(q) \/ (Save(q) /\ self[q].active))
    <3>1. ~ Make(r)
      BY <2>1 DEF Make, Create, AddRecord
    <3>2. PICK q \in Handlers : (Restore(q) /\ self[q] # Nothing /\ self[q].pk = r) \/ Save(q)
      BY <2>1, <3>1, OthersRevive
    <3>3. CASE Save(q)
      BY <2>1, <3>3, SaveRevives
    <3> QED
      BY <3>2, <3>3
  <2>2. ASSUME r \notin Rows, r \in Rows', ~ Make(r)
        PROVE  \E q \in Handlers :
                   /\ self[q] # Nothing /\ self[q].pk = r /\ Save(q)
                   /\ r \in Active' => self[q].active
    <3>1. PICK q \in Handlers : Save(q) /\ self[q] # Nothing /\ self[q].pk = r
      BY <2>2, OthersInsert
    <3>2. r \notin Active
      BY <2>2 DEF Active
    <3>3. r \in Active' => self[q].active
      BY <3>1, <3>2, SaveRevives
    <3> QED
      BY <3>1, <3>3
  <2> QED
    BY <2>1, <2>2
<1> QED
  BY <1>1, RecordsInvariance, PTL DEF RecordsSpec, DeletionsLast

=============================================================================
