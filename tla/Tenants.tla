------------------------------ MODULE Tenants -------------------------------
(***************************************************************************)
(* Tenants and what belongs to them: the handlers of                       *)
(* backend/internal/api/handlers/tenant.go and template.go, the            *)
(* authentication of middleware/auth.go and the checks that Send, Schedule *)
(* and Batch make before they persist, over the tables, foreign keys and   *)
(* transactions of repository/postgres and migrations/                     *)
(* 001_initial_schema.up.sql.                                              *)
(*                                                                         *)
(* A request runs a list of statements in one transaction.  Postgres is    *)
(* modelled by its row locks: a statement waits for the locks of other     *)
(* transactions, a foreign key shares the row it refers to, and one        *)
(* transaction of a cycle of waiting ones is aborted.                      *)
(***************************************************************************)
EXTENDS Naturals, Sequences, FiniteSets

CONSTANTS
    Requests,
    Tenants,
    Founded,      \* the tenants there are at the start
    Channels,
    Home,         \* the channel they have enabled and a template for
    NoRow,
    NoTemplate,
    MaxFaults     \* bound: errors and crashes

ASSUME TenantsAssumption ==
    /\ Founded \subseteq Tenants
    /\ Home \in Channels
    /\ Channels \intersect {"row", "cap", "on", "off"} = {}
    /\ NoRow \notin Channels \union {"row", "cap", "on", "off"}
    /\ {"first", "nobody"} \intersect Requests = {}
    /\ MaxFaults \in Nat

-----------------------------------------------------------------------------
\* The rows, by table, tenant and what tells them apart within the tenant.

TenantRow(t) == <<"tenants", t, "row">>
KeyRow(t, k) == <<"api_keys", t, k>>
ChannelRow(t, c) == <<"tenant_channels", t, c>>
LimitRow(t, c) == <<"tenant_rate_limits", t, c>>
TemplateRow(t, x) == <<"notification_templates", t, x>>
NotificationRow(t, r) == <<"notifications", t, r>>

\* Ids are drawn: a tenant's first key and template, and what a request creates.
Ids == {"first"} \union Requests

TemplateRows == {TemplateRow(t, x) : t \in Tenants, x \in Ids}

Rows ==
    {TenantRow(t) : t \in Tenants}
    \union {KeyRow(t, k) : t \in Tenants, k \in Ids}
    \union {ChannelRow(t, c) : t \in Tenants, c \in Channels}
    \union {LimitRow(t, c) : t \in Tenants, c \in Channels}
    \union TemplateRows
    \union {NotificationRow(t, r) : t \in Tenants, r \in Requests}

\* The row's tenant, and the rows that ON DELETE CASCADE removes with row x.
Owner(x) == x[2]
Cascade(x) == IF x[1] = "tenants" THEN {y \in Rows : Owner(y) = Owner(x)} ELSE {x}

VARIABLES
    db,       \* the committed rows: what they hold, or NoRow
    uses,     \* template_id of a request's notification
    writer,   \* history: the request that last wrote a row
    pc,
    todo,     \* the statements of the request's transaction
    at,       \* how many of them have run
    reply,
    revoked,  \* history: tenants that had a key revoked
    faults

request == <<pc, todo, at, reply>>
vars == <<db, uses, writer, request, revoked, faults>>

\* Tenants with their first key, a channel and a template.
Init ==
    /\ db = [y \in Rows |->
                IF Owner(y) \notin Founded THEN NoRow
                ELSE CASE y = TenantRow(Owner(y)) -> "row"
                       [] y = KeyRow(Owner(y), "first") -> "row"
                       [] y = ChannelRow(Owner(y), Home) -> "on"
                       [] y = TemplateRow(Owner(y), "first") -> Home
                       [] OTHER -> NoRow]
    /\ uses = [r \in Requests |-> NoTemplate]
    /\ writer = [y \in Rows |-> "nobody"]
    /\ pc = [r \in Requests |-> "idle"]
    /\ todo = [r \in Requests |-> << >>]
    /\ at = [r \in Requests |-> 0]
    /\ reply = [r \in Requests |-> "none"]
    /\ revoked = {}
    /\ faults = 0

-----------------------------------------------------------------------------

Exists(x) == db[x] # NoRow

Goto(r, label) == pc' = [pc EXCEPT ![r] = label]

Answer(r, text) ==
    /\ Goto(r, "done")
    /\ reply' = [reply EXCEPT ![r] = text]

Fault == faults < MaxFaults /\ faults' = faults + 1

\* Statements: INSERT, INSERT ... ON CONFLICT DO UPDATE, UPDATE, DELETE.
Insert(x, v) == [op |-> "insert", row |-> x, value |-> v]
Upsert(x, v) == [op |-> "upsert", row |-> x, value |-> v]
Update(x, v) == [op |-> "update", row |-> x, value |-> v]
Delete(x) == [op |-> "delete", row |-> x, value |-> NoRow]

\* A request arrives and, once its first read let it pass, has these to run.
Begin(r, statements) ==
    /\ pc[r] = "idle"
    /\ todo' = [todo EXCEPT ![r] = statements]
    /\ Goto(r, IF statements = << >> THEN "commit" ELSE "write")
    /\ UNCHANGED <<db, uses, writer, at, reply, revoked, faults>>

\* The first read found no tenant, or no key: 404 or 401.
Refuse(r) ==
    /\ pc[r] = "idle"
    /\ Answer(r, "refused")
    /\ UNCHANGED <<db, uses, writer, todo, at, revoked, faults>>

-----------------------------------------------------------------------------
\* The handlers of tenant.go.

\* Create: the tenant, under a new id, and its first key in one transaction.
Create(r, t) ==
    /\ t \notin Founded
    /\ writer[TenantRow(t)] = "nobody"
    /\ \A q \in Requests, i \in 1..2 : i \in DOMAIN todo[q] => todo[q][i].row # TenantRow(t)
    /\ Begin(r, <<Insert(TenantRow(t), "row"), Insert(KeyRow(t, "first"), "row")>>)

\* Update the name, or delete: one statement each.
UpdateTenant(r, t) == Begin(r, <<Update(TenantRow(t), "row")>>)

DeleteTenant(r, t) == Begin(r, <<Delete(TenantRow(t))>>)

\* CreateKey, UpdateChannels and UpdateRateLimits first look for the tenant, in a
\* statement before their transaction.
GetByID(t) == Exists(TenantRow(t))

IfTenant(r, t, statements) ==
    \/ GetByID(t) /\ Begin(r, statements)
    \/ ~GetByID(t) /\ Refuse(r)

CreateKey(r, t) == IfTenant(r, t, <<Insert(KeyRow(t, r), "row")>>)

DeleteKey(r, t, k) == Begin(r, <<Delete(KeyRow(t, k))>>)

\* The channels in the order in which the client lists them.
UpdateChannels(r, t, chs, enabled) ==
    IfTenant(r, t, [i \in DOMAIN chs |->
                        Upsert(ChannelRow(t, chs[i]), IF enabled THEN "on" ELSE "off")])

\* The global cap, if the request has one, and then the limits.
UpdateRateLimits(r, t, cap, chs) ==
    IfTenant(r, t, (IF cap THEN <<Update(TenantRow(t), "cap")>> ELSE << >>)
                   \o [i \in DOMAIN chs |-> Upsert(LimitRow(t, chs[i]), "row")])

\* GetChannels and GetRateLimits look for the tenant and read in a second statement.
Look(r, t) ==
    \/ /\ pc[r] = "idle"
       /\ GetByID(t)
       /\ Goto(r, "read")
       /\ UNCHANGED <<db, uses, writer, todo, at, reply, revoked, faults>>
    \/ ~GetByID(t) /\ Refuse(r)

-----------------------------------------------------------------------------
\* The handlers behind Auth, which finds the tenant by the hash of the key.

GetTenantByKeyHash(t, k) == Exists(KeyRow(t, k)) /\ Exists(TenantRow(t))

Auth(r, t, k, statements) ==
    \/ GetTenantByKeyHash(t, k) /\ Begin(r, statements)
    \/ ~GetTenantByKeyHash(t, k) /\ Refuse(r)

CreateTemplate(r, t, k, c) == Auth(r, t, k, <<Insert(TemplateRow(t, r), c)>>)

UpdateTemplate(r, t, k, x, c) == Auth(r, t, k, <<Update(TemplateRow(t, x), c)>>)

DeleteTemplate(r, t, k, x) == Auth(r, t, k, <<Delete(TemplateRow(t, x))>>)

\* Send, Schedule and Batch by tenant t on channel c with template x, anyone's, or
\* none: what they insert once IsEnabled and resolveTemplate have let them.
Receive(r, t, k) ==
    \/ /\ pc[r] = "idle"
       /\ GetTenantByKeyHash(t, k)
       /\ \E c \in Channels : todo' = [todo EXCEPT ![r] = <<Insert(NotificationRow(t, r), c)>>]
       /\ \E x \in {NoTemplate} \union TemplateRows : uses' = [uses EXCEPT ![r] = x]
       /\ Goto(r, "enabled")
       /\ UNCHANGED <<db, writer, at, reply, revoked, faults>>
    \/ ~GetTenantByKeyHash(t, k) /\ Refuse(r)

\* 403, 404 or 422.
Drop(r) == todo' = [todo EXCEPT ![r] = << >>] /\ Answer(r, "refused")

\* The tenant and the channel of a Send in flight.
Sender(r) == Owner(todo[r][1].row)
Channel(r) == todo[r][1].value

IsEnabled(t, c) == db[ChannelRow(t, c)] = "on"

CheckChannel(r) ==
    /\ pc[r] = "enabled"
    /\ IF IsEnabled(Sender(r), Channel(r))
       THEN Goto(r, IF uses[r] = NoTemplate THEN "write" ELSE "template") /\ UNCHANGED <<todo, reply>>
       ELSE Drop(r)
    /\ UNCHANGED <<db, uses, writer, at, revoked, faults>>

\* A slip to guard against: the query forgets the tenant.
GetAnyTemplate(t, x) == Exists(x)

\* Templates.GetByID: the template must be the tenant's.
GetTemplate(t, x) == Exists(x) /\ Owner(x) = t

\* It must also be for the channel.
ResolveTemplate(r) ==
    /\ pc[r] = "template"
    /\ IF GetTemplate(Sender(r), uses[r]) /\ db[uses[r]] = Channel(r)
       THEN Goto(r, "write") /\ UNCHANGED <<todo, reply>>
       ELSE Drop(r)
    /\ UNCHANGED <<db, uses, writer, at, revoked, faults>>

-----------------------------------------------------------------------------
\* Postgres: locks.

Statement(r) == todo[r][at[r] + 1]

\* The rows r has written and not committed.
Locks(r) == {todo[r][i].row : i \in 1..at[r]}
Deleting(r) == {todo[r][i].row : i \in {i \in 1..at[r] : todo[r][i].op = "delete"}}

\* The rows that go when r commits.
Gone(r) == UNION {Cascade(x) : x \in Deleting(r)}

\* A slip to guard against: columns without REFERENCES.
ParentsForgotten(r, x) == {}

\* The rows that row x, inserted by r, refers to.
Parents(r, x) ==
    IF x[1] = "tenants" THEN {}
    ELSE {TenantRow(Owner(x))}
         \union (IF x[1] = "notifications" /\ uses[r] # NoTemplate THEN {uses[r]} ELSE {})

\* The rows r's uncommitted inserts refer to.
Shares(r) ==
    UNION {Parents(r, x) : x \in {y \in Locks(r) \ Deleting(r) : ~Exists(y)}}

\* r has to wait for q: to write a row q has written, to delete a row q refers
\* to, to refer to a row q deletes, or to cascade to a row q has written.
Waits(r, q) ==
    /\ q # r
    /\ \/ /\ pc[r] = "write"
          /\ LET s == Statement(r)
             IN  \/ s.row \in Locks(q)
                 \/ s.op = "delete" /\ s.row \in Shares(q)
                 \/ s.op \in {"insert", "upsert"} /\ ~Exists(s.row)
                    /\ Parents(r, s.row) \intersect Deleting(q) # {}
       \/ /\ pc[r] = "commit"
          /\ Gone(r) \intersect Locks(q) # {}

Blocked(r) == \E q \in Requests : Waits(r, q)

\* A cycle: a least set of requests that all wait for one of the set.
Cycle(S) ==
    LET Stuck(T) == T # {} /\ \A r \in T : \E q \in T : Waits(r, q)
    IN  Stuck(S) /\ \A T \in SUBSET S : Stuck(T) => T = S

-----------------------------------------------------------------------------
\* Postgres: statements, commit and rollback.

\* The statement finds its row missing, present already, or without its parent.
Impossible(r) ==
    LET s == Statement(r)
        there == Exists(s.row) \/ s.row \in Locks(r)
    IN  CASE s.op \in {"update", "delete"} -> ~there
          [] s.op = "insert" -> there \/ \E y \in Parents(r, s.row) : ~(Exists(y) \/ y \in Locks(r))
          [] OTHER -> ~there /\ \E y \in Parents(r, s.row) : ~Exists(y)

\* Slips to guard against: a statement of its own transaction, and a transaction
\* that is left open on an error.
WriteCommits(r) ==
    /\ pc[r] = "write"
    /\ ~Blocked(r)
    /\ ~Impossible(r)
    /\ db' = [db EXCEPT ![Statement(r).row] = Statement(r).value]
    /\ writer' = [writer EXCEPT ![Statement(r).row] = r]
    /\ todo' = [todo EXCEPT ![r] = Tail(@)]
    /\ IF Len(todo[r]) > 1 THEN UNCHANGED <<pc, reply>> ELSE Answer(r, "ok")
    /\ UNCHANGED <<uses, at, revoked, faults>>

RollbackForgotten(r, text) ==
    /\ Answer(r, text)
    /\ UNCHANGED <<db, uses, writer, todo, at>>

\* The next statement of the transaction.
Write(r) ==
    /\ pc[r] = "write"
    /\ ~Blocked(r)
    /\ ~Impossible(r)
    /\ at' = [at EXCEPT ![r] = @ + 1]
    /\ IF at'[r] = Len(todo[r]) THEN Goto(r, "commit") ELSE UNCHANGED pc
    /\ UNCHANGED <<db, uses, writer, todo, reply, revoked, faults>>

\* WithTx rolls back, the handler answers.
Rollback(r, text) ==
    /\ todo' = [todo EXCEPT ![r] = << >>]
    /\ at' = [at EXCEPT ![r] = 0]
    /\ Answer(r, text)
    /\ UNCHANGED <<db, uses, writer>>

\* ErrNotFound, ErrAlreadyExists or a foreign key violation.
WriteRefused(r) ==
    /\ pc[r] = "write"
    /\ ~Blocked(r)
    /\ Impossible(r)
    /\ Rollback(r, "refused")
    /\ UNCHANGED <<revoked, faults>>

\* Postgres breaks a deadlock.
DeadlockDetected(r) ==
    /\ \E S \in SUBSET Requests : r \in S /\ Cycle(S)
    /\ Rollback(r, "error")
    /\ UNCHANGED <<revoked, faults>>

\* A read or a statement fails: a lost connection, a cancelled context, a template
\* name that is taken.
StatementFails(r) ==
    /\ pc[r] \in {"idle", "enabled", "template", "write", "read"}
    /\ Fault
    /\ Rollback(r, "error")
    /\ UNCHANGED revoked

\* What row x holds once r has committed.
Written(r, x) ==
    LET i == CHOOSE i \in 1..at[r] :
                todo[r][i].row = x /\ \A j \in (i + 1)..at[r] : todo[r][j].row # x
    IN  todo[r][i].value

\* A slip to guard against: the transaction's locks are kept.
DurableLocked(r) ==
    /\ db' = [x \in Rows |-> IF x \in Locks(r) THEN Written(r, x) ELSE db[x]]
    /\ todo' = [todo EXCEPT ![r] = << >>]
    /\ UNCHANGED <<uses, writer, revoked, at>>

\* The transaction is durable, with its ON DELETE CASCADE and SET NULL.
Durable(r) ==
    /\ db' = [x \in Rows |-> IF x \in Gone(r) THEN NoRow
                             ELSE IF x \in Locks(r) THEN Written(r, x) ELSE db[x]]
    /\ uses' = [q \in Requests |-> IF uses[q] \in Gone(r) /\ pc[q] = "done"
                                   THEN NoTemplate ELSE uses[q]]
    /\ writer' = [x \in Rows |-> IF x \in Locks(r) THEN r ELSE writer[x]]
    /\ revoked' = revoked \union {Owner(x) : x \in {y \in Deleting(r) : y[1] = "api_keys"}}
    /\ todo' = [todo EXCEPT ![r] = << >>]
    /\ at' = [at EXCEPT ![r] = 0]

\* The PUTs of channels and limits read them again for their answer.
Commit(r) ==
    /\ pc[r] = "commit"
    /\ ~Blocked(r)
    /\ Durable(r)
    /\ IF todo[r] = << >> \/ \E i \in DOMAIN todo[r] : todo[r][i].op = "upsert"
                                                       \/ todo[r][i].value = "cap"
       THEN Goto(r, "read") /\ UNCHANGED reply ELSE Answer(r, "ok")
    /\ UNCHANGED faults

\* Commit returns an error; took: Postgres had committed.
CommitFails(r, took) ==
    /\ pc[r] = "commit"
    /\ ~Blocked(r)
    /\ Fault
    /\ IF took THEN Durable(r) /\ Answer(r, "error")
               ELSE Rollback(r, "error") /\ UNCHANGED revoked

Read(r) ==
    /\ pc[r] = "read"
    /\ Answer(r, "ok")
    /\ UNCHANGED <<db, uses, writer, todo, at, revoked, faults>>

\* The process dies and Postgres rolls its transactions back.
Crash ==
    /\ Fault
    /\ \E r \in Requests : pc[r] \notin {"idle", "done"}
    /\ todo' = [r \in Requests |-> << >>]
    /\ at' = [r \in Requests |-> 0]
    /\ pc' = [r \in Requests |-> IF pc[r] = "idle" THEN "idle" ELSE "done"]
    /\ reply' = [r \in Requests |-> IF pc[r] \in {"idle", "done"} THEN reply[r] ELSE "lost"]
    /\ UNCHANGED <<db, uses, writer, revoked>>

-----------------------------------------------------------------------------

\* Lists of channels in a request: none, or two in either order.
Lists == {<< >>} \union {l \in Channels \X Channels : l[1] # l[2]}

Handle(r) ==
    \E t \in Tenants :
        \/ Create(r, t)
        \/ UpdateTenant(r, t)
        \/ DeleteTenant(r, t)
        \/ CreateKey(r, t)
        \/ \E k \in Ids : DeleteKey(r, t, k)
        \/ \E chs \in Lists, b \in BOOLEAN : UpdateChannels(r, t, chs, b)
        \/ \E chs \in Lists, b \in BOOLEAN : UpdateRateLimits(r, t, b, chs)
        \/ Look(r, t)
        \/ \E k \in Ids, c \in Channels : CreateTemplate(r, t, k, c)
        \/ \E k, x \in Ids, c \in Channels : UpdateTemplate(r, t, k, x, c)
        \/ \E k, x \in Ids : DeleteTemplate(r, t, k, x)
        \/ \E k \in Ids : Receive(r, t, k)

Step(r) ==
    \/ CheckChannel(r)
    \/ ResolveTemplate(r)
    \/ Write(r)
    \/ WriteRefused(r)
    \/ DeadlockDetected(r)
    \/ Commit(r)
    \/ Read(r)

Next ==
    \/ \E r \in Requests : Handle(r) \/ Step(r) \/ StatementFails(r)
    \/ \E r \in Requests, took \in BOOLEAN : CommitFails(r, took)
    \/ Crash

Spec == Init /\ [][Next]_vars

\* While requests can go on, some do, and Postgres breaks deadlocks.
FairSpec == Spec /\ WF_vars(\E r \in Requests : Step(r))

-----------------------------------------------------------------------------

\* What a row of a table holds.
Values == Channels \union {"row", "cap", "on", "off"}

Holds(x) ==
    CASE x[1] = "tenant_channels" -> {"on", "off"}
      [] x[1] \in {"notification_templates", "notifications"} -> Channels
      [] x[1] = "tenants" -> {"row", "cap"}
      [] OTHER -> {"row"}

Statements ==
    [op : {"insert", "upsert", "update", "delete"}, row : Rows, value : Values \union {NoRow}]

\* Every variable has its type.
TypeOK ==
    /\ db \in [Rows -> Values \union {NoRow}]
    /\ \A x \in Rows : Exists(x) => db[x] \in Holds(x)
    /\ uses \in [Requests -> {NoTemplate} \union TemplateRows]
    /\ writer \in [Rows -> {"nobody"} \union Requests]
    /\ pc \in [Requests -> {"idle", "enabled", "template", "write", "commit", "read", "done"}]
    /\ todo \in [Requests -> Seq(Statements)]
    /\ at \in [Requests -> 0..3]
    /\ \A r \in Requests : at[r] <= Len(todo[r]) /\ Len(todo[r]) <= 3
    /\ reply \in [Requests -> {"none", "ok", "refused", "error", "lost"}]
    /\ revoked \subseteq Tenants
    /\ faults \in 0..MaxFaults

\* Whatever a request had found when it began, nothing of a tenant outlives it: a
\* Send, a CreateKey or a PUT that passed its check before the tenant was deleted
\* leaves no row behind.
NoOrphans == \A x \in Rows : Exists(x) => Exists(TenantRow(Owner(x)))

\* A tenant has a key from the moment it can be seen, unless one was revoked.
EveryTenantHasKey ==
    \A t \in Tenants \ revoked :
        Exists(TenantRow(t)) => \E k \in Ids : Exists(KeyRow(t, k))

\* A notification's template is its own tenant's and is there, whoever deletes it
\* between resolveTemplate and the INSERT.
TemplatesAreSound ==
    \A t \in Tenants, r \in Requests :
        Exists(NotificationRow(t, r)) /\ uses[r] # NoTemplate
            => Exists(uses[r]) /\ Owner(uses[r]) = t

\* The step shows none of the rows r was asked to write, or all of them.
ShownAtOnce(r) ==
    LET asked == {todo[r][i].row : i \in DOMAIN todo[r]}
        shown == {x \in asked : writer'[x] = r /\ writer[x] # r}
    IN  shown \in {{}, asked}

\* A request that changes several rows shows all of its changes at once, however it
\* runs into others, a deadlock, an error or a crash.
UpdatesAreWhole == [][\A r \in Requests : ShownAtOnce(r)]_vars

\* Every request is answered: no lock outlives its request, and a request that
\* waits for others in a cycle is let go.
EveryRequestAnswered ==
    \A r \in Requests : pc[r] # "idle" ~> pc[r] = "done"
=============================================================================
