--------------------------- MODULE TenantsProofs ----------------------------
(***************************************************************************)
(* Proofs about tenants and what belongs to them, for any number of        *)
(* concurrent requests, tenants, channels and faults: the foreign keys     *)
(* hold at every commit, although each request decided on what it read     *)
(* before its transaction, and a transaction is seen whole.                *)
(***************************************************************************)
EXTENDS Tenants, SequenceTheorems, TLAPS

\* The lists of statements a handler may run: a delete runs alone, an INSERT or an
\* update writes what its table holds, a notification is the request's own and the
\* only row of its transaction, and a tenant comes with its first key.
WellFormed(r, s) ==
    /\ s \in Seq(Statements)
    /\ Len(s) <= 3
    /\ \A i \in 1..Len(s) :
          /\ s[i].op = "delete" => Len(s) = 1
          /\ s[i].op # "delete" => s[i].value \in Holds(s[i].row)
          /\ s[i].row[1] = "notifications" =>
                Len(s) = 1 /\ s[i].op = "insert" /\ s[i].row = NotificationRow(Owner(s[i].row), r)
          /\ s[i].row[1] = "tenants" /\ s[i].op \in {"insert", "upsert"} =>
                Len(s) = 2 /\ s[2].row = KeyRow(Owner(s[i].row), "first")

\* Where a request is, and how far its transaction.
ProgressOf(r) ==
    /\ WellFormed(r, todo[r])
    /\ pc[r] \in {"idle", "read", "done"} => todo[r] = << >> /\ at[r] = 0
    /\ pc[r] \in {"enabled", "template"} =>
          at[r] = 0 /\ Len(todo[r]) = 1 /\ todo[r][1].row[1] = "notifications"
    /\ pc[r] = "write" => at[r] < Len(todo[r])
    /\ pc[r] = "commit" => at[r] = Len(todo[r])

Progress == \A r \in Requests : ProgressOf(r)

\* A row is locked by one transaction at a time.
LocksAreDisjoint ==
    \A q, r \in Requests : q # r => Locks(q) \intersect Locks(r) = {}

\* The rows r has inserted and not committed.
Inserted(r) ==
    {todo[r][i].row : i \in {i \in 1..at[r] : todo[r][i].op \in {"insert", "upsert"}}}

\* What an uncommitted row refers to is there or was written by the same
\* transaction, and no other transaction is deleting it.
ParentsAreHeld ==
    \A r \in Requests : \A y \in Locks(r) \ Deleting(r) : ~Exists(y) =>
        /\ y \in Inserted(r)
        /\ \A p \in Parents(r, y) :
              /\ Exists(p) \/ p \in Locks(r)
              /\ \A q \in Requests : q # r => p \notin Deleting(q)

\* A Send that has passed resolveTemplate refers to a template of its own tenant.
TemplatesAreOwn ==
    \A r \in Requests :
        /\ pc[r] \in {"write", "commit"}
        /\ uses[r] # NoTemplate
        /\ todo[r] # << >>
        /\ todo[r][1].row[1] = "notifications"
        => Owner(uses[r]) = Owner(todo[r][1].row)

\* Only a request that has committed has written anything.
WritersAreThrough ==
    /\ \A x \in Rows, r \in Requests : writer[x] = r => pc[r] \in {"read", "done"}
    /\ \A t \in Tenants, r \in Requests : Exists(NotificationRow(t, r)) => pc[r] = "done"

\* The inductive invariant.
TenantsInv ==
    /\ TypeOK
    /\ Progress
    /\ LocksAreDisjoint
    /\ ParentsAreHeld
    /\ TemplatesAreOwn
    /\ WritersAreThrough
    /\ NoOrphans
    /\ EveryTenantHasKey
    /\ TemplatesAreSound

-----------------------------------------------------------------------------
\* Rows.

\* The rows of a tenant, whose ids are unlike.
LEMMA RowsOf ==
    ASSUME NEW t \in Tenants
    PROVE  /\ TenantRow(t) \in Rows /\ Owner(TenantRow(t)) = t /\ TenantRow(t)[1] = "tenants"
           /\ \A k \in Ids : /\ KeyRow(t, k) \in Rows /\ Owner(KeyRow(t, k)) = t
                             /\ KeyRow(t, k)[1] = "api_keys"
           /\ \A c \in Channels : /\ ChannelRow(t, c) \in Rows /\ Owner(ChannelRow(t, c)) = t
                                  /\ ChannelRow(t, c)[1] = "tenant_channels"
           /\ \A c \in Channels : /\ LimitRow(t, c) \in Rows /\ Owner(LimitRow(t, c)) = t
                                  /\ LimitRow(t, c)[1] = "tenant_rate_limits"
           /\ \A k \in Ids : /\ TemplateRow(t, k) \in Rows /\ Owner(TemplateRow(t, k)) = t
                             /\ TemplateRow(t, k)[1] = "notification_templates"
           /\ \A r \in Requests :
                 /\ NotificationRow(t, r) \in Rows /\ Owner(NotificationRow(t, r)) = t
                 /\ NotificationRow(t, r)[1] = "notifications"
                 /\ NotificationRow(t, r)[3] = r
<1>1. TenantRow(t) \in Rows /\ Owner(TenantRow(t)) = t /\ TenantRow(t)[1] = "tenants"
  BY DEF Rows, TenantRow, Owner
<1>2. ASSUME NEW k \in Ids
      PROVE  KeyRow(t, k) \in Rows /\ Owner(KeyRow(t, k)) = t /\ KeyRow(t, k)[1] = "api_keys"
  BY <1>2 DEF Rows, KeyRow, Owner
<1>3. ASSUME NEW c \in Channels
      PROVE  /\ ChannelRow(t, c) \in Rows /\ Owner(ChannelRow(t, c)) = t
             /\ ChannelRow(t, c)[1] = "tenant_channels"
             /\ LimitRow(t, c) \in Rows /\ Owner(LimitRow(t, c)) = t
             /\ LimitRow(t, c)[1] = "tenant_rate_limits"
  BY <1>3 DEF Rows, ChannelRow, LimitRow, Owner
<1>4. ASSUME NEW k \in Ids
      PROVE  /\ TemplateRow(t, k) \in Rows /\ Owner(TemplateRow(t, k)) = t
             /\ TemplateRow(t, k)[1] = "notification_templates"
  BY <1>4 DEF Rows, TemplateRows, TemplateRow, Owner
<1>5. ASSUME NEW r \in Requests
      PROVE  /\ NotificationRow(t, r) \in Rows /\ Owner(NotificationRow(t, r)) = t
             /\ NotificationRow(t, r)[1] = "notifications"
             /\ NotificationRow(t, r)[3] = r
  BY <1>5 DEF Rows, NotificationRow, Owner
<1> QED
  BY <1>1, <1>2, <1>3, <1>4, <1>5

\* Every row has a tenant, and its table says which kind of row it is.
LEMMA RowKinds ==
    ASSUME NEW x \in Rows
    PROVE  /\ Owner(x) \in Tenants
           /\ x[1] = "tenants" => x = TenantRow(Owner(x))
           /\ x[1] = "notifications" => \E r \in Requests : x = NotificationRow(Owner(x), r)
           /\ x[1] = "api_keys" => \E k \in Ids : x = KeyRow(Owner(x), k)
           /\ x \in TemplateRows <=> x[1] = "notification_templates"
<1> DEFINE P == /\ Owner(x) \in Tenants
                /\ x[1] = "tenants" => x = TenantRow(Owner(x))
                /\ x[1] = "notifications" => \E r \in Requests : x = NotificationRow(Owner(x), r)
                /\ x[1] = "api_keys" => \E k \in Ids : x = KeyRow(Owner(x), k)
                /\ x \in TemplateRows <=> x[1] = "notification_templates"
<1> USE DEF TenantRow, KeyRow, ChannelRow, LimitRow, TemplateRow, NotificationRow, Owner,
            TemplateRows
<1>1. ASSUME NEW t \in Tenants, x = TenantRow(t) PROVE P
  BY <1>1
<1>2. ASSUME NEW t \in Tenants, NEW k \in Ids, x = KeyRow(t, k) PROVE P
  BY <1>2
<1>3. ASSUME NEW t \in Tenants, NEW c \in Channels, x = ChannelRow(t, c) PROVE P
  BY <1>3
<1>4. ASSUME NEW t \in Tenants, NEW c \in Channels, x = LimitRow(t, c) PROVE P
  BY <1>4
<1>5. ASSUME NEW t \in Tenants, NEW k \in Ids, x = TemplateRow(t, k) PROVE P
  BY <1>5
<1>6. ASSUME NEW t \in Tenants, NEW r \in Requests, x = NotificationRow(t, r) PROVE P
  BY <1>6
<1> HIDE DEF P
<1>7. P
  BY <1>1, <1>2, <1>3, <1>4, <1>5, <1>6 DEF Rows
<1> QED
  BY <1>7 DEF P

-----------------------------------------------------------------------------
\* Locks and what a commit does.

\* A transaction's locks are rows, and a delete is its only statement.
LEMMA LocksAreRows ==
    ASSUME TypeOK, Progress, NEW r \in Requests
    PROVE  /\ Locks(r) \subseteq Rows
           /\ Deleting(r) \subseteq Locks(r)
           /\ Inserted(r) \subseteq Locks(r)
           /\ Deleting(r) # {} => Deleting(r) = Locks(r) /\ Inserted(r) = {}
           /\ pc[r] \notin {"write", "commit"} => Locks(r) = {}
<1>1. /\ todo[r] \in Seq(Statements) /\ at[r] \in 0..3 /\ at[r] <= Len(todo[r])
      /\ Len(todo[r]) \in Nat
      /\ \A i \in 1..Len(todo[r]) : /\ todo[r][i] \in Statements
                                    /\ todo[r][i].op = "delete" => Len(todo[r]) = 1
      /\ pc[r] \notin {"write", "commit"} => at[r] = 0
  BY LenProperties, ElementOfSeq DEF TypeOK, Progress, ProgressOf, WellFormed
<1>2. \A i \in 1..at[r] : i \in 1..Len(todo[r]) /\ todo[r][i].row \in Rows
  BY <1>1 DEF Statements
<1>3. Locks(r) \subseteq Rows
  BY <1>2 DEF Locks
<1>4. Deleting(r) \subseteq Locks(r) /\ Inserted(r) \subseteq Locks(r)
  BY DEF Locks, Deleting, Inserted
<1>5. pc[r] \notin {"write", "commit"} => Locks(r) = {}
  BY <1>1 DEF Locks
<1>6. ASSUME NEW i \in 1..at[r], todo[r][i].op = "delete"
      PROVE  Deleting(r) = Locks(r) /\ Inserted(r) = {}
  <2>1. Len(todo[r]) = 1 /\ at[r] = 1 /\ i = 1
    BY <1>1, <1>2, <1>6
  <2>2. \A j \in 1..at[r] : todo[r][j].op = "delete"
    BY <2>1, <1>6
  <2> QED
    BY <2>2 DEF Locks, Deleting, Inserted
<1>7. Deleting(r) # {} => \E i \in 1..at[r] : todo[r][i].op = "delete"
  BY DEF Deleting
<1>8. Deleting(r) # {} => Deleting(r) = Locks(r) /\ Inserted(r) = {}
  BY <1>6, <1>7
<1> QED
  BY <1>3, <1>4, <1>5, <1>8

\* Commit leaves each row it wrote with what one of its statements says.
LEMMA WrittenByStatement ==
    ASSUME TypeOK, Progress, NEW r \in Requests, NEW x \in Locks(r)
    PROVE  \E i \in 1..at[r] : todo[r][i].row = x /\ Written(r, x) = todo[r][i].value
<1> DEFINE Last(i) == todo[r][i].row = x /\ \A j \in (i + 1)..at[r] : todo[r][j].row # x
<1>1. at[r] \in 0..3
  BY DEF TypeOK
<1>2. PICK k \in 1..at[r] : todo[r][k].row = x
  BY DEF Locks
<1>3. \E i \in 1..at[r] : Last(i)
  <2>1. CASE at[r] >= 3 /\ todo[r][3].row = x
    BY <1>1, <2>1
  <2>2. CASE ~(at[r] >= 3 /\ todo[r][3].row = x) /\ at[r] >= 2 /\ todo[r][2].row = x
    <3>1. 2 \in 1..at[r] /\ \A j \in (2 + 1)..at[r] : j = 3 /\ at[r] >= 3
      BY <1>1, <2>2
    <3> QED
      BY <3>1, <2>2
  <2>3. CASE ~(at[r] >= 3 /\ todo[r][3].row = x) /\ ~(at[r] >= 2 /\ todo[r][2].row = x)
    <3>1. 1 \in 1..at[r] /\ todo[r][1].row = x
      BY <1>1, <1>2, <2>3
    <3>2. \A j \in (1 + 1)..at[r] : (j = 3 /\ at[r] >= 3) \/ (j = 2 /\ at[r] >= 2)
      BY <1>1
    <3> QED
      BY <3>1, <3>2, <2>3
  <2> QED
    BY <2>1, <2>2, <2>3
<1>4. Written(r, x) = todo[r][CHOOSE i \in 1..at[r] : Last(i)].value
  BY DEF Written
<1> QED
  BY <1>3, <1>4

\* Unless it deletes, that is what the table holds.
LEMMA WrittenHolds ==
    ASSUME TypeOK, Progress, NEW r \in Requests, NEW x \in Locks(r), Deleting(r) = {}
    PROVE  Written(r, x) \in Holds(x) /\ Written(r, x) # NoRow /\ Holds(x) \subseteq Values
<1>1. PICK i \in 1..at[r] : todo[r][i].row = x /\ Written(r, x) = todo[r][i].value
  BY WrittenByStatement
<1>2. todo[r][i].op # "delete"
  BY Deleting(r) = {} DEF Deleting
<1>3. i \in 1..Len(todo[r]) /\ WellFormed(r, todo[r])
  <2>1. WellFormed(r, todo[r])
    BY DEF Progress, ProgressOf
  <2>2. todo[r] \in Seq(Statements) /\ at[r] \in 0..3 /\ at[r] <= Len(todo[r])
    BY DEF TypeOK
  <2>3. Len(todo[r]) \in Nat
    BY <2>2, LenProperties
  <2> QED
    BY <2>1, <2>2, <2>3
<1>4. todo[r][i].value \in Holds(x)
  BY <1>1, <1>2, <1>3 DEF WellFormed
<1>5. Holds(x) \subseteq Values
  BY DEF Holds, Values
<1> QED
  BY <1>1, <1>4, <1>5, TenantsAssumption DEF Values

\* What goes with a transaction: the rows it deletes and, with a tenant, all of it.
LEMMA GoneRows ==
    ASSUME TypeOK, Progress, NEW r \in Requests
    PROVE  /\ Deleting(r) \subseteq Gone(r)
           /\ Deleting(r) = {} => Gone(r) = {}
           /\ \A x \in Rows :
                 /\ x \in Gone(r) => x \in Deleting(r) \/ TenantRow(Owner(x)) \in Deleting(r)
                 /\ TenantRow(Owner(x)) \in Gone(r) => x \in Gone(r)
           /\ \A t \in Tenants : TenantRow(t) \in Gone(r) => TenantRow(t) \in Deleting(r)
<1>1. Deleting(r) \subseteq Rows
  BY LocksAreRows
<1>2. \A x \in Rows : x \in Cascade(x)
  BY DEF Cascade
<1>3. Deleting(r) \subseteq Gone(r)
  BY <1>1, <1>2 DEF Gone
<1>4. Deleting(r) = {} => Gone(r) = {}
  BY DEF Gone
<1>5. ASSUME NEW x \in Rows, x \in Gone(r)
      PROVE  x \in Deleting(r) \/ TenantRow(Owner(x)) \in Deleting(r)
  <2>1. PICK y \in Deleting(r) : x \in Cascade(y)
    BY <1>5 DEF Gone
  <2>2. CASE y[1] = "tenants"
    <3>1. Owner(x) = Owner(y) /\ y = TenantRow(Owner(y))
      BY <1>1, <2>1, <2>2, RowKinds DEF Cascade
    <3> QED
      BY <2>1, <3>1
  <2>3. CASE y[1] # "tenants"
    BY <2>1, <2>3 DEF Cascade
  <2> QED
    BY <2>2, <2>3
<1>6. ASSUME NEW t \in Tenants, TenantRow(t) \in Gone(r)
      PROVE  TenantRow(t) \in Deleting(r)
  <2>1. TenantRow(t) \in Rows /\ Owner(TenantRow(t)) = t
    BY RowsOf
  <2> QED
    BY <2>1, <1>5, <1>6
<1>7. ASSUME NEW x \in Rows, TenantRow(Owner(x)) \in Gone(r)
      PROVE  x \in Gone(r)
  <2>1. Owner(x) \in Tenants
    BY RowKinds
  <2>2. /\ TenantRow(Owner(x)) \in Deleting(r)
        /\ TenantRow(Owner(x))[1] = "tenants"
        /\ Owner(TenantRow(Owner(x))) = Owner(x)
    BY <2>1, <1>6, <1>7, RowsOf
  <2>3. x \in Cascade(TenantRow(Owner(x)))
    BY <2>2 DEF Cascade
  <2> QED
    BY <2>2, <2>3 DEF Gone
<1> QED
  BY <1>3, <1>4, <1>5, <1>6, <1>7

-----------------------------------------------------------------------------
\* The kinds of steps, by what they do to the tables and the transactions.

\* A request begins: with its transaction, or as a Send with its checks to come.
Starts(r) ==
    /\ pc[r] = "idle"
    /\ \E s \in Seq(Statements) :
          /\ WellFormed(r, s)
          /\ todo' = [todo EXCEPT ![r] = s]
          /\ \/ /\ s = << >>
                /\ pc' = [pc EXCEPT ![r] = "commit"]
                /\ UNCHANGED uses
             \/ /\ s # << >>
                /\ s[1].row[1] # "notifications"
                /\ pc' = [pc EXCEPT ![r] = "write"]
                /\ UNCHANGED uses
             \/ /\ Len(s) = 1
                /\ s[1].row[1] = "notifications"
                /\ pc' = [pc EXCEPT ![r] = "enabled"]
                /\ \E x \in {NoTemplate} \union TemplateRows : uses' = [uses EXCEPT ![r] = x]
    /\ UNCHANGED <<db, writer, at, revoked>>

\* A Send passes a check.
Passes(r) ==
    /\ pc[r] \in {"enabled", "template"}
    /\ \/ pc' = [pc EXCEPT ![r] = "template"]
       \/ /\ pc' = [pc EXCEPT ![r] = "write"]
          /\ uses[r] # NoTemplate => Owner(uses[r]) = Owner(todo[r][1].row)
    /\ UNCHANGED <<db, uses, writer, todo, at, revoked>>

\* A request ends without writing, or has only to read.
Stops(r) ==
    /\ \/ pc' = [pc EXCEPT ![r] = "done"]
       \/ pc[r] = "idle" /\ pc' = [pc EXCEPT ![r] = "read"]
    /\ todo' = [todo EXCEPT ![r] = << >>]
    /\ at' = [at EXCEPT ![r] = 0]
    /\ UNCHANGED <<db, uses, writer, revoked>>

\* A transaction commits.
Commits(r) ==
    /\ pc[r] = "commit"
    /\ ~Blocked(r)
    /\ Durable(r)
    /\ \/ pc' = [pc EXCEPT ![r] = "done"]
       \/ /\ pc' = [pc EXCEPT ![r] = "read"]
          /\ \A i \in 1..Len(todo[r]) : todo[r][i].row[1] # "notifications"

\* One statement is a transaction of its own.
LEMMA SingleStatement ==
    ASSUME NEW r \in Requests, NEW s \in Statements,
           s.op # "delete" => s.value \in Holds(s.row),
           s.row[1] = "notifications" =>
               s.op = "insert" /\ s.row = NotificationRow(Owner(s.row), r),
           s.row[1] = "tenants" => s.op \in {"update", "delete"}
    PROVE  WellFormed(r, <<s>>) /\ <<s>> \in Seq(Statements) /\ <<s>> # << >> /\ <<s>>[1] = s
<1>1. <<s>> \in Seq(Statements) /\ Len(<<s>>) = 1 /\ <<s>>[1] = s
  OBVIOUS
<1>2. \A i \in 1..1 : i = 1
  OBVIOUS
<1> QED
  BY <1>1, <1>2 DEF WellFormed

\* Begin is a start when what it runs is well formed.
LEMMA BeginStarts ==
    ASSUME TypeOK, Progress, NEW r \in Requests, NEW s \in Seq(Statements), Begin(r, s),
           WellFormed(r, s), s # << >> => s[1].row[1] # "notifications"
    PROVE  Starts(r)
<1>1. CASE s = << >>
  BY <1>1 DEF Begin, Goto, Starts
<1>2. CASE s # << >>
  BY <1>2 DEF Begin, Goto, Starts
<1> QED
  BY <1>1, <1>2

\* A request that does no more ends without writing.
LEMMA RefuseStops ==
    ASSUME TypeOK, Progress, NEW r \in Requests, Refuse(r)
    PROVE  Stops(r)
<1>1. todo[r] = << >> /\ at[r] = 0
  BY DEF Refuse, Progress, ProgressOf
<1>2. todo = [todo EXCEPT ![r] = << >>] /\ at = [at EXCEPT ![r] = 0]
  BY <1>1 DEF TypeOK
<1> QED
  BY <1>2 DEF Refuse, Answer, Goto, Stops

\* A handler that runs one statement starts with it or refuses.
LEMMA StatementStarts ==
    ASSUME TypeOK, Progress, NEW r \in Requests, NEW s \in Statements,
           s.op # "delete" => s.value \in Holds(s.row),
           s.row[1] # "notifications",
           s.row[1] = "tenants" => s.op \in {"update", "delete"},
           Begin(r, <<s>>)
    PROVE  Starts(r)
BY SingleStatement, BeginStarts

\* The statements of UpdateChannels and UpdateRateLimits, one for each channel of the
\* request: none, or two.
LEMMA ListedStatements ==
    ASSUME NEW chs \in Lists, NEW f \in [Channels -> Statements]
    PROVE  LET s == [i \in DOMAIN chs |-> f[chs[i]]]
           IN  s = << >> \/ \E c, d \in Channels : s = <<f[c], f[d]>>
<1> DEFINE s == [i \in DOMAIN chs |-> f[chs[i]]]
<1>1. CASE chs = << >>
  <2>1. DOMAIN chs = {}
    BY <1>1
  <2>2. DOMAIN s = 1..0 /\ s \in [1..0 -> Statements]
    BY <2>1
  <2>3. s \in Seq(Statements) /\ Len(s) = 0
    BY <2>2
  <2> QED
    BY <2>3, EmptySeq
<1>2. CASE chs \in Channels \X Channels
  <2>1. PICK c \in Channels, d \in Channels : chs = <<c, d>>
    BY <1>2
  <2>2. DOMAIN chs = 1..2 /\ chs[1] = c /\ chs[2] = d
    BY <2>1
  <2>3. DOMAIN s = 1..2 /\ s[1] = f[c] /\ s[2] = f[d]
    BY <2>2
  <2>4. s = <<f[c], f[d]>>
    BY <2>3
  <2> QED
    BY <2>4
<1> QED
  BY <1>1, <1>2 DEF Lists

\* Statements that may stand in a list: they create no tenant and no notification.
Plain(s) ==
    /\ s.op \in {"update", "upsert"}
    /\ s.value \in Holds(s.row)
    /\ s.row[1] # "notifications"
    /\ s.row[1] = "tenants" => s.op = "update"

LEMMA PlainLists ==
    ASSUME NEW r \in Requests, NEW s \in Seq(Statements), Len(s) <= 3,
           \A i \in 1..Len(s) : Plain(s[i])
    PROVE  WellFormed(r, s) /\ (s # << >> => s[1].row[1] # "notifications")
<1>1. WellFormed(r, s)
  BY DEF WellFormed, Plain
<1>2. s # << >> => 1 \in 1..Len(s)
  BY EmptySeq
<1> QED
  BY <1>1, <1>2 DEF Plain

\* Where a handler looks for the tenant first, or Auth for the key.
LEMMA GuardedStarts ==
    ASSUME TypeOK, Progress, NEW r \in Requests, NEW s \in Seq(Statements),
           WellFormed(r, s), s # << >> => s[1].row[1] # "notifications",
           Begin(r, s) \/ Refuse(r)
    PROVE  Starts(r) \/ Stops(r)
BY BeginStarts, RefuseStops

LEMMA HandlersStart ==
    ASSUME TypeOK, Progress, NEW r \in Requests, Handle(r)
    PROVE  Starts(r) \/ Stops(r)
<1>0. PICK t \in Tenants :
        \/ Create(r, t)
        \/ UpdateTenant(r, t)
        \/ DeleteTenant(r, t)
        \/ CreateKey(r, t)
        \/ \E k \in Ids : DeleteKey(r, t, k)
        \/ \E chs \in Lists, b \in BOOLEAN : UpdateChannels(r, t, chs, b)
        \/ \E chs \in Lists, b \in BOOLEAN : UpdateRateLimits(r, t, b, chs)
        \/ Look(r, t)
        \/ \E k \in Ids, c \in Channels : CreateTemplate(r, t, k, c)
        \/ \E k, x \in Ids, c \in Channels : UpdateTemplate(r, t, k, x, c)
        \/ \E k, x \in Ids : DeleteTemplate(r, t, k, x)
        \/ \E k \in Ids : Receive(r, t, k)
  BY DEF Handle
<1>i. r \in Ids /\ "first" \in Ids
  BY DEF Ids
<1>1. CASE Create(r, t)
  <2> DEFINE a == Insert(TenantRow(t), "row")
             b == Insert(KeyRow(t, "first"), "row")
  <2>1. a \in Statements /\ b \in Statements
    BY <1>i, RowsOf DEF Statements, Insert, Values
  <2>2. /\ a.op = "insert" /\ a.row = TenantRow(t) /\ a.value \in Holds(a.row)
        /\ b.op = "insert" /\ b.row = KeyRow(t, "first") /\ b.value \in Holds(b.row)
        /\ a.row[1] = "tenants" /\ b.row[1] = "api_keys" /\ Owner(a.row) = t
    BY <1>i, RowsOf DEF Insert, Holds
  <2> HIDE DEF a, b
  <2>3. /\ <<a, b>> \in Seq(Statements) /\ Len(<<a, b>>) = 2 /\ <<a, b>> # << >>
        /\ <<a, b>>[1] = a /\ <<a, b>>[2] = b
    BY <2>1
  <2>4. \A i \in 1..2 : i = 1 \/ i = 2
    OBVIOUS
  <2>5. WellFormed(r, <<a, b>>)
    BY <2>2, <2>3, <2>4 DEF WellFormed
  <2>6. Begin(r, <<a, b>>)
    BY <1>1 DEF Create, a, b
  <2> QED
    BY <2>2, <2>3, <2>5, <2>6, BeginStarts
<1>2. CASE UpdateTenant(r, t)
  <2> DEFINE a == Update(TenantRow(t), "row")
  <2>1. a \in Statements /\ a.op = "update" /\ a.value \in Holds(a.row) /\ a.row[1] = "tenants"
    BY RowsOf DEF Update, Statements, Values, Holds
  <2>2. Begin(r, <<a>>)
    BY <1>2 DEF UpdateTenant
  <2> QED
    BY <2>1, <2>2, StatementStarts
<1>3. CASE DeleteTenant(r, t)
  <2> DEFINE a == Delete(TenantRow(t))
  <2>1. a \in Statements /\ a.op = "delete" /\ a.row[1] = "tenants"
    BY RowsOf DEF Delete, Statements
  <2>2. Begin(r, <<a>>)
    BY <1>3 DEF DeleteTenant
  <2> QED
    BY <2>1, <2>2, StatementStarts
<1>4. CASE CreateKey(r, t)
  <2> DEFINE a == Insert(KeyRow(t, r), "row")
  <2>1. a \in Statements /\ a.op = "insert" /\ a.value \in Holds(a.row) /\ a.row[1] = "api_keys"
    BY <1>i, RowsOf DEF Insert, Statements, Values, Holds
  <2>2. Begin(r, <<a>>) \/ Refuse(r)
    BY <1>4 DEF CreateKey, IfTenant
  <2> QED
    BY <2>1, <2>2, StatementStarts, RefuseStops
<1>5. ASSUME NEW k \in Ids, DeleteKey(r, t, k) PROVE Starts(r)
  <2> DEFINE a == Delete(KeyRow(t, k))
  <2>1. a \in Statements /\ a.op = "delete" /\ a.row[1] = "api_keys"
    BY RowsOf DEF Delete, Statements
  <2>2. Begin(r, <<a>>)
    BY <1>5 DEF DeleteKey
  <2> QED
    BY <2>1, <2>2, StatementStarts
<1>6. ASSUME NEW chs \in Lists, NEW b \in BOOLEAN, UpdateChannels(r, t, chs, b)
      PROVE  Starts(r) \/ Stops(r)
  <2> DEFINE v == IF b THEN "on" ELSE "off"
             f == [c \in Channels |-> Upsert(ChannelRow(t, c), v)]
             s == [i \in DOMAIN chs |-> f[chs[i]]]
  <2>1. v \in {"on", "off"}
    OBVIOUS
  <2>2. \A i \in DOMAIN chs : chs[i] \in Channels
    BY DEF Lists
  <2>3. s = [i \in DOMAIN chs |-> Upsert(ChannelRow(t, chs[i]), v)]
    BY <2>2
  <2>4. Begin(r, s) \/ Refuse(r)
    BY <1>6, <2>3 DEF UpdateChannels, IfTenant
  <2> HIDE DEF v
  <2>5. \A c \in Channels : f[c] \in Statements /\ Plain(f[c])
    BY <2>1, RowsOf DEF Upsert, Statements, Values, Holds, Plain
  <2> HIDE DEF f
  <2>6. s = << >> \/ \E c, d \in Channels : s = <<f[c], f[d]>>
    <3>1. f \in [Channels -> Statements]
      BY <2>5 DEF f
    <3> QED
      BY <3>1, ListedStatements
  <2> HIDE DEF s
  <2>7. /\ s \in Seq(Statements) /\ Len(s) <= 3
        /\ \A i \in 1..Len(s) : Plain(s[i])
    <3>1. CASE s = << >>
      BY <3>1
    <3>2. ASSUME NEW c \in Channels, NEW d \in Channels, s = <<f[c], f[d]>>
          PROVE  /\ s \in Seq(Statements) /\ Len(s) <= 3
                 /\ \A i \in 1..Len(s) : Plain(s[i])
      <4>1. s \in Seq(Statements) /\ Len(s) = 2 /\ s[1] = f[c] /\ s[2] = f[d]
        BY <3>2, <2>5
      <4>2. \A i \in 1..2 : i = 1 \/ i = 2
        OBVIOUS
      <4> QED
        BY <4>1, <4>2, <2>5
    <3> QED
      BY <3>1, <3>2, <2>6
  <2> QED
    BY <2>4, <2>7, PlainLists, GuardedStarts
<1>7. ASSUME NEW chs \in Lists, NEW b \in BOOLEAN, UpdateRateLimits(r, t, b, chs)
      PROVE  Starts(r) \/ Stops(r)
  <2> DEFINE f == [c \in Channels |-> Upsert(LimitRow(t, c), "row")]
             u == Update(TenantRow(t), "cap")
             h == IF b THEN <<u>> ELSE << >>
             s == [i \in DOMAIN chs |-> f[chs[i]]]
  <2>2. \A i \in DOMAIN chs : chs[i] \in Channels
    BY DEF Lists
  <2>3. s = [i \in DOMAIN chs |-> Upsert(LimitRow(t, chs[i]), "row")]
    BY <2>2
  <2>4. Begin(r, h \o s) \/ Refuse(r)
    BY <1>7, <2>3 DEF UpdateRateLimits, IfTenant
  <2>5. \A c \in Channels : f[c] \in Statements /\ Plain(f[c])
    BY RowsOf DEF Upsert, Statements, Values, Holds, Plain
  <2>6. u \in Statements /\ Plain(u)
    BY RowsOf DEF Update, Statements, Values, Holds, Plain
  <2> HIDE DEF f, u
  <2>7. s = << >> \/ \E c, d \in Channels : s = <<f[c], f[d]>>
    <3>1. f \in [Channels -> Statements]
      BY <2>5 DEF f
    <3> QED
      BY <3>1, ListedStatements
  <2> HIDE DEF s
  <2>8. /\ s \in Seq(Statements) /\ Len(s) <= 2
        /\ \A i \in 1..Len(s) : Plain(s[i])
    <3>1. CASE s = << >>
      BY <3>1
    <3>2. ASSUME NEW c \in Channels, NEW d \in Channels, s = <<f[c], f[d]>>
          PROVE  /\ s \in Seq(Statements) /\ Len(s) <= 2
                 /\ \A i \in 1..Len(s) : Plain(s[i])
      <4>1. s \in Seq(Statements) /\ Len(s) = 2 /\ s[1] = f[c] /\ s[2] = f[d]
        BY <3>2, <2>5
      <4>2. \A i \in 1..2 : i = 1 \/ i = 2
        OBVIOUS
      <4> QED
        BY <4>1, <4>2, <2>5
    <3> QED
      BY <3>1, <3>2, <2>7
  <2>9. /\ h \in Seq(Statements) /\ Len(h) <= 1
        /\ \A i \in 1..Len(h) : Plain(h[i])
    BY <2>6
  <2> HIDE DEF h
  <2>10. /\ h \o s \in Seq(Statements) /\ Len(h \o s) = Len(h) + Len(s)
         /\ \A i \in 1..Len(h) + Len(s) :
               (h \o s)[i] = IF i <= Len(h) THEN h[i] ELSE s[i - Len(h)]
    BY <2>8, <2>9, ConcatProperties
  <2>11. Len(h \o s) <= 3 /\ \A i \in 1..Len(h \o s) : Plain((h \o s)[i])
    <3>1. Len(h) \in Nat /\ Len(s) \in Nat
      BY <2>8, <2>9, LenProperties
    <3>2. ASSUME NEW i \in 1..Len(h) + Len(s) PROVE Plain((h \o s)[i])
      <4>1. CASE i <= Len(h)
        BY <3>1, <4>1, <2>9, <2>10
      <4>2. CASE ~(i <= Len(h))
        <5>1. i - Len(h) \in 1..Len(s)
          BY <3>1, <4>2
        <5> QED
          BY <5>1, <4>2, <2>8, <2>10
      <4> QED
        BY <4>1, <4>2
    <3> QED
      BY <3>1, <3>2, <2>8, <2>9, <2>10
  <2> QED
    BY <2>4, <2>10, <2>11, PlainLists, GuardedStarts
<1>8. CASE Look(r, t)
  <2>1. CASE pc[r] = "idle" /\ Goto(r, "read") /\ UNCHANGED <<db, uses, writer, todo, at, revoked>>
    <3>1. todo[r] = << >> /\ at[r] = 0
      BY <2>1 DEF Progress, ProgressOf
    <3>2. todo = [todo EXCEPT ![r] = << >>] /\ at = [at EXCEPT ![r] = 0]
      BY <3>1 DEF TypeOK
    <3> QED
      BY <2>1, <3>2 DEF Goto, Stops
  <2> QED
    BY <1>8, <2>1, RefuseStops DEF Look
<1>9. ASSUME NEW k \in Ids, NEW c \in Channels, CreateTemplate(r, t, k, c)
      PROVE  Starts(r) \/ Stops(r)
  <2> DEFINE a == Insert(TemplateRow(t, r), c)
  <2>1. /\ a \in Statements /\ a.op = "insert" /\ a.value \in Holds(a.row)
        /\ a.row[1] = "notification_templates"
    BY <1>i, RowsOf DEF Insert, Statements, Values, Holds
  <2>2. Begin(r, <<a>>) \/ Refuse(r)
    BY <1>9 DEF CreateTemplate, Auth
  <2> QED
    BY <2>1, <2>2, StatementStarts, RefuseStops
<1>10. ASSUME NEW k \in Ids, NEW x \in Ids, NEW c \in Channels, UpdateTemplate(r, t, k, x, c)
       PROVE  Starts(r) \/ Stops(r)
  <2> DEFINE a == Update(TemplateRow(t, x), c)
  <2>1. /\ a \in Statements /\ a.op = "update" /\ a.value \in Holds(a.row)
        /\ a.row[1] = "notification_templates"
    BY RowsOf DEF Update, Statements, Values, Holds
  <2>2. Begin(r, <<a>>) \/ Refuse(r)
    BY <1>10 DEF UpdateTemplate, Auth
  <2> QED
    BY <2>1, <2>2, StatementStarts, RefuseStops
<1>11. ASSUME NEW k \in Ids, NEW x \in Ids, DeleteTemplate(r, t, k, x)
       PROVE  Starts(r) \/ Stops(r)
  <2> DEFINE a == Delete(TemplateRow(t, x))
  <2>1. a \in Statements /\ a.op = "delete" /\ a.row[1] = "notification_templates"
    BY RowsOf DEF Delete, Statements
  <2>2. Begin(r, <<a>>) \/ Refuse(r)
    BY <1>11 DEF DeleteTemplate, Auth
  <2> QED
    BY <2>1, <2>2, StatementStarts, RefuseStops
<1>12. ASSUME NEW k \in Ids, Receive(r, t, k) PROVE Starts(r) \/ Stops(r)
  <2>1. ASSUME NEW c \in Channels, NEW x \in {NoTemplate} \union TemplateRows,
               pc[r] = "idle",
               todo' = [todo EXCEPT ![r] = <<Insert(NotificationRow(t, r), c)>>],
               uses' = [uses EXCEPT ![r] = x],
               Goto(r, "enabled"),
               UNCHANGED <<db, writer, at, revoked>>
        PROVE  Starts(r)
    <3> DEFINE a == Insert(NotificationRow(t, r), c)
    <3>1. /\ a \in Statements /\ a.op = "insert" /\ a.value \in Holds(a.row)
          /\ a.row[1] = "notifications" /\ a.row = NotificationRow(Owner(a.row), r)
      BY RowsOf DEF Insert, Statements, Values, Holds
    <3>2. todo' = [todo EXCEPT ![r] = <<a>>]
      BY <2>1
    <3> HIDE DEF a
    <3>3. WellFormed(r, <<a>>) /\ <<a>> \in Seq(Statements) /\ <<a>>[1] = a /\ Len(<<a>>) = 1
      BY <3>1, SingleStatement
    <3> QED
      BY <2>1, <3>1, <3>2, <3>3 DEF Starts, Goto
  <2> QED
    BY <1>12, <2>1, RefuseStops DEF Receive
<1> QED
  BY <1>0, <1>1, <1>2, <1>3, <1>4, <1>5, <1>6, <1>7, <1>8, <1>9, <1>10, <1>11, <1>12

\* Every step is of one of these kinds, Postgres running a statement, or a crash.
LEMMA NextKinds ==
    ASSUME TypeOK, Progress, Next
    PROVE  \/ \E r \in Requests : \/ Starts(r) \/ Passes(r) \/ Stops(r)
                                  \/ Write(r) \/ Commits(r)
           \/ Crash
<1>1. ASSUME NEW r \in Requests, pc[r] \in {"enabled", "template"},
             Drop(r), UNCHANGED <<db, uses, writer, at, revoked>>
      PROVE  Stops(r)
  <2>1. at[r] = 0
    BY <1>1 DEF Progress, ProgressOf
  <2>2. at = [at EXCEPT ![r] = 0]
    BY <2>1 DEF TypeOK
  <2> QED
    BY <1>1, <2>2 DEF Drop, Answer, Goto, Stops
<1>2. ASSUME NEW r \in Requests, CheckChannel(r) PROVE Passes(r) \/ Stops(r)
  <2>1. CASE IsEnabled(Sender(r), Channel(r))
    <3>1. CASE uses[r] = NoTemplate
      BY <1>2, <2>1, <3>1 DEF CheckChannel, Goto, Passes
    <3>2. CASE uses[r] # NoTemplate
      BY <1>2, <2>1, <3>2 DEF CheckChannel, Goto, Passes
    <3> QED
      BY <3>1, <3>2
  <2>2. CASE ~IsEnabled(Sender(r), Channel(r))
    BY <1>1, <1>2, <2>2 DEF CheckChannel
  <2> QED
    BY <2>1, <2>2
<1>3. ASSUME NEW r \in Requests, ResolveTemplate(r) PROVE Passes(r) \/ Stops(r)
  <2> DEFINE found == GetTemplate(Sender(r), uses[r]) /\ db[uses[r]] = Channel(r)
  <2>1. CASE found
    <3>1. Owner(uses[r]) = Owner(todo[r][1].row)
      BY <2>1 DEF GetTemplate, Sender
    <3> QED
      BY <1>3, <2>1, <3>1 DEF ResolveTemplate, Goto, Passes
  <2>2. CASE ~found
    BY <1>1, <1>3, <2>2 DEF ResolveTemplate
  <2> QED
    BY <2>1, <2>2
<1>4. ASSUME NEW r \in Requests, NEW text, Rollback(r, text), UNCHANGED revoked
      PROVE  Stops(r)
  BY <1>4 DEF Rollback, Answer, Goto, Stops
<1>5. ASSUME NEW r \in Requests, Commit(r) PROVE Commits(r)
  <2>0. /\ WellFormed(r, todo[r]) /\ DOMAIN todo[r] = 1..Len(todo[r])
        /\ Len(todo[r]) \in Nat
    BY LenProperties DEF TypeOK, Progress, ProgressOf
  <2> DEFINE again == todo[r] = << >> \/ \E i \in DOMAIN todo[r] : todo[r][i].op = "upsert"
                                                                   \/ todo[r][i].value = "cap"
  <2>1. CASE again
    <3>1. ASSUME NEW j \in 1..Len(todo[r]), todo[r][j].row[1] = "notifications"
          PROVE  FALSE
      <4>1. /\ Len(todo[r]) = 1 /\ todo[r][j].op = "insert"
            /\ todo[r][j].value \in Holds(todo[r][j].row)
        BY <2>0, <3>1 DEF WellFormed
      <4>2. todo[r][j].value # "cap"
        BY <3>1, <4>1, TenantsAssumption DEF Holds
      <4>3. \A i \in DOMAIN todo[r] : i = j
        BY <2>0, <4>1
      <4> QED
        BY <2>1, <4>1, <4>2, <4>3
    <3> QED
      BY <1>5, <2>1, <3>1 DEF Commit, Goto, Commits
  <2>2. CASE ~again
    BY <1>5, <2>2 DEF Commit, Answer, Goto, Commits
  <2> QED
    BY <2>1, <2>2
<1>6. ASSUME NEW r \in Requests, Read(r) PROVE Stops(r)
  <2>1. todo[r] = << >> /\ at[r] = 0
    BY <1>6 DEF Read, Progress, ProgressOf
  <2>2. todo = [todo EXCEPT ![r] = << >>] /\ at = [at EXCEPT ![r] = 0]
    BY <2>1 DEF TypeOK
  <2> QED
    BY <1>6, <2>2 DEF Read, Answer, Goto, Stops
<1>7. ASSUME NEW r \in Requests, Step(r)
      PROVE  Passes(r) \/ Stops(r) \/ Write(r) \/ Commits(r)
  BY <1>2, <1>3, <1>4, <1>5, <1>6, <1>7 DEF Step, WriteRefused, DeadlockDetected
<1>8. ASSUME NEW r \in Requests, StatementFails(r) PROVE Stops(r)
  BY <1>4, <1>8 DEF StatementFails
<1>9. ASSUME NEW r \in Requests, NEW took \in BOOLEAN, CommitFails(r, took)
      PROVE  Stops(r) \/ Commits(r)
  <2>1. CASE took
    BY <1>9, <2>1 DEF CommitFails, Answer, Goto, Commits
  <2>2. CASE ~took
    BY <1>4, <1>9, <2>2 DEF CommitFails
  <2> QED
    BY <2>1, <2>2
<1> QED
  BY <1>7, <1>8, <1>9, HandlersStart DEF Next

\* A step of one request that runs no statement leaves it without locks, and the
\* others as they were.
LEMMA LocksReleased ==
    ASSUME TypeOK, Progress, NEW r \in Requests,
           Starts(r) \/ Passes(r) \/ Stops(r) \/ Commits(r)
    PROVE  /\ Locks(r)' = {} /\ Deleting(r)' = {} /\ Inserted(r)' = {}
           /\ \A q \in Requests \ {r} :
                 /\ pc'[q] = pc[q] /\ todo'[q] = todo[q] /\ at'[q] = at[q]
                 /\ Locks(q)' = Locks(q) /\ Deleting(q)' = Deleting(q)
                 /\ Inserted(q)' = Inserted(q)
<1>1. at'[r] = 0
  BY DEF Starts, Passes, Stops, Commits, Durable, Progress, ProgressOf, TypeOK
<1>2. ASSUME NEW q \in Requests, q # r
      PROVE  pc'[q] = pc[q] /\ todo'[q] = todo[q] /\ at'[q] = at[q]
  BY <1>2 DEF Starts, Passes, Stops, Commits, Durable, TypeOK
<1> QED
  BY <1>1, <1>2 DEF Locks, Deleting, Inserted

\* A statement adds its row.
LEMMA LocksTaken ==
    ASSUME TypeOK, Progress, NEW r \in Requests, Write(r)
    PROVE  LET s == Statement(r)
           IN  /\ s \in Statements
               /\ at[r] + 1 \in 1..Len(todo[r])
               /\ Locks(r)' = Locks(r) \union {s.row}
               /\ Deleting(r)' = IF s.op = "delete" THEN Deleting(r) \union {s.row} ELSE Deleting(r)
               /\ Inserted(r)' = IF s.op \in {"insert", "upsert"}
                                 THEN Inserted(r) \union {s.row} ELSE Inserted(r)
               /\ \A q \in Requests \ {r} :
                     /\ pc'[q] = pc[q] /\ todo'[q] = todo[q] /\ at'[q] = at[q]
                     /\ Locks(q)' = Locks(q) /\ Deleting(q)' = Deleting(q)
                     /\ Inserted(q)' = Inserted(q)
<1> DEFINE s == Statement(r)
<1>1. /\ at[r] \in 0..3 /\ at'[r] = at[r] + 1 /\ todo'[r] = todo[r]
      /\ at[r] < Len(todo[r]) /\ Len(todo[r]) \in Nat
      /\ todo[r] \in Seq(Statements)
  BY LenProperties DEF Write, TypeOK, Progress, ProgressOf
<1>2. at[r] + 1 \in 1..Len(todo[r])
  BY <1>1
<1>3. s \in Statements /\ s = todo[r][at[r] + 1]
  BY <1>1, <1>2, ElementOfSeq DEF Statement
<1>4. \A i : i \in 1..at'[r] <=> i \in 1..at[r] \/ i = at[r] + 1
  BY <1>1
<1> HIDE DEF s
<1>5. Locks(r)' = Locks(r) \union {s.row}
  BY <1>1, <1>3, <1>4 DEF Locks
<1>6. Deleting(r)' = IF s.op = "delete" THEN Deleting(r) \union {s.row} ELSE Deleting(r)
  BY <1>1, <1>3, <1>4 DEF Deleting
<1>7. Inserted(r)' = IF s.op \in {"insert", "upsert"}
                     THEN Inserted(r) \union {s.row} ELSE Inserted(r)
  BY <1>1, <1>3, <1>4 DEF Inserted
<1>8. ASSUME NEW q \in Requests, q # r
      PROVE  pc'[q] = pc[q] /\ todo'[q] = todo[q] /\ at'[q] = at[q]
  BY <1>8 DEF Write, Goto, TypeOK
<1>9. \A q \in Requests \ {r} : /\ Locks(q)' = Locks(q) /\ Deleting(q)' = Deleting(q)
                                /\ Inserted(q)' = Inserted(q)
  BY <1>8 DEF Locks, Deleting, Inserted
<1> QED
  BY <1>2, <1>3, <1>5, <1>6, <1>7, <1>8, <1>9 DEF s

\* The tables after a commit: what is gone, what was written, and the rest.
LEMMA TablesAfterCommit ==
    ASSUME TypeOK, Progress, NEW r \in Requests, Commits(r), NEW x \in Rows
    PROVE  /\ x \in Gone(r) => db'[x] = NoRow /\ ~Exists(x)'
           /\ x \notin Gone(r) /\ x \in Locks(r) =>
                 db'[x] \in Holds(x) /\ db'[x] \in Values /\ Exists(x)'
           /\ x \notin Gone(r) /\ x \notin Locks(r) =>
                 db'[x] = db[x] /\ (Exists(x)' <=> Exists(x))
<1>1. db'[x] = IF x \in Gone(r) THEN NoRow ELSE IF x \in Locks(r) THEN Written(r, x) ELSE db[x]
  BY DEF Commits, Durable
<1>2. ASSUME x \notin Gone(r), x \in Locks(r)
      PROVE  db'[x] \in Holds(x) /\ db'[x] \in Values /\ db'[x] # NoRow
  <2>1. Deleting(r) = {}
    BY <1>2, LocksAreRows, GoneRows
  <2> QED
    BY <1>1, <1>2, <2>1, WrittenHolds
<1> QED
  BY <1>1, <1>2 DEF Exists

\* What a transaction that goes on did not have to wait for.
LEMMA WriteNotBlocked ==
    ASSUME NEW r \in Requests, Write(r), NEW q \in Requests, q # r
    PROVE  /\ Statement(r).row \notin Locks(q)
           /\ Statement(r).op = "delete" => Statement(r).row \notin Shares(q)
           /\ Statement(r).op \in {"insert", "upsert"} /\ ~Exists(Statement(r).row) =>
                 Parents(r, Statement(r).row) \intersect Deleting(q) = {}
<1>1. ~Waits(r, q) /\ pc[r] = "write"
  BY DEF Write, Blocked
<1> QED
  BY <1>1 DEF Waits

LEMMA CommitNotBlocked ==
    ASSUME NEW r \in Requests, Commits(r), NEW q \in Requests, q # r
    PROVE  Gone(r) \intersect Locks(q) = {}
<1>1. ~Waits(r, q) /\ pc[r] = "commit"
  BY DEF Commits, Blocked
<1> QED
  BY <1>1 DEF Waits

-----------------------------------------------------------------------------
\* Types and progress.

LEMMA AnswersHaveType ==
    ASSUME TypeOK, Next
    PROVE  /\ reply' \in [Requests -> {"none", "ok", "refused", "error", "lost"}]
           /\ faults' \in 0..MaxFaults
<1> DEFINE Answers == {"none", "ok", "refused", "error", "lost"}
           P == reply' \in [Requests -> Answers] /\ faults' \in 0..MaxFaults
<1>0. reply \in [Requests -> Answers] /\ faults \in 0..MaxFaults
  BY DEF TypeOK
<1>1. ASSUME NEW r \in Requests, NEW text \in Answers, Answer(r, text)
      PROVE  reply' \in [Requests -> Answers]
  BY <1>0, <1>1 DEF Answer
<1>2. ASSUME Fault PROVE faults' \in 0..MaxFaults
  BY <1>0, <1>2, TenantsAssumption DEF Fault
<1> HIDE DEF Answers
<1>3. ASSUME UNCHANGED <<reply, faults>> PROVE P
  BY <1>0, <1>3
<1>4. {"ok", "refused", "error", "lost"} \subseteq Answers
  BY DEF Answers
<1>5. ASSUME NEW r \in Requests, Refuse(r) PROVE P
  BY <1>0, <1>1, <1>4, <1>5 DEF Refuse
<1>6. ASSUME NEW r \in Requests, Handle(r) PROVE P
  <2> DEFINE Q == Refuse(r) \/ UNCHANGED <<reply, faults>>
  <2>1. PICK t \in Tenants :
          \/ Create(r, t) \/ UpdateTenant(r, t) \/ DeleteTenant(r, t)
          \/ CreateKey(r, t) \/ \E k \in Ids : DeleteKey(r, t, k)
          \/ \E chs \in Lists, b \in BOOLEAN : UpdateChannels(r, t, chs, b)
          \/ \E chs \in Lists, b \in BOOLEAN : UpdateRateLimits(r, t, b, chs)
          \/ Look(r, t)
          \/ \E k \in Ids, c \in Channels : CreateTemplate(r, t, k, c)
          \/ \E k, x \in Ids, c \in Channels : UpdateTemplate(r, t, k, x, c)
          \/ \E k, x \in Ids : DeleteTemplate(r, t, k, x)
          \/ \E k \in Ids : Receive(r, t, k)
    BY <1>6 DEF Handle
  <2>2. ASSUME Create(r, t) \/ UpdateTenant(r, t) \/ DeleteTenant(r, t)
        PROVE  Q
    BY <2>2 DEF Create, UpdateTenant, DeleteTenant, Begin
  <2>3. ASSUME CreateKey(r, t) \/ \E k \in Ids : DeleteKey(r, t, k)
        PROVE  Q
    BY <2>3 DEF CreateKey, DeleteKey, IfTenant, Begin
  <2>4. ASSUME \E chs \in Lists, b \in BOOLEAN : UpdateChannels(r, t, chs, b)
        PROVE  Q
    BY <2>4 DEF UpdateChannels, IfTenant, Begin
  <2>5. ASSUME \E chs \in Lists, b \in BOOLEAN : UpdateRateLimits(r, t, b, chs)
        PROVE  Q
    BY <2>5 DEF UpdateRateLimits, IfTenant, Begin
  <2>6. ASSUME Look(r, t)
        PROVE  Q
    BY <2>6 DEF Look
  <2>7. ASSUME \E k \in Ids, c \in Channels : CreateTemplate(r, t, k, c)
        PROVE  Q
    BY <2>7 DEF CreateTemplate, Auth, Begin
  <2>8. ASSUME \E k, x \in Ids, c \in Channels : UpdateTemplate(r, t, k, x, c)
        PROVE  Q
    BY <2>8 DEF UpdateTemplate, Auth, Begin
  <2>9. ASSUME \E k, x \in Ids : DeleteTemplate(r, t, k, x)
        PROVE  Q
    BY <2>9 DEF DeleteTemplate, Auth, Begin
  <2>10. ASSUME \E k \in Ids : Receive(r, t, k)
         PROVE  Q
    BY <2>10 DEF Receive
  <2>11. Q
    BY <2>1, <2>2, <2>3, <2>4, <2>5, <2>6, <2>7, <2>8, <2>9, <2>10
  <2> QED
    BY <1>3, <1>5, <2>11
<1>7. ASSUME NEW r \in Requests, Step(r) PROVE P
  <2>1. /\ UNCHANGED faults
        /\ \/ UNCHANGED reply
           \/ \E text \in {"ok", "refused", "error"} : Answer(r, text)
    BY <1>7 DEF Step, CheckChannel, ResolveTemplate, Drop, Write, WriteRefused, DeadlockDetected,
                Rollback, Commit, Read
  <2> QED
    BY <1>0, <1>1, <1>4, <2>1
<1>8. ASSUME NEW r \in Requests, StatementFails(r) PROVE P
  BY <1>1, <1>2, <1>4, <1>8 DEF StatementFails, Rollback
<1>9. ASSUME NEW r \in Requests, NEW took \in BOOLEAN, CommitFails(r, took) PROVE P
  <2>1. Fault /\ Answer(r, "error")
    BY <1>9 DEF CommitFails, Rollback
  <2> QED
    BY <1>1, <1>2, <1>4, <2>1
<1>10. ASSUME Crash PROVE P
  BY <1>0, <1>2, <1>4, <1>10 DEF Crash
<1>11. P
  BY <1>6, <1>7, <1>8, <1>9, <1>10 DEF Next
<1> QED
  BY <1>11 DEF Answers

LEMMA TenantsKeepType ==
    ASSUME TypeOK, Progress, Next
    PROVE  TypeOK'
<1> DEFINE DbType == db \in [Rows -> Values \union {NoRow}]
                     /\ \A x \in Rows : Exists(x) => db[x] \in Holds(x)
           UsesType == uses \in [Requests -> {NoTemplate} \union TemplateRows]
           WriterType == writer \in [Rows -> {"nobody"} \union Requests]
           PcType == pc \in [Requests -> {"idle", "enabled", "template", "write", "commit",
                                          "read", "done"}]
           TodoType == todo \in [Requests -> Seq(Statements)]
           AtType == /\ at \in [Requests -> 0..3]
                     /\ \A r \in Requests : at[r] <= Len(todo[r]) /\ Len(todo[r]) <= 3
           P == DbType /\ UsesType /\ WriterType /\ PcType /\ TodoType /\ AtType
                /\ revoked \subseteq Tenants
<1>0. P
  BY DEF TypeOK
<1>e. << >> \in Seq(Statements) /\ Len(<< >>) = 0
  BY EmptySeq
<1>1. ASSUME NEW r \in Requests, Starts(r) PROVE P'
  <2>1. PICK s \in Seq(Statements) : WellFormed(r, s) /\ todo' = [todo EXCEPT ![r] = s]
    BY <1>1 DEF Starts
  <2>2. at[r] = 0 /\ at' = at /\ Len(s) <= 3 /\ Len(s) \in Nat
    BY <1>1, <2>1, LenProperties DEF Starts, Progress, ProgressOf, WellFormed
  <2>3. TodoType' /\ AtType'
    BY <1>0, <2>1, <2>2
  <2>4. UsesType'
    BY <1>0, <1>1 DEF Starts
  <2>5. PcType'
    BY <1>0, <1>1 DEF Starts
  <2>6. DbType' /\ WriterType' /\ (revoked \subseteq Tenants)'
    BY <1>0, <1>1 DEF Starts, Exists
  <2> QED
    BY <2>3, <2>4, <2>5, <2>6
<1>2. ASSUME NEW r \in Requests, Passes(r) PROVE P'
  BY <1>0, <1>2 DEF Passes, Exists
<1>3. ASSUME NEW r \in Requests, Stops(r) PROVE P'
  <2>1. TodoType' /\ AtType'
    BY <1>0, <1>3, <1>e DEF Stops
  <2>2. PcType'
    BY <1>0, <1>3 DEF Stops
  <2> QED
    BY <1>0, <1>3, <2>1, <2>2 DEF Stops, Exists
<1>4. ASSUME NEW r \in Requests, Write(r) PROVE P'
  <2>1. at[r] < Len(todo[r]) /\ Len(todo[r]) \in Nat /\ Len(todo[r]) <= 3
    BY <1>0, <1>4, LenProperties DEF Write, Progress, ProgressOf
  <2>2. at' = [at EXCEPT ![r] = at[r] + 1] /\ todo' = todo
    BY <1>4 DEF Write
  <2>3. TodoType' /\ AtType'
    <3>1. at[r] + 1 \in 0..3 /\ at[r] + 1 <= Len(todo[r])
      BY <1>0, <2>1, SMTT(30)
    <3> QED
      BY <1>0, <2>2, <3>1
  <2>4. PcType'
    BY <1>0, <1>4 DEF Write, Goto
  <2> QED
    BY <1>0, <1>4, <2>3, <2>4 DEF Write, Exists
<1>5. ASSUME NEW r \in Requests, Commits(r) PROVE P'
  <2>1. TodoType' /\ AtType'
    BY <1>0, <1>5, <1>e DEF Commits, Durable
  <2>2. PcType'
    BY <1>0, <1>5 DEF Commits
  <2>3. UsesType' /\ WriterType'
    BY <1>0, <1>5 DEF Commits, Durable
  <2>4. DbType'
    <3>1. \A x \in Rows : db'[x] \in Values \union {NoRow} /\ (Exists(x)' => db'[x] \in Holds(x))
      BY <1>0, <1>5, TablesAfterCommit DEF Exists
    <3>2. db' = [x \in Rows |-> db'[x]]
      BY <1>5 DEF Commits, Durable
    <3> QED
      BY <3>1, <3>2
  <2>5. (revoked \subseteq Tenants)'
    <3>1. \A y \in Deleting(r) : Owner(y) \in Tenants
      BY LocksAreRows, RowKinds
    <3> QED
      BY <1>0, <1>5, <3>1 DEF Commits, Durable
  <2> QED
    BY <2>1, <2>2, <2>3, <2>4, <2>5
<1>6. ASSUME Crash PROVE P'
  <2>1. TodoType' /\ AtType'
    BY <1>0, <1>6, <1>e DEF Crash
  <2>2. PcType'
    BY <1>0, <1>6 DEF Crash
  <2> QED
    BY <1>0, <1>6, <2>1, <2>2 DEF Crash, Exists
<1>7. P'
  <2> HIDE DEF P
  <2> QED
    BY <1>1, <1>2, <1>3, <1>4, <1>5, <1>6, NextKinds
<1> QED
  BY <1>7, AnswersHaveType DEF TypeOK

LEMMA TenantsKeepProgress ==
    ASSUME TypeOK, Progress, Next
    PROVE  Progress'
<1>e. \A r \in Requests : WellFormed(r, << >>)
  <2>1. << >> \in Seq(Statements) /\ Len(<< >>) = 0
    BY EmptySeq
  <2> QED
    BY <2>1 DEF WellFormed
<1>q. ASSUME NEW q \in Requests, pc'[q] = pc[q], todo'[q] = todo[q], at'[q] = at[q]
      PROVE  ProgressOf(q)'
  <2>1. ProgressOf(q)
    BY DEF Progress
  <2> QED
    BY <1>q, <2>1 DEF ProgressOf
<1>1. ASSUME NEW r \in Requests, Starts(r) PROVE ProgressOf(r)'
  <2>0. at'[r] = 0
    BY <1>1 DEF Starts, Progress, ProgressOf
  <2>1. PICK s \in Seq(Statements) :
          /\ WellFormed(r, s)
          /\ todo' = [todo EXCEPT ![r] = s]
          /\ \/ s = << >> /\ pc' = [pc EXCEPT ![r] = "commit"]
             \/ s # << >> /\ pc' = [pc EXCEPT ![r] = "write"]
             \/ /\ Len(s) = 1 /\ s[1].row[1] = "notifications"
                /\ pc' = [pc EXCEPT ![r] = "enabled"]
    BY <1>1 DEF Starts
  <2>2. todo'[r] = s
    BY <2>1 DEF TypeOK
  <2>3. CASE s = << >> /\ pc' = [pc EXCEPT ![r] = "commit"]
    <3>1. pc'[r] = "commit" /\ Len(s) = 0
      BY <2>3, EmptySeq DEF TypeOK
    <3> QED
      BY <2>0, <2>1, <2>2, <3>1 DEF ProgressOf
  <2>4. CASE s # << >> /\ pc' = [pc EXCEPT ![r] = "write"]
    <3>1. pc'[r] = "write" /\ Len(s) \in Nat \ {0}
      BY <2>4, EmptySeq DEF TypeOK
    <3> QED
      BY <2>0, <2>1, <2>2, <3>1 DEF ProgressOf
  <2>5. CASE /\ Len(s) = 1 /\ s[1].row[1] = "notifications"
             /\ pc' = [pc EXCEPT ![r] = "enabled"]
    <3>1. pc'[r] = "enabled"
      BY <2>5 DEF TypeOK
    <3> QED
      BY <2>0, <2>1, <2>2, <2>5, <3>1 DEF ProgressOf
  <2> QED
    BY <2>1, <2>3, <2>4, <2>5
<1>2. ASSUME NEW r \in Requests, Passes(r) PROVE ProgressOf(r)'
  <2>1. pc'[r] \in {"template", "write"} /\ todo' = todo /\ at' = at
    BY <1>2 DEF Passes, TypeOK
  <2>2. ProgressOf(r) /\ pc[r] \in {"enabled", "template"}
    BY <1>2 DEF Passes, Progress
  <2> QED
    BY <2>1, <2>2 DEF ProgressOf
<1>3. ASSUME NEW r \in Requests, Stops(r) \/ Commits(r) PROVE ProgressOf(r)'
  <2>1. pc'[r] \in {"read", "done"} /\ todo'[r] = << >> /\ at'[r] = 0
    BY <1>3, SMTT(30) DEF Stops, Commits, Durable, TypeOK
  <2> QED
    BY <1>e, <2>1 DEF ProgressOf
<1>4. ASSUME NEW r \in Requests, Write(r) PROVE ProgressOf(r)'
  <2>1. ProgressOf(r) /\ at[r] \in Nat /\ Len(todo[r]) \in Nat /\ pc[r] = "write"
    BY <1>4, LenProperties DEF Write, Progress, TypeOK
  <2>2. /\ at'[r] = at[r] + 1 /\ todo'[r] = todo[r]
        /\ pc'[r] = IF at'[r] = Len(todo[r]) THEN "commit" ELSE "write"
    BY <1>4 DEF Write, Goto, TypeOK
  <2>3. WellFormed(r, todo'[r]) /\ at[r] < Len(todo[r])
    BY <2>1, <2>2 DEF ProgressOf
  <2>4. /\ pc'[r] \in {"write", "commit"}
        /\ pc'[r] = "write" => at'[r] < Len(todo'[r])
        /\ pc'[r] = "commit" => at'[r] = Len(todo'[r])
    BY <2>1, <2>2, <2>3
  <2> HIDE DEF WellFormed
  <2> QED
    BY <2>3, <2>4 DEF ProgressOf
<1>5. ASSUME Crash PROVE Progress'
  <2>1. \A r \in Requests : pc'[r] \in {"idle", "done"} /\ todo'[r] = << >> /\ at'[r] = 0
    BY <1>5 DEF Crash
  <2> QED
    BY <1>e, <2>1 DEF Progress, ProgressOf
<1> QED
  BY <1>1, <1>2, <1>3, <1>4, <1>5, <1>q, NextKinds, LocksReleased, LocksTaken DEF Progress

-----------------------------------------------------------------------------
\* Locks.

LEMMA TenantsKeepLocksDisjoint ==
    ASSUME TypeOK, Progress, LocksAreDisjoint, Next
    PROVE  LocksAreDisjoint'
<1>1. ASSUME NEW r \in Requests, Starts(r) \/ Passes(r) \/ Stops(r) \/ Commits(r)
      PROVE  LocksAreDisjoint'
  BY <1>1, LocksReleased DEF LocksAreDisjoint
<1>2. ASSUME NEW r \in Requests, Write(r) PROVE LocksAreDisjoint'
  <2>1. /\ Locks(r)' = Locks(r) \union {Statement(r).row}
        /\ \A q \in Requests \ {r} : Locks(q)' = Locks(q)
    BY <1>2, LocksTaken
  <2>2. \A q \in Requests \ {r} : Statement(r).row \notin Locks(q)
    BY <1>2, WriteNotBlocked
  <2> QED
    BY <2>1, <2>2 DEF LocksAreDisjoint
<1>3. ASSUME Crash PROVE LocksAreDisjoint'
  <2>1. \A q \in Requests : Locks(q)' = {}
    BY <1>3 DEF Crash, Locks
  <2> QED
    BY <2>1 DEF LocksAreDisjoint
<1> QED
  BY <1>1, <1>2, <1>3, NextKinds

\* What row y, inserted by r, refers to: rows, its tenant first, and its template only
\* when it is a notification.
LEMMA ParentRows ==
    ASSUME TypeOK, NEW r \in Requests, NEW y \in Rows
    PROVE  /\ Parents(r, y) \subseteq Rows
           /\ y[1] # "tenants" => TenantRow(Owner(y)) \in Parents(r, y)
           /\ \A p \in Parents(r, y) :
                 \/ p = TenantRow(Owner(y))
                 \/ p = uses[r] /\ uses[r] # NoTemplate /\ y[1] = "notifications"
           /\ y[1] = "notifications" /\ uses[r] # NoTemplate => uses[r] \in Parents(r, y)
<1>1. Owner(y) \in Tenants /\ TenantRow(Owner(y)) \in Rows
  BY RowKinds, RowsOf
<1>2. uses[r] # NoTemplate => uses[r] \in Rows
  BY DEF TypeOK, Rows
<1> QED
  BY <1>1, <1>2 DEF Parents

\* A Send that holds a lock holds that of its own notification.
LEMMA SenderLocks ==
    ASSUME TypeOK, Progress, TemplatesAreOwn, NEW r \in Requests, NEW y \in Locks(r),
           y[1] = "notifications", uses[r] # NoTemplate
    PROVE  Owner(uses[r]) = Owner(y) /\ y = NotificationRow(Owner(y), r)
<1>1. PICK i \in 1..at[r] : y = todo[r][i].row
  BY DEF Locks
<1>2. /\ at[r] \in 0..3 /\ at[r] <= Len(todo[r]) /\ Len(todo[r]) \in Nat
      /\ WellFormed(r, todo[r]) /\ Locks(r) # {}
  BY LenProperties DEF TypeOK, Progress, ProgressOf
<1>3. i \in 1..Len(todo[r])
  BY <1>1, <1>2
<1>4. Len(todo[r]) = 1 /\ y = NotificationRow(Owner(y), r)
  BY <1>1, <1>2, <1>3 DEF WellFormed
<1>5. i = 1 /\ todo[r] # << >>
  BY <1>3, <1>4, EmptySeq
<1>6. pc[r] \in {"write", "commit"}
  BY <1>2, LocksAreRows
<1> QED
  BY <1>1, <1>4, <1>5, <1>6 DEF TemplatesAreOwn

LEMMA TenantsKeepParents ==
    ASSUME TypeOK, Progress, LocksAreDisjoint, ParentsAreHeld, TemplatesAreOwn, Next
    PROVE  ParentsAreHeld'
<1> DEFINE Kept(r, y) ==
      /\ y \in Inserted(r)
      /\ \A p \in Parents(r, y) :
            /\ Exists(p) \/ p \in Locks(r)
            /\ \A q \in Requests : q # r => p \notin Deleting(q)
<1>0. ASSUME NEW r \in Requests, NEW y \in Locks(r) \ Deleting(r), ~Exists(y)
      PROVE  Kept(r, y)
  BY <1>0 DEF ParentsAreHeld
<1>1. ASSUME NEW r \in Requests, Starts(r) \/ Passes(r) \/ Stops(r) PROVE ParentsAreHeld'
  <2> SUFFICES ASSUME NEW q \in Requests, NEW y \in Locks(q)' \ Deleting(q)', ~Exists(y)'
               PROVE  Kept(q, y)'
    BY DEF ParentsAreHeld
  <2>1. /\ Locks(r)' = {} /\ Deleting(r)' = {}
        /\ \A u \in Requests \ {r} : /\ Locks(u)' = Locks(u) /\ Deleting(u)' = Deleting(u)
                                     /\ Inserted(u)' = Inserted(u)
    BY <1>1, LocksReleased
  <2>2. q # r /\ y \in Locks(q) \ Deleting(q)
    BY <2>1
  <2>3. db' = db /\ uses'[q] = uses[q]
    BY <1>1, <2>2 DEF Starts, Passes, Stops, TypeOK
  <2>4. \A x : Exists(x)' <=> Exists(x)
    BY <2>3 DEF Exists
  <2>5. Parents(q, y)' = Parents(q, y)
    BY <2>3 DEF Parents
  <2>6. Kept(q, y)
    BY <1>0, <2>2, <2>4
  <2> QED
    BY <2>1, <2>2, <2>4, <2>5, <2>6
<1>2. ASSUME NEW r \in Requests, Write(r) PROVE ParentsAreHeld'
  <2> SUFFICES ASSUME NEW q \in Requests, NEW y \in Locks(q)' \ Deleting(q)', ~Exists(y)'
               PROVE  Kept(q, y)'
    BY DEF ParentsAreHeld
  <2> DEFINE s == Statement(r)
  <2>1. /\ s \in Statements
        /\ Locks(r)' = Locks(r) \union {s.row}
        /\ Deleting(r)' = IF s.op = "delete" THEN Deleting(r) \union {s.row} ELSE Deleting(r)
        /\ Inserted(r)' = IF s.op \in {"insert", "upsert"}
                          THEN Inserted(r) \union {s.row} ELSE Inserted(r)
        /\ \A u \in Requests \ {r} : /\ Locks(u)' = Locks(u) /\ Deleting(u)' = Deleting(u)
                                     /\ Inserted(u)' = Inserted(u)
    BY <1>2, LocksTaken
  <2>2. db' = db /\ uses' = uses /\ ~Impossible(r)
    BY <1>2 DEF Write
  <2>3. /\ \A x : Exists(x)' <=> Exists(x)
        /\ \A u, x : Parents(u, x)' = Parents(u, x)
    BY <2>2 DEF Exists, Parents
  <2> HIDE DEF s
  <2>4. CASE q # r
    <3>1. y \in Locks(q) \ Deleting(q) /\ ~Exists(y)
      BY <2>1, <2>3, <2>4
    <3>2. Kept(q, y)
      BY <1>0, <3>1
    <3>3. s.op = "delete" => s.row \notin Parents(q, y)
      <4>1. Parents(q, y) \subseteq Shares(q)
        BY <3>1 DEF Shares
      <4> QED
        BY <1>2, <2>4, <4>1, WriteNotBlocked DEF s
    <3> QED
      BY <2>1, <2>3, <2>4, <3>2, <3>3
  <2>5. CASE q = r /\ y \in Locks(r)
    <3>1. y \notin Deleting(r) /\ ~Exists(y)
      BY <2>1, <2>3, <2>5
    <3>2. Kept(r, y)
      BY <1>0, <2>5, <3>1
    <3> QED
      BY <2>1, <2>3, <2>5, <3>2
  <2>6. CASE q = r /\ y \notin Locks(r)
    <3>1. y = s.row /\ s.op # "delete" /\ ~Exists(s.row) /\ s.row \notin Locks(r)
      BY <2>1, <2>3, <2>6
    <3>2. /\ s.op \in {"insert", "upsert"}
          /\ \A p \in Parents(r, s.row) : Exists(p) \/ p \in Locks(r)
      <4>1. s.op \in {"insert", "upsert", "update"}
        BY <2>1, <3>1 DEF Statements
      <4>2. s.op # "update"
        BY <2>2, <3>1 DEF Impossible, s
      <4>3. CASE s.op = "insert"
        BY <2>2, <3>1, <4>3 DEF Impossible, s
      <4>4. CASE s.op = "upsert"
        BY <2>2, <3>1, <4>4 DEF Impossible, s
      <4> QED
        BY <4>1, <4>2, <4>3, <4>4
    <3>3. \A u \in Requests : u # r => Parents(r, s.row) \intersect Deleting(u) = {}
      BY <1>2, <3>1, <3>2, WriteNotBlocked DEF s
    <3> QED
      BY <2>1, <2>3, <2>6, <3>1, <3>2, <3>3
  <2> QED
    BY <2>4, <2>5, <2>6
<1>3. ASSUME NEW r \in Requests, Commits(r) PROVE ParentsAreHeld'
  <2> SUFFICES ASSUME NEW q \in Requests, NEW y \in Locks(q)' \ Deleting(q)', ~Exists(y)'
               PROVE  Kept(q, y)'
    BY DEF ParentsAreHeld
  <2>1. /\ Locks(r)' = {} /\ Deleting(r)' = {}
        /\ \A u \in Requests \ {r} :
              /\ pc'[u] = pc[u] /\ Locks(u)' = Locks(u) /\ Deleting(u)' = Deleting(u)
              /\ Inserted(u)' = Inserted(u)
    BY <1>3, LocksReleased
  <2>2. q # r /\ y \in Locks(q) /\ y \notin Deleting(q) /\ y \in Rows
    BY <2>1, LocksAreRows
  <2>3. y \notin Gone(r) /\ y \notin Locks(r)
    BY <1>3, <2>2, CommitNotBlocked DEF LocksAreDisjoint
  <2>4. ~Exists(y)
    BY <1>3, <2>2, <2>3, TablesAfterCommit
  <2>5. Kept(q, y)
    BY <1>0, <2>2, <2>4
  <2>6. Parents(q, y)' = Parents(q, y)
    <3>1. pc[q] # "done"
      BY <2>2, LocksAreRows
    <3>2. uses'[q] = uses[q]
      BY <1>3, <3>1 DEF Commits, Durable
    <3> QED
      BY <3>2 DEF Parents
  <2>7. ASSUME NEW p \in Parents(q, y) PROVE p \notin Gone(r)
    <3>1. p \in Rows /\ p \notin Deleting(r)
      BY <2>2, <2>5, <2>7, ParentRows
    <3>2. ASSUME p \in Gone(r) PROVE FALSE
      <4>1. TenantRow(Owner(p)) \in Deleting(r)
        BY <3>1, <3>2, GoneRows
      <4>2. Owner(p) = Owner(y)
        <5>1. CASE p = TenantRow(Owner(y))
          BY <2>2, <5>1, RowKinds, RowsOf
        <5>2. CASE p = uses[q] /\ uses[q] # NoTemplate /\ y[1] = "notifications"
          BY <2>2, <5>2, SenderLocks
        <5> QED
          BY <2>2, <2>7, <5>1, <5>2, ParentRows, SMTT(30)
      <4>3. y[1] # "tenants"
        BY <2>7 DEF Parents
      <4>4. TenantRow(Owner(y)) \in Parents(q, y)
        BY <2>2, <4>3, ParentRows
      <4> QED
        BY <2>2, <2>5, <4>1, <4>2, <4>4
    <3> QED
      BY <3>2
  <2>8. ASSUME NEW p \in Parents(q, y), Exists(p) PROVE Exists(p)'
    <3>1. p \in Rows
      BY <2>2, ParentRows
    <3> QED
      BY <1>3, <2>7, <2>8, <3>1, TablesAfterCommit
  <2> QED
    BY <2>1, <2>2, <2>5, <2>6, <2>8
<1>4. ASSUME Crash PROVE ParentsAreHeld'
  <2>1. \A q \in Requests : Locks(q)' = {}
    BY <1>4 DEF Crash, Locks
  <2> QED
    BY <2>1 DEF ParentsAreHeld
<1> QED
  BY <1>1, <1>2, <1>3, <1>4, NextKinds

LEMMA TenantsKeepOwnTemplates ==
    ASSUME TypeOK, Progress, TemplatesAreOwn, Next
    PROVE  TemplatesAreOwn'
<1> DEFINE Own(r) ==
      pc[r] \in {"write", "commit"} /\ uses[r] # NoTemplate /\ todo[r] # << >>
          /\ todo[r][1].row[1] = "notifications"
      => Owner(uses[r]) = Owner(todo[r][1].row)
<1>0. \A r \in Requests : Own(r)
  BY DEF TemplatesAreOwn
<1>q. ASSUME NEW q \in Requests, pc'[q] = pc[q], todo'[q] = todo[q],
             pc[q] = "done" \/ uses'[q] = uses[q]
      PROVE  Own(q)'
  BY <1>0, <1>q
<1>1. ASSUME NEW r \in Requests, Starts(r), NEW q \in Requests PROVE Own(q)'
  <2>1. CASE q # r
    <3>1. uses'[q] = uses[q]
      BY <1>1, <2>1 DEF Starts, TypeOK
    <3> QED
      BY <1>1, <1>q, <2>1, <3>1, LocksReleased
  <2>2. CASE q = r
    <3>1. \/ todo'[r] = << >>
          \/ todo'[r][1].row[1] # "notifications"
          \/ pc'[r] = "enabled"
      BY <1>1 DEF Starts, TypeOK
    <3> QED
      BY <2>2, <3>1
  <2> QED
    BY <2>1, <2>2
<1>2. ASSUME NEW r \in Requests, Passes(r), NEW q \in Requests PROVE Own(q)'
  <2>1. CASE q # r
    <3>1. uses'[q] = uses[q]
      BY <1>2 DEF Passes
    <3> QED
      BY <1>2, <1>q, <2>1, <3>1, LocksReleased
  <2>2. CASE q = r
    BY <1>2, <2>2 DEF Passes, TypeOK
  <2> QED
    BY <2>1, <2>2
<1>3. ASSUME NEW r \in Requests, Stops(r) \/ Commits(r), NEW q \in Requests PROVE Own(q)'
  <2>1. CASE q # r
    <3>1. pc[q] = "done" \/ uses'[q] = uses[q]
      BY <1>3 DEF Stops, Commits, Durable
    <3> QED
      BY <1>3, <1>q, <2>1, <3>1, LocksReleased
  <2>2. CASE q = r
    BY <1>3, <2>2 DEF Stops, Commits, TypeOK
  <2> QED
    BY <2>1, <2>2
<1>4. ASSUME NEW r \in Requests, Write(r), NEW q \in Requests PROVE Own(q)'
  <2>1. uses' = uses /\ todo' = todo /\ pc[r] = "write"
    BY <1>4 DEF Write
  <2>2. pc'[q] = pc[q] \/ q = r
    BY <1>4, LocksTaken
  <2> QED
    BY <1>0, <2>1, <2>2
<1>5. ASSUME Crash, NEW q \in Requests PROVE Own(q)'
  BY <1>5 DEF Crash
<1>6. \A q \in Requests : Own(q)'
  <2> HIDE DEF Own
  <2> QED
    BY <1>1, <1>2, <1>3, <1>4, <1>5, NextKinds
<1> QED
  BY <1>6 DEF TemplatesAreOwn

\* A notification is only written by its own request.
LEMMA NotificationLocks ==
    ASSUME TypeOK, Progress, NEW r \in Requests, NEW y \in Locks(r), y[1] = "notifications"
    PROVE  /\ \E i \in 1..Len(todo[r]) : todo[r][i].row = y
           /\ y = NotificationRow(Owner(y), r)
           /\ Deleting(r) = {}
<1>1. PICK i \in 1..at[r] : y = todo[r][i].row
  BY DEF Locks
<1>2. /\ at[r] \in 0..3 /\ at[r] <= Len(todo[r]) /\ Len(todo[r]) \in Nat
      /\ WellFormed(r, todo[r])
  BY LenProperties DEF TypeOK, Progress, ProgressOf
<1>3. i \in 1..Len(todo[r])
  BY <1>1, <1>2
<1>4. y = NotificationRow(Owner(y), r) /\ Len(todo[r]) = 1 /\ todo[r][i].op = "insert"
  BY <1>1, <1>2, <1>3 DEF WellFormed
<1>5. y \in Inserted(r)
  BY <1>1, <1>4 DEF Inserted
<1>6. Deleting(r) = {}
  BY <1>5, LocksAreRows
<1> QED
  BY <1>1, <1>3, <1>4, <1>6

LEMMA TenantsKeepWriters ==
    ASSUME TypeOK, Progress, WritersAreThrough, Next
    PROVE  WritersAreThrough'
<1> DEFINE A(q) == \A x \in Rows : writer[x] = q => pc[q] \in {"read", "done"}
           B(q) == \A t \in Tenants : Exists(NotificationRow(t, q)) => pc[q] = "done"
<1>0. \A q \in Requests : A(q) /\ B(q)
  BY DEF WritersAreThrough
<1>1. ASSUME NEW q \in Requests, db' = db, writer' = writer,
             \/ pc'[q] = pc[q]
             \/ pc'[q] = "done"
             \/ pc[q] \notin {"read", "done"}
      PROVE  A(q)' /\ B(q)'
  BY <1>0, <1>1 DEF Exists
<1>2. ASSUME NEW r \in Requests, Starts(r) \/ Passes(r) \/ Stops(r), NEW q \in Requests
      PROVE  A(q)' /\ B(q)'
  <2>1. db' = db /\ writer' = writer
    BY <1>2 DEF Starts, Passes, Stops
  <2>2. q # r => pc'[q] = pc[q]
    BY <1>2, LocksReleased
  <2>3. pc'[r] = "done" \/ pc[r] \in {"idle", "enabled", "template"}
    BY <1>2 DEF Starts, Passes, Stops, TypeOK
  <2> QED
    BY <1>1, <2>1, <2>2, <2>3
<1>3. ASSUME NEW r \in Requests, Write(r), NEW q \in Requests PROVE A(q)' /\ B(q)'
  <2>1. db' = db /\ writer' = writer /\ pc[r] = "write"
    BY <1>3 DEF Write
  <2>2. q # r => pc'[q] = pc[q]
    BY <1>3, LocksTaken
  <2> QED
    BY <1>1, <2>1, <2>2
<1>4. ASSUME NEW r \in Requests, Commits(r), NEW q \in Requests PROVE A(q)' /\ B(q)'
  <2>0. /\ pc[r] = "commit" /\ pc'[r] \in {"read", "done"}
        /\ \A x \in Rows : writer'[x] = IF x \in Locks(r) THEN r ELSE writer[x]
    BY <1>4 DEF Commits, Durable, TypeOK
  <2>1. q # r => pc'[q] = pc[q]
    BY <1>4, LocksReleased
  <2>2. A(q)'
    BY <1>0, <2>0, <2>1
  <2>3. ASSUME NEW t \in Tenants, Exists(NotificationRow(t, q))' PROVE pc'[q] = "done"
    <3> DEFINE y == NotificationRow(t, q)
    <3>1. y \in Rows /\ y[1] = "notifications" /\ y[3] = q
      BY RowsOf
    <3>2. CASE y \in Locks(r)
      <4>1. /\ \E i \in 1..Len(todo[r]) : todo[r][i].row = y
            /\ y = NotificationRow(Owner(y), r)
        BY <3>1, <3>2, NotificationLocks
      <4>2. NotificationRow(Owner(y), r)[3] = r
        BY DEF NotificationRow
      <4>3. q = r
        BY <3>1, <4>1, <4>2
      <4>4. pc'[r] = "done"
        BY <1>4, <3>1, <4>1 DEF Commits, TypeOK
      <4> QED
        BY <4>3, <4>4
    <3>3. CASE y \notin Locks(r)
      <4>1. Exists(y)
        BY <1>4, <2>3, <3>1, <3>3, TablesAfterCommit
      <4> QED
        BY <1>0, <2>0, <2>1, <4>1
    <3> QED
      BY <3>2, <3>3
  <2> QED
    BY <2>2, <2>3
<1>5. ASSUME Crash, NEW q \in Requests PROVE A(q)' /\ B(q)'
  <2>1. db' = db /\ writer' = writer /\ (pc[q] = "idle" \/ pc'[q] = "done")
    BY <1>5 DEF Crash
  <2> QED
    BY <1>1, <2>1
<1>6. \A q \in Requests : A(q)' /\ B(q)'
  <2> HIDE DEF A, B
  <2> QED
    BY <1>2, <1>3, <1>4, <1>5, NextKinds
<1> QED
  BY <1>6 DEF WritersAreThrough

-----------------------------------------------------------------------------
\* What the tables show.

\* Only a commit changes the tables.
LEMMA TablesChangeAtCommit ==
    ASSUME TypeOK, Progress, Next
    PROVE  \/ \E r \in Requests : Commits(r)
           \/ /\ UNCHANGED <<db, writer, revoked>>
              /\ \A q \in Requests : uses'[q] = uses[q] \/ pc[q] = "idle"
<1>1. ASSUME NEW r \in Requests, Starts(r)
      PROVE  /\ UNCHANGED <<db, writer, revoked>>
             /\ \A q \in Requests : uses'[q] = uses[q] \/ pc[q] = "idle"
  BY <1>1 DEF Starts, TypeOK
<1>2. ASSUME NEW r \in Requests, Passes(r) \/ Stops(r) \/ Write(r)
      PROVE  UNCHANGED <<db, writer, revoked, uses>>
  BY <1>2 DEF Passes, Stops, Write
<1>3. ASSUME Crash PROVE UNCHANGED <<db, writer, revoked, uses>>
  BY <1>3 DEF Crash
<1> QED
  BY <1>1, <1>2, <1>3, NextKinds

LEMMA TenantsKeepNoOrphans ==
    ASSUME TypeOK, Progress, ParentsAreHeld, NoOrphans, Next
    PROVE  NoOrphans'
<1>1. CASE UNCHANGED db
  BY <1>1 DEF NoOrphans, Exists
<1>2. ASSUME NEW r \in Requests, Commits(r) PROVE NoOrphans'
  <2> SUFFICES ASSUME NEW x \in Rows, Exists(x)' PROVE Exists(TenantRow(Owner(x)))'
    BY DEF NoOrphans
  <2> DEFINE p == TenantRow(Owner(x))
  <2>1. p \in Rows /\ Owner(x) \in Tenants
    BY RowKinds, RowsOf
  <2>2. x \notin Gone(r)
    BY <1>2, TablesAfterCommit
  <2>3. p \notin Gone(r)
    BY <2>2, GoneRows
  <2>4. Exists(p) \/ p \in Locks(r)
    <3>1. CASE Exists(x)
      BY <3>1 DEF NoOrphans
    <3>2. CASE ~Exists(x)
      <4>1. x \in Locks(r) /\ x \notin Deleting(r)
        BY <1>2, <2>2, <3>2, TablesAfterCommit, GoneRows
      <4>2. CASE x[1] = "tenants"
        BY <4>1, <4>2, RowKinds
      <4>3. CASE x[1] # "tenants"
        BY <3>2, <4>1, <4>3, ParentRows DEF ParentsAreHeld
      <4> QED
        BY <4>2, <4>3
    <3> QED
      BY <3>1, <3>2
  <2> QED
    BY <1>2, <2>1, <2>3, <2>4, TablesAfterCommit
<1> QED
  BY <1>1, <1>2, TablesChangeAtCommit

LEMMA TenantsKeepKeys ==
    ASSUME TypeOK, Progress, ParentsAreHeld, EveryTenantHasKey, Next
    PROVE  EveryTenantHasKey'
<1>1. CASE UNCHANGED <<db, revoked>>
  BY <1>1 DEF EveryTenantHasKey, Exists
<1>2. ASSUME NEW r \in Requests, Commits(r) PROVE EveryTenantHasKey'
  <2> SUFFICES ASSUME NEW t \in Tenants, t \notin revoked', Exists(TenantRow(t))'
               PROVE  \E k \in Ids : Exists(KeyRow(t, k))'
    BY DEF EveryTenantHasKey
  <2>1. TenantRow(t) \in Rows /\ Owner(TenantRow(t)) = t
    BY RowsOf
  <2>2. TenantRow(t) \notin Gone(r) /\ TenantRow(t) \notin Deleting(r)
    BY <1>2, <2>1, TablesAfterCommit, GoneRows
  <2>3. CASE Exists(TenantRow(t))
    <3>1. t \notin revoked
      BY <1>2 DEF Commits, Durable
    <3>2. PICK k \in Ids : Exists(KeyRow(t, k))
      BY <2>3, <3>1 DEF EveryTenantHasKey
    <3>3. KeyRow(t, k) \in Rows /\ Owner(KeyRow(t, k)) = t /\ KeyRow(t, k)[1] = "api_keys"
      BY RowsOf
    <3>4. KeyRow(t, k) \notin Deleting(r)
      BY <1>2, <3>3 DEF Commits, Durable
    <3>5. KeyRow(t, k) \notin Gone(r)
      BY <2>2, <3>3, <3>4, GoneRows
    <3> QED
      BY <1>2, <3>2, <3>3, <3>5, TablesAfterCommit
  <2>4. CASE ~Exists(TenantRow(t))
    <3>1. TenantRow(t) \in Locks(r) /\ TenantRow(t) \in Inserted(r)
      BY <1>2, <2>1, <2>2, <2>4, TablesAfterCommit DEF ParentsAreHeld
    <3>2. PICK i \in 1..at[r] : /\ todo[r][i].row = TenantRow(t)
                                /\ todo[r][i].op \in {"insert", "upsert"}
      BY <3>1 DEF Inserted
    <3>3. WellFormed(r, todo[r]) /\ at[r] = Len(todo[r]) /\ TenantRow(t)[1] = "tenants"
      BY <1>2, RowsOf DEF Commits, Progress, ProgressOf
    <3>4. Len(todo[r]) = 2 /\ todo[r][2].row = KeyRow(t, "first")
      BY <2>1, <3>2, <3>3 DEF WellFormed
    <3>5. KeyRow(t, "first") \in Locks(r)
      BY <3>3, <3>4 DEF Locks
    <3>6. Deleting(r) = {}
      BY <3>1, LocksAreRows
    <3>7. "first" \in Ids /\ KeyRow(t, "first") \in Rows /\ KeyRow(t, "first") \notin Gone(r)
      BY <3>5, <3>6, LocksAreRows, GoneRows DEF Ids
    <3> QED
      BY <1>2, <3>5, <3>7, TablesAfterCommit
  <2> QED
    BY <2>3, <2>4
<1> QED
  BY <1>1, <1>2, TablesChangeAtCommit

LEMMA TenantsKeepTemplates ==
    ASSUME TypeOK, Progress, ParentsAreHeld, TemplatesAreOwn, WritersAreThrough,
           TemplatesAreSound, Next
    PROVE  TemplatesAreSound'
<1> SUFFICES ASSUME NEW t \in Tenants, NEW q \in Requests,
                    Exists(NotificationRow(t, q))', uses'[q] # NoTemplate
             PROVE  Exists(uses[q])' /\ Owner(uses'[q]) = t
  BY DEF TemplatesAreSound
<1> DEFINE y == NotificationRow(t, q)
<1>0. y \in Rows /\ y[1] = "notifications" /\ y[3] = q /\ Owner(y) = t
  BY RowsOf
<1>1. CASE /\ UNCHANGED <<db, writer, revoked>>
           /\ \A u \in Requests : uses'[u] = uses[u] \/ pc[u] = "idle"
  <2>1. Exists(y) /\ pc[q] = "done"
    BY <1>1 DEF Exists, WritersAreThrough
  <2>2. uses'[q] = uses[q]
    BY <1>1, <2>1
  <2>3. Exists(uses[q]) /\ Owner(uses[q]) = t
    BY <2>1, <2>2 DEF TemplatesAreSound
  <2> QED
    BY <1>1, <2>2, <2>3 DEF Exists
<1>2. ASSUME NEW r \in Requests, Commits(r)
      PROVE  Exists(uses[q])' /\ Owner(uses'[q]) = t
  <2>1. uses'[q] = IF uses[q] \in Gone(r) /\ pc[q] = "done" THEN NoTemplate ELSE uses[q]
    BY <1>2 DEF Commits, Durable
  <2>2. uses'[q] = uses[q] /\ uses[q] # NoTemplate
    BY <2>1
  <2>3. uses[q] \in Rows
    BY <2>2, SMTT(30) DEF TypeOK, Rows
  <2>4. /\ Exists(uses[q]) \/ uses[q] \in Locks(r)
        /\ uses[q] \notin Gone(r)
        /\ Owner(uses[q]) = t
    <3>1. CASE y \in Locks(r)
      <4>1. y = NotificationRow(Owner(y), r) /\ Deleting(r) = {}
        BY <1>0, <3>1, NotificationLocks
      <4>2. NotificationRow(Owner(y), r)[3] = r
        BY DEF NotificationRow
      <4>3. q = r
        BY <1>0, <4>1, <4>2
      <4>4. Gone(r) = {}
        BY <4>1, GoneRows
      <4>5. Owner(uses[q]) = t
        BY <1>0, <2>2, <3>1, <4>3, SenderLocks
      <4>6. ~Exists(y)
        BY <1>2, <4>3 DEF WritersAreThrough, Commits
      <4>7. uses[r] \in Parents(r, y)
        BY <1>0, <2>2, <4>3, ParentRows
      <4>8. Exists(uses[q]) \/ uses[q] \in Locks(r)
        BY <3>1, <4>1, <4>3, <4>6, <4>7 DEF ParentsAreHeld
      <4> QED
        BY <4>4, <4>5, <4>8
    <3>2. CASE y \notin Locks(r)
      <4>1. Exists(y)
        BY <1>0, <1>2, <3>2, TablesAfterCommit
      <4>2. pc[q] = "done" /\ Exists(uses[q]) /\ Owner(uses[q]) = t
        BY <2>2, <4>1 DEF WritersAreThrough, TemplatesAreSound
      <4> QED
        BY <2>1, <2>2, <4>2
    <3> QED
      BY <3>1, <3>2
  <2>5. db'[uses[q]] # NoRow
    BY <1>2, <2>3, <2>4, TablesAfterCommit DEF Exists
  <2> QED
    BY <2>2, <2>4, <2>5 DEF Exists
<1> QED
  BY <1>1, <1>2, TablesChangeAtCommit

-----------------------------------------------------------------------------
\* The invariant and the theorems.

LEMMA InitTenantsInv ==
    ASSUME Init
    PROVE  TenantsInv
<1> USE TenantsAssumption
<1>1. \A r \in Requests : pc[r] = "idle" /\ todo[r] = << >> /\ at[r] = 0 /\ uses[r] = NoTemplate
  BY DEF Init
<1>2. << >> \in Seq(Statements) /\ Len(<< >>) = 0
  BY EmptySeq
<1>3. \A x \in Rows : Exists(x) <=>
        /\ Owner(x) \in Founded
        /\ x \in {TenantRow(Owner(x)), KeyRow(Owner(x), "first"), ChannelRow(Owner(x), Home),
                  TemplateRow(Owner(x), "first")}
  BY DEF Init, Exists
<1>4. \A x \in Rows : db[x] \in Values \union {NoRow} /\ (Exists(x) => db[x] \in Holds(x))
  <2> SUFFICES ASSUME NEW x \in Rows
               PROVE  db[x] \in Values \union {NoRow} /\ (Exists(x) => db[x] \in Holds(x))
    OBVIOUS
  <2> DEFINE t == Owner(x)
  <2>1. t \in Tenants /\ "first" \in Ids
    BY RowKinds DEF Ids
  <2>f. /\ TenantRow(t)[1] = "tenants" /\ KeyRow(t, "first")[1] = "api_keys"
        /\ ChannelRow(t, Home)[1] = "tenant_channels"
        /\ TemplateRow(t, "first")[1] = "notification_templates"
    BY <2>1, RowsOf
  <2>2. CASE ~Exists(x)
    BY <2>2 DEF Exists
  <2>3. CASE Exists(x) /\ x = TenantRow(t)
    <3>1. x[1] = "tenants"
      BY <2>3, <2>f
    <3>2. db[x] = "row"
      BY <1>3, <2>3, <2>f DEF Init
    <3> QED
      BY <3>1, <3>2 DEF Holds, Values
  <2>4. CASE Exists(x) /\ x = KeyRow(t, "first")
    <3>1. /\ x[1] = "api_keys" /\ x # TenantRow(t)
          /\ x # ChannelRow(t, Home) /\ x # TemplateRow(t, "first")
      BY <2>4, <2>f
    <3>2. db[x] = "row"
      BY <1>3, <2>4, <3>1 DEF Init
    <3> QED
      BY <3>1, <3>2 DEF Holds, Values
  <2>5. CASE Exists(x) /\ x = ChannelRow(t, Home)
    <3>1. /\ x[1] = "tenant_channels" /\ x # TenantRow(t)
          /\ x # KeyRow(t, "first") /\ x # TemplateRow(t, "first")
      BY <2>5, <2>f
    <3>2. db[x] = "on"
      BY <1>3, <2>5, <3>1 DEF Init
    <3> QED
      BY <3>1, <3>2 DEF Holds, Values
  <2>6. CASE Exists(x) /\ x = TemplateRow(t, "first")
    <3>1. /\ x[1] = "notification_templates"
          /\ x # TenantRow(t) /\ x # KeyRow(t, "first") /\ x # ChannelRow(t, Home)
      BY <2>6, <2>f
    <3>2. db[x] = Home
      BY <1>3, <2>6, <3>1 DEF Init
    <3> QED
      BY <3>1, <3>2 DEF Holds, Values
  <2> QED
    BY <1>3, <2>2, <2>3, <2>4, <2>5, <2>6
<1>5. TypeOK
  <2>1. db \in [Rows -> Values \union {NoRow}] /\ \A x \in Rows : Exists(x) => db[x] \in Holds(x)
    BY <1>4 DEF Init
  <2>2. /\ todo \in [Requests -> Seq(Statements)] /\ at \in [Requests -> 0..3]
        /\ \A r \in Requests : at[r] <= Len(todo[r]) /\ Len(todo[r]) <= 3
    BY <1>2 DEF Init
  <2> QED
    BY <2>1, <2>2 DEF Init, TypeOK
<1>6. Progress
  <2>1. \A r \in Requests : WellFormed(r, << >>)
    BY <1>2 DEF WellFormed
  <2> QED
    BY <1>1, <2>1 DEF Progress, ProgressOf
<1>7. \A r \in Requests : Locks(r) = {}
  BY <1>1 DEF Locks
<1>8. LocksAreDisjoint /\ ParentsAreHeld
  BY <1>7 DEF LocksAreDisjoint, ParentsAreHeld
<1>9. TemplatesAreOwn /\ TemplatesAreSound
  BY <1>1 DEF TemplatesAreOwn, TemplatesAreSound
<1>10. WritersAreThrough
  <2>1. \A x \in Rows, r \in Requests : writer[x] # r
    BY DEF Init
  <2>2. ASSUME NEW t \in Tenants, NEW r \in Requests PROVE ~Exists(NotificationRow(t, r))
    <3> DEFINE y == NotificationRow(t, r)
    <3>1. y \in Rows /\ Owner(y) = t /\ y[1] = "notifications" /\ "first" \in Ids
      BY RowsOf DEF Ids
    <3>2. y \notin {TenantRow(t), KeyRow(t, "first"), ChannelRow(t, Home), TemplateRow(t, "first")}
      BY <3>1, RowsOf
    <3> QED
      BY <1>3, <3>1, <3>2
  <2> QED
    BY <2>1, <2>2 DEF WritersAreThrough
<1>11. NoOrphans /\ EveryTenantHasKey
  <2>1. ASSUME NEW t \in Founded PROVE Exists(TenantRow(t)) /\ Exists(KeyRow(t, "first"))
    <3>1. t \in Tenants /\ "first" \in Ids
      BY DEF Ids
    <3> QED
      BY <1>3, <3>1, RowsOf
  <2>2. ASSUME NEW t \in Tenants, Exists(TenantRow(t)) PROVE t \in Founded
    BY <1>3, <2>2, RowsOf
  <2>3. NoOrphans
    BY <1>3, <2>1 DEF NoOrphans
  <2>4. EveryTenantHasKey
    BY <2>1, <2>2 DEF EveryTenantHasKey, Ids
  <2> QED
    BY <2>3, <2>4
<1> QED
  BY <1>5, <1>6, <1>8, <1>9, <1>10, <1>11 DEF TenantsInv

LEMMA NextTenantsInv ==
    ASSUME TenantsInv, [Next]_vars
    PROVE  TenantsInv'
<1>1. CASE Next
  <2> USE <1>1 DEF TenantsInv
  <2>1. TypeOK'
    BY TenantsKeepType
  <2>2. Progress'
    BY TenantsKeepProgress
  <2>3. LocksAreDisjoint'
    BY TenantsKeepLocksDisjoint
  <2>4. ParentsAreHeld'
    BY TenantsKeepParents
  <2>5. TemplatesAreOwn'
    BY TenantsKeepOwnTemplates
  <2>6. WritersAreThrough'
    BY TenantsKeepWriters
  <2>7. NoOrphans'
    BY TenantsKeepNoOrphans
  <2>8. EveryTenantHasKey'
    BY TenantsKeepKeys
  <2>9. TemplatesAreSound'
    BY TenantsKeepTemplates
  <2> QED
    BY <2>1, <2>2, <2>3, <2>4, <2>5, <2>6, <2>7, <2>8, <2>9
<1>2. CASE UNCHANGED vars
  <2> USE <1>2 DEF vars, request
  <2>1. (TypeOK <=> TypeOK') /\ (Progress <=> Progress')
    BY DEF TypeOK, Exists, Progress, ProgressOf
  <2>2. (LocksAreDisjoint <=> LocksAreDisjoint') /\ (ParentsAreHeld <=> ParentsAreHeld')
    <3>1. \A r \in Requests : Locks(r)' = Locks(r)
      BY DEF Locks
    <3>2. \A r \in Requests : Deleting(r)' = Deleting(r)
      BY DEF Deleting
    <3>3. \A r \in Requests : Inserted(r)' = Inserted(r)
      BY DEF Inserted
    <3>4. \A r \in Requests : \A y : Parents(r, y)' = Parents(r, y)
      BY DEF Parents
    <3>5. \A y : Exists(y)' <=> Exists(y)
      BY DEF Exists
    <3>6. LocksAreDisjoint <=> LocksAreDisjoint'
      BY <3>1 DEF LocksAreDisjoint
    <3>7. ParentsAreHeld <=> ParentsAreHeld'
      BY <3>1, <3>2, <3>3, <3>4, <3>5 DEF ParentsAreHeld
    <3> QED
      BY <3>6, <3>7
  <2>3. (TemplatesAreOwn <=> TemplatesAreOwn') /\ (WritersAreThrough <=> WritersAreThrough')
    BY DEF TemplatesAreOwn, WritersAreThrough, Exists
  <2>4. (NoOrphans <=> NoOrphans') /\ (EveryTenantHasKey <=> EveryTenantHasKey')
    BY DEF NoOrphans, EveryTenantHasKey, Exists
  <2>5. TemplatesAreSound <=> TemplatesAreSound'
    BY DEF TemplatesAreSound, Exists
  <2> QED
    BY <2>1, <2>2, <2>3, <2>4, <2>5 DEF TenantsInv
<1> QED
  BY <1>1, <1>2

LEMMA AlwaysTenantsInv == Spec => []TenantsInv
<1>1. Init => TenantsInv
  BY InitTenantsInv
<1>2. TenantsInv /\ [Next]_vars => TenantsInv'
  BY NextTenantsInv
<1> QED
  BY <1>1, <1>2, PTL DEF Spec

\* A request writes its rows at its commit and only then, all of them.
LEMMA CommitShowsAll ==
    ASSUME TenantsInv, [Next]_vars, NEW q \in Requests
    PROVE  ShownAtOnce(q)
<1> DEFINE asked == {todo[q][i].row : i \in DOMAIN todo[q]}
           shown == {x \in asked : writer'[x] = q /\ writer[x] # q}
<1>0. /\ TypeOK /\ Progress /\ WritersAreThrough
      /\ DOMAIN todo[q] = 1..Len(todo[q]) /\ todo[q] \in Seq(Statements)
  BY LenProperties DEF TenantsInv, TypeOK
<1>1. CASE UNCHANGED writer
  <2>1. shown = {}
    BY <1>1
  <2> QED
    BY <2>1 DEF ShownAtOnce
<1>2. asked \subseteq Rows
  <2>1. \A i \in DOMAIN todo[q] : todo[q][i] \in Statements
    BY <1>0, ElementOfSeq
  <2> QED
    BY <2>1 DEF Statements
<1>3. ASSUME NEW r \in Requests, Commits(r) PROVE ShownAtOnce(q)
  <2>1. \A x \in Rows : writer'[x] = IF x \in Locks(r) THEN r ELSE writer[x]
    BY <1>3 DEF Commits, Durable
  <2>2. CASE q # r
    <3>1. shown = {}
      BY <1>2, <2>1, <2>2
    <3> QED
      BY <3>1 DEF ShownAtOnce
  <2>3. CASE q = r
    <3>1. at[q] = Len(todo[q]) /\ pc[q] = "commit"
      BY <1>0, <1>3, <2>3 DEF Commits, Progress, ProgressOf
    <3>2. asked = Locks(q)
      BY <1>0, <3>1 DEF Locks
    <3>3. \A x \in Rows : writer[x] # q
      BY <1>0, <3>1 DEF WritersAreThrough
    <3>4. shown = asked
      BY <1>2, <2>1, <2>3, <3>2, <3>3
    <3> QED
      BY <3>4 DEF ShownAtOnce
  <2> QED
    BY <2>2, <2>3
<1> QED
  BY <1>0, <1>1, <1>3, TablesChangeAtCommit DEF vars

\* Type correctness of the requests, their transactions and the tables.
THEOREM TenantsTypeCorrect == Spec => []TypeOK
<1>1. TenantsInv => TypeOK
  BY DEF TenantsInv
<1> QED
  BY <1>1, AlwaysTenantsInv, PTL

\* The foreign keys to tenants hold at every commit: whatever a Send, a CreateKey or a
\* PUT had found before its transaction, it leaves no row of a deleted tenant behind.
THEOREM TenantsLeaveNoOrphans == Spec => []NoOrphans
<1>1. TenantsInv => NoOrphans
  BY DEF TenantsInv
<1> QED
  BY <1>1, AlwaysTenantsInv, PTL

\* Create shows a tenant together with its first key, so a tenant without a key had
\* one revoked by DeleteKey.
THEOREM TenantsHaveKeys == Spec => []EveryTenantHasKey
<1>1. TenantsInv => EveryTenantHasKey
  BY DEF TenantsInv
<1> QED
  BY <1>1, AlwaysTenantsInv, PTL

\* The template that resolveTemplate found is there and the tenant's own when the
\* notification is committed, and its deletion later sets template_id to NULL.
THEOREM TenantsTemplatesAreSound == Spec => []TemplatesAreSound
<1>1. TenantsInv => TemplatesAreSound
  BY DEF TenantsInv
<1> QED
  BY <1>1, AlwaysTenantsInv, PTL

\* WithTx: no step shows a part of what UpdateChannels, UpdateRateLimits or Create
\* writes.
THEOREM TenantsUpdatesAreWhole == Spec => UpdatesAreWhole
<1>1. TenantsInv /\ [Next]_vars => [\A r \in Requests : ShownAtOnce(r)]_vars
  BY CommitShowsAll
<1> QED
  BY <1>1, AlwaysTenantsInv, PTL DEF Spec, UpdatesAreWhole
=============================================================================
