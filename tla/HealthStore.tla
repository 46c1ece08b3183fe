----------------------------- MODULE HealthStore -----------------------------
(***************************************************************************)
(* An account's health is kept twice: in the scheduler's list, which every *)
(* upstream result changes at once, and in the row of table accounts, which*)
(* a goroutine of its own writes later.  The console's handlers go the     *)
(* other way: they change rows, read the whole table and replace the list. *)
(*                                                                         *)
(* A handler takes no lock over its statements, so every other step may    *)
(* come between them.  Two statements of one account are ordered by        *)
(* nothing but the store's mutex.                                          *)
(***************************************************************************)
EXTENDS Scheduler, SequencesExt

CONSTANTS
    Admins,          \* console requests under way at the same time
    NoAccount, NoRow,
    Seeded,          \* demo accounts of an empty table
    Bootstrapped,    \* accounts main upserts at start when they have credentials
    Used,            \* bound: accounts that calls are made on
    Results,         \* bound: [class, cd] of upstream results; "ok" is a success
    MaxResults,      \* bound: upstream results in a behaviour
    MaxWrites,       \* bound: writes of one account under way
    MaxHandled,      \* bound: console requests in a behaviour
    MaxFailures,     \* bound: failing statements
    MaxRestarts      \* bound

ASSUME HealthStoreAssumption ==
    /\ NoAccount \notin Accounts /\ NoRow \notin Health
    /\ Used \subseteq Accounts /\ Seeded \subseteq Accounts /\ Bootstrapped \subseteq Accounts
    /\ Results \subseteq [class : Classes \cup {"ok"}, cd : Nat]
    /\ {MaxResults, MaxWrites, MaxHandled, MaxFailures, MaxRestarts} \subseteq Nat

VARIABLES
    rows,        \* table accounts: account -> Health, or NoRow
    writes,      \* goroutines of persistHealthLocked: account -> sequence of Health
    handler,     \* local variables of each console request
    results, handled, failures, restarts,
    raced,       \* history: accounts whose copies lost track of each other
    stopped,     \* history: accounts an operator took out of service
    parked,      \* history: those that had no CooldownUntil then and that no
                 \* call has used since
    deleted      \* history: accounts deleted and not created since

counts   == <<results, handled, failures, restarts>>
history  == <<raced, stopped, parked, deleted>>
hvars    == <<pool, routes, rows, writes, handler, counts, history>>

Row == {h \in Health : h.listed} \cup {NoRow}

Steps == {"idle", "read", "import", "reload", "loaded", "apply", "mark", "mirror"}

NoRows == [a \in Accounts |-> NoRow]
Idle == [pc |-> "idle", acct |-> NoAccount, copy |-> NoRow, pause |-> FALSE,
         snap |-> NoRows]

InList(row) == IF row = NoRow THEN Gone ELSE row
Alone(k)    == \A j \in Admins \ {k} : handler[j].pc = "idle"

-----------------------------------------------------------------------------
\* Statements on table accounts

\* UpsertAccount: an existing row keeps its cooldown and counters.
Upserted(row, copy) ==
    IF row = NoRow THEN copy ELSE [row EXCEPT !.healthy = copy.healthy]

\* ApplyAccountHealth: ErrNotFound when the row is gone, which nobody looks at.
AppliedOrInserted(row, h) == h
Applied(row, h) == IF row = NoRow THEN NoRow ELSE h

\* SetAccountHealthy
MarkedHealthy(row, on) ==
    IF row = NoRow THEN NoRow ELSE [row EXCEPT !.healthy = on]

-----------------------------------------------------------------------------
\* The gateway's side

Persisting(changed) ==
    /\ \A a \in changed : Len(writes[a]) < MaxWrites
    /\ writes' = [a \in Accounts |->
                     IF a \in changed THEN Append(writes[a], pool'[a]) ELSE writes[a]]
    /\ raced' = raced \cup {a \in changed : writes[a] # <<>>}

\* NoteUpstreamResult: the row is written by a goroutine of its own.
NoteUpstreamResult(a, r) ==
    /\ a \in Used /\ pool[a].listed /\ results < MaxResults
    /\ pool' = [pool EXCEPT ![a] = IF r.class = "ok" THEN Succeeded(@)
                                   ELSE Failed(@, r.class, r.cd)]
    /\ Persisting({a})
    /\ results' = results + 1
    /\ parked' = parked \ {a}
    /\ UNCHANGED <<routes, rows, handler, handled, failures, restarts, stopped, deleted>>

ReapInMemory ==
    /\ ReapCooldowns
    /\ UNCHANGED <<rows, writes, handler, counts, history>>

Reap ==
    /\ ReapCooldowns
    /\ Persisting({a \in Accounts : Reapable(pool[a])})
    /\ UNCHANGED <<rows, handler, counts, stopped, parked, deleted>>

WriteLands(a) == \E i \in DOMAIN writes[a] :
    /\ rows' = [rows EXCEPT ![a] = Applied(@, writes[a][i])]
    /\ writes' = [writes EXCEPT ![a] = RemoveAt(@, i)]
    /\ UNCHANGED <<pool, routes, handler, counts, history>>

WriteFails(a) == \E i \in DOMAIN writes[a] :
    /\ failures < MaxFailures
    /\ failures' = failures + 1
    /\ writes' = [writes EXCEPT ![a] = RemoveAt(@, i)]
    /\ raced' = raced \cup {a}
    /\ UNCHANGED <<pool, routes, rows, handler, results, handled, restarts,
                   stopped, parked, deleted>>

\* Every copy of a CooldownUntil comes nearer by the same stretch of time.
Later(h) == IF h = NoRow THEN NoRow
            ELSE [h EXCEPT !.left = IF @ > 0 THEN @ - 1 ELSE @]

Clock ==
    /\ \/ \E a \in Accounts : pool[a].left > 0
       \/ \E a \in Accounts : rows[a] # NoRow /\ rows[a].left > 0
    /\ pool' = [a \in Accounts |-> Later(pool[a])]
    /\ rows' = [a \in Accounts |-> Later(rows[a])]
    /\ writes' = [a \in Accounts |-> [i \in DOMAIN writes[a] |-> Later(writes[a][i])]]
    /\ handler' = [k \in Admins |->
          [handler[k] EXCEPT !.copy = Later(@),
                             !.snap = [a \in Accounts |-> Later(@[a])]]]
    /\ UNCHANGED <<routes, counts, history>>

-----------------------------------------------------------------------------
\* The console's side: handlers that change a row and then replace the list

\* The history of pauses: somebody puts the accounts S back or deletes them ...
Released(S) == stopped' = stopped \ S /\ parked' = parked \ S

\* ... or handler k, with no other under way, has just taken a out of service.
TakenOut(k, a) ==
    /\ handler[k].acct = a /\ handler[k].pause /\ Alone(k)
    /\ rows[a] # NoRow /\ ~ rows[a].healthy

Begin(k) == handler[k].pc = "idle" /\ handled < MaxHandled /\ handled' = handled + 1

\* POST accounts: a new id, or one that exists and is overwritten.  Deleted
\* accounts come back this way, and unlisted ones with Fresh health.
PostAccount(k, a, healthy) ==
    /\ Begin(k)
    /\ rows' = [rows EXCEPT ![a] = Upserted(@, [Fresh EXCEPT !.healthy = healthy])]
    /\ handler' = [handler EXCEPT ![k] = [@ EXCEPT !.pc = "reload", !.acct = a]]
    /\ Released({a}) /\ deleted' = deleted \ {a}
    /\ UNCHANGED <<pool, routes, writes, results, failures, restarts, raced>>

\* PATCH accounts/{id}: the row is read here and written by PatchUpsert.
\* what: "on" and "off" set healthy, "other" changes only other columns.
PatchRead(k, a, what) ==
    /\ Begin(k)
    /\ rows[a] # NoRow
    /\ handler' = [handler EXCEPT ![k] =
          [@ EXCEPT !.pc = "read", !.acct = a, !.pause = (what = "off"),
                    !.copy = CASE what = "on"  -> [rows[a] EXCEPT !.healthy = TRUE, !.left = Unset]
                               [] what = "off" -> [rows[a] EXCEPT !.healthy = FALSE]
                               [] OTHER        -> rows[a]]]
    /\ Released(IF what = "on" THEN {a} ELSE {})
    /\ UNCHANGED <<pool, routes, rows, writes, results, failures, restarts, raced, deleted>>

PatchUpsert(k) ==
    /\ handler[k].pc = "read"
    /\ rows' = [rows EXCEPT ![handler[k].acct] = Upserted(@, handler[k].copy)]
    /\ handler' = [handler EXCEPT ![k] = [@ EXCEPT !.pc = "reload", !.copy = NoRow]]
    /\ UNCHANGED <<pool, routes, writes, counts, history>>

\* One line of an import: the account is looked up by name and provider and
\* upserted as it was found, or created.  Further lines may follow; between
\* two lines the handler has no account.
ImportLookup(k, a) ==
    /\ \/ Begin(k)
       \/ handler[k].pc = "reload" /\ handler[k].acct = NoAccount
          /\ handled < MaxHandled /\ handled' = handled + 1
    /\ handler' = [handler EXCEPT ![k] =
          [@ EXCEPT !.pc = "import", !.acct = a, !.copy = InList(rows[a])]]
    /\ UNCHANGED <<pool, routes, rows, writes, results, failures, restarts, history>>

ImportCopyHealthy(found) == Fresh
ImportCopyAsFound(found) == found
ImportCopy(found) == IF found.listed THEN found ELSE Fresh

ImportUpsert(k) ==
    LET a == handler[k].acct
    IN  /\ handler[k].pc = "import"
        /\ rows' = [rows EXCEPT ![a] = Upserted(@, ImportCopy(handler[k].copy))]
        /\ handler' = [handler EXCEPT ![k] =
              [@ EXCEPT !.pc = "reload", !.acct = NoAccount, !.copy = NoRow]]
        /\ deleted' = deleted \ {a}
        /\ UNCHANGED <<pool, routes, writes, counts, raced, stopped, parked>>

\* DELETE accounts/{id}
DeleteAccount(k, a) ==
    /\ Begin(k)
    /\ rows[a] # NoRow
    /\ rows' = [rows EXCEPT ![a] = NoRow]
    /\ handler' = [handler EXCEPT ![k] = [@ EXCEPT !.pc = "reload", !.acct = a]]
    /\ Released({a})
    /\ deleted' = IF Alone(k) THEN deleted \cup {a} ELSE deleted
    /\ UNCHANGED <<pool, routes, writes, results, failures, restarts, raced>>

\* The upsert of a handler fails: it answers 500 and leaves the list alone.
UpsertFails(k) ==
    /\ handler[k].pc \in {"read", "import"} /\ failures < MaxFailures
    /\ failures' = failures + 1
    /\ handler' = [handler EXCEPT ![k] =
          IF @.pc = "read" THEN Idle
          ELSE [@ EXCEPT !.pc = "reload", !.acct = NoAccount, !.copy = NoRow]]
    /\ UNCHANGED <<pool, routes, rows, writes, results, handled, restarts, history>>

\* s.Store.Accounts(): an error reads as an empty table.
ReadAccounts(k) ==
    /\ handler[k].pc = "reload"
    /\ \/ /\ handler' = [handler EXCEPT ![k] = [@ EXCEPT !.pc = "loaded", !.snap = rows]]
          /\ UNCHANGED failures
       \/ /\ failures < MaxFailures
          /\ failures' = failures + 1
          /\ handler' = [handler EXCEPT ![k] = [@ EXCEPT !.pc = "loaded", !.snap = NoRows]]
    /\ UNCHANGED <<pool, routes, rows, writes, results, handled, restarts, history>>

ReplaceAccounts(k) ==
    LET h == handler[k]
    IN  /\ h.pc = "loaded"
        /\ pool' = [a \in Accounts |-> InList(h.snap[a])]
        /\ handler' = [handler EXCEPT ![k] = Idle]
        /\ raced' = {a \in Accounts : writes[a] # <<>> \/ h.snap[a] # rows[a]}
        /\ stopped' = stopped \cup {a \in Accounts : TakenOut(k, a) /\ a \notin raced'}
        /\ parked' = parked \cup {a \in Accounts : /\ TakenOut(k, a) /\ a \notin raced'
                                                  /\ rows[a].left = Unset}
        /\ UNCHANGED <<routes, rows, writes, counts, deleted>>

\* An authorised account goes back into service: its row, then the list.  A
\* Claude sign-in clears the row's cooldown and counters first.
Authorize(k, a) ==
    /\ Begin(k)
    /\ Provider[a] \in {"claude", "antigravity"}
    /\ rows' = IF Provider[a] = "claude" THEN [rows EXCEPT ![a] = Applied(@, Fresh)]
                                         ELSE rows
    /\ handler' = [handler EXCEPT ![k] = [@ EXCEPT !.pc = "mark", !.acct = a]]
    /\ Released({a})
    /\ UNCHANGED <<pool, routes, writes, results, failures, restarts, raced, deleted>>

SetAccountHealthy(k) ==
    /\ handler[k].pc = "mark"
    /\ rows' = [rows EXCEPT ![handler[k].acct] = MarkedHealthy(@, TRUE)]
    /\ handler' = [handler EXCEPT ![k] = [@ EXCEPT !.pc = "mirror"]]
    /\ UNCHANGED <<pool, routes, writes, counts, history>>

MirrorHealth(k) ==
    /\ handler[k].pc = "mirror"
    /\ \/ SetAccountHealth(handler[k].acct)
       \/ ~ pool[handler[k].acct].listed /\ UNCHANGED <<pool, routes>>
    /\ handler' = [handler EXCEPT ![k] = Idle]
    /\ raced' = raced \cup {handler[k].acct}
    /\ UNCHANGED <<rows, writes, counts, stopped, parked, deleted>>

-----------------------------------------------------------------------------
\* Start of the process

\* sqliteEnsureAccounts: the demo accounts, when the table is empty.
Ensured(table) ==
    IF \E a \in Accounts : table[a] # NoRow THEN table
    ELSE [a \in Accounts |-> IF a \in Seeded THEN Fresh ELSE NoRow]

\* main: an account with credentials is upserted as healthy; the Antigravity
\* account has a row in any case, and keeps its health when it has none.
Readied(row, a, live) ==
    CASE a \in live                      -> Upserted(row, Fresh)
      [] a \in Bootstrapped \ live /\ Provider[a] = "antigravity" ->
            IF row = NoRow THEN [Fresh EXCEPT !.healthy = FALSE] ELSE row
      [] a \in Accounts \ Bootstrapped /\ Provider[a] = "mock" /\ live # {} ->
            MarkedHealthy(row, FALSE)
      [] OTHER                           -> row

Bootstrap(table, live) ==
    LET ensured == Ensured(table)
    IN  [a \in Accounts |-> Readied(ensured[a], a, live)]

\* The process stops with everything under way and main runs again.
Restart(live) ==
    LET table == Bootstrap(rows, live)
    IN  /\ restarts < MaxRestarts
        /\ restarts' = restarts + 1
        /\ rows' = table
        /\ pool' = [a \in Accounts |-> InList(table[a])]
        /\ writes' = [a \in Accounts |-> <<>>]
        /\ handler' = [k \in Admins |-> Idle]
        /\ raced' = {}
        /\ stopped' = {a \in stopped : rows[a] # NoRow} \ live
        /\ parked' = {a \in parked : rows[a] # NoRow} \ live
        /\ deleted' = {a \in deleted : table[a] = NoRow}
        /\ UNCHANGED <<routes, results, handled, failures>>

-----------------------------------------------------------------------------
Init ==
    /\ rows \in [Accounts -> {Fresh, NoRow}]
    /\ pool = [a \in Accounts |-> InList(rows[a])]
    /\ routes \in RouteTables
    /\ writes = [a \in Accounts |-> <<>>]
    /\ handler = [k \in Admins |-> Idle]
    /\ results = 0 /\ handled = 0 /\ failures = 0 /\ restarts = 0
    /\ raced = {} /\ stopped = {} /\ parked = {} /\ deleted = {}

GatewayNext ==
    \/ \E a \in Accounts : (\E r \in Results : NoteUpstreamResult(a, r))
                           \/ WriteLands(a) \/ WriteFails(a)
    \/ Reap
    \/ Clock

ConsoleNext == \E k \in Admins :
    \/ \E a \in Accounts :
          \/ \E healthy \in BOOLEAN : PostAccount(k, a, healthy)
          \/ \E what \in {"on", "off", "other"} : PatchRead(k, a, what)
          \/ ImportLookup(k, a) \/ DeleteAccount(k, a)
          \/ Authorize(k, a)
    \/ PatchUpsert(k) \/ ImportUpsert(k) \/ UpsertFails(k)
    \/ ReadAccounts(k) \/ ReplaceAccounts(k)
    \/ SetAccountHealthy(k) \/ MirrorHealth(k)

Next == GatewayNext \/ ConsoleNext
        \/ \E live \in SUBSET Bootstrapped : Restart(live)

HealthSpec == Init /\ [][Next]_hvars

-----------------------------------------------------------------------------
\* Both copies stay well formed; a write or a snapshot is an account's health.
TypeOK ==
    /\ PoolTypeOK
    /\ rows \in [Accounts -> Row]
    /\ \A a \in Accounts : writes[a] \in Seq(Health) /\ Len(writes[a]) <= MaxWrites
    /\ \A k \in Admins :
          /\ handler[k].pc \in Steps /\ handler[k].acct \in Accounts \cup {NoAccount}
          /\ handler[k].copy \in Health \cup {NoRow} /\ handler[k].pause \in BOOLEAN
          /\ handler[k].snap \in [Accounts -> Row]
    /\ raced \subseteq Accounts /\ stopped \subseteq Accounts
    /\ parked \subseteq Accounts /\ deleted \subseteq Accounts

Settled(a) == writes[a] = <<>> /\ \A k \in Admins : handler[k].pc = "idle"

\* With nothing under way the scheduler's list and the table say the same of
\* an account - present, healthy, cooldown, counters - unless its copies lost
\* each other in one of the ways raced records: two writes under way at once,
\* a write that failed, a list older than the row, an authorisation.
CopiesAgree == \A a \in Accounts :
    Settled(a) /\ a \notin raced => pool[a] = InList(rows[a])

\* An account that an operator paused when it had no CooldownUntil, and that no
\* call has used since, stays out of service through reaper ticks, imports,
\* other edits and restarts, until somebody puts it back.  (With a leftover
\* CooldownUntil, or with one that a late 429 sets, the reaper puts it back:
\* OperatorPauseKept.  A pause that another console request overlaps is in
\* neither history.)
PauseKept == \A a \in parked :
    pool[a].listed => ~ pool[a].healthy

\* A deleted account stays deleted although results of its last calls are
\* still being written; it is not handed out once its handler has ended.  (A
\* deletion counts when no other console request is under way: a PATCH that
\* has read the row writes it back.)
DeletedStaysGone == \A a \in deleted :
    /\ rows[a] = NoRow
    /\ (\A k \in Admins : handler[k].pc = "idle") => ~ pool[a].listed

-----------------------------------------------------------------------------
\* What the code promises and does not keep

\* PATCH accounts/{id} with healthy=false "persists to store and refreshes the
\* scheduler": until somebody puts the account back, no reaper does.
OperatorPauseKept == \A a \in stopped :
    pool[a].listed => ~ pool[a].healthy

\* "The store holds the authoritative state": with nothing under way the
\* table holds what the scheduler decided last.
StoreIsAuthoritative == \A a \in Accounts :
    Settled(a) => pool[a] = InList(rows[a])
=============================================================================
