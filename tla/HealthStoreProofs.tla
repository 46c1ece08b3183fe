-------------------------- MODULE HealthStoreProofs --------------------------
(* Theorems about the two copies of an account's health, for any accounts,   *)
(* thresholds and results, any number of console requests and writes under   *)
(* way, failing statements and restarts.                                     *)
EXTENDS HealthStore, SequenceTheorems, TLAPS

-----------------------------------------------------------------------------
\* The inductive invariant

Listed == {h \in Health : h.listed}

Locals == [pc    : Steps,
           acct  : Accounts \cup {NoAccount},
           copy  : Health \cup {NoRow},
           pause : BOOLEAN,
           snap  : [Accounts -> Row]]

Typed ==
    /\ pool \in [Accounts -> Health] /\ routes \in RouteTables
    /\ rows \in [Accounts -> Row]
    /\ writes \in [Accounts -> Seq(Listed)]
    /\ \A a \in Accounts : Len(writes[a]) <= MaxWrites
    /\ handler \in [Admins -> Locals]
    /\ \A k \in Admins :
          /\ handler[k].pc \in {"read", "import", "mark", "mirror"} => handler[k].acct \in Accounts
          /\ handler[k].pc = "read" => handler[k].copy \in Listed
          /\ handler[k].pc = "import" => handler[k].copy \in Health
    /\ raced \subseteq Accounts /\ stopped \subseteq Accounts
    /\ parked \subseteq Accounts /\ deleted \subseteq Accounts

\* A handler that changed rows and has still to replace the list.
Replacing(k) == handler[k].pc \in {"reload", "loaded", "import"}

\* A handler that will still bring the list's entry of an account up to date,
\* or declare that the copies may differ.
Dirty(a) == \E k \in Admins :
    \/ Replacing(k)
    \/ handler[k].pc \in {"mark", "mirror"} /\ handler[k].acct = a

\* The copies agree, or will once the one write under way has landed.
Clean(a) ==
    \/ writes[a] = <<>> /\ pool[a] = InList(rows[a])
    \/ Len(writes[a]) = 1 /\ writes[a][1] = pool[a] /\ rows[a] # NoRow

AgreeInv == \A a \in Accounts \ raced : Clean(a) \/ Dirty(a)

\* Out of service with no end in sight: the reaper will not touch it.
Parked(h) == h # NoRow /\ h.listed /\ ~ h.healthy /\ h.left = Unset

ParkedFor(a) ==
    /\ writes[a] = <<>> /\ Parked(rows[a])
    /\ pool[a].listed => Parked(pool[a])
    /\ \A k \in Admins :
          /\ handler[k].acct = a => /\ handler[k].pc \notin {"mark", "mirror"}
                                    /\ handler[k].pc \in {"read", "import"} => Parked(handler[k].copy)
          /\ handler[k].pc = "loaded" => handler[k].snap[a] = NoRow \/ Parked(handler[k].snap[a])

ParkInv == \A a \in parked : ParkedFor(a)

\* No handler can bring the row back but by creating the account again, and
\* the list loses it no later than when the last replacement ends.
GoneFor(a) ==
    /\ rows[a] = NoRow
    /\ \A k \in Admins :
          /\ handler[k].pc = "read" => handler[k].acct # a
          /\ handler[k].pc = "loaded" => handler[k].snap[a] = NoRow
    /\ pool[a].listed => \E k \in Admins : Replacing(k)

GoneInv == \A a \in deleted : GoneFor(a)

Inv == Typed /\ AgreeInv /\ ParkInv /\ GoneInv

-----------------------------------------------------------------------------
\* Rows, copies and lists

LEMMA RowsAndLists ==
  /\ NoRow \notin Health /\ Row = Listed \cup {NoRow} /\ Listed \subseteq Health
  /\ Fresh \in Listed /\ Gone \in Health /\ ~ Gone.listed
  /\ \A h \in Health : InList(h) = h
  /\ \A row \in Row : InList(row) \in Health /\ (InList(row).listed <=> row # NoRow)
  /\ InList(NoRow) = Gone
<1>1. NoRow \notin Health
  BY HealthStoreAssumption
<1>2. Fresh \in Listed
  BY DEF Fresh, Listed, Health, Unset
<1>3. Gone \in Health /\ ~ Gone.listed
  BY DEF Gone, Fresh, Health, Unset
<1> QED  BY <1>1, <1>2, <1>3 DEF Row, Listed, InList

\* The statements on one row.
LEMMA Statements ==
  ASSUME NEW row \in Row, NEW copy \in Listed
  PROVE  /\ Upserted(row, copy) \in Listed
         /\ row # NoRow => /\ Upserted(row, copy).left = row.left
                           /\ Upserted(row, copy).healthy = copy.healthy
         /\ Applied(row, copy) \in Row /\ (Applied(row, copy) = NoRow <=> row = NoRow)
         /\ row # NoRow => Applied(row, copy) = copy
         /\ \A on \in BOOLEAN : /\ MarkedHealthy(row, on) \in Row
                                /\ MarkedHealthy(row, on) = NoRow <=> row = NoRow
                                /\ row # NoRow => /\ MarkedHealthy(row, on).left = row.left
                                                  /\ MarkedHealthy(row, on).healthy = on
<1>0. copy.healthy \in BOOLEAN
  BY DEF Listed, Health
<1>1. ASSUME row # NoRow, NEW on \in BOOLEAN
      PROVE  LET new == [row EXCEPT !.healthy = on]
             IN  new \in Listed /\ new.left = row.left /\ new.healthy = on
  BY <1>1, RowsAndLists DEF Listed, Health
<1>2. CASE row = NoRow
  BY <1>2, RowsAndLists DEF Upserted, Applied, MarkedHealthy
<1>3. CASE row # NoRow
  BY <1>0, <1>1, <1>3, RowsAndLists DEF Upserted, Applied, MarkedHealthy
<1> QED  BY <1>2, <1>3

LEMMA Imports ==
  ASSUME NEW found \in Health
  PROVE  /\ ImportCopy(found) \in Listed
         /\ found.listed => ImportCopy(found) = found
  BY RowsAndLists DEF ImportCopy, Listed

\* The health of a listed account after a result, and after the reaper.
LEMMA ResultsListed ==
  ASSUME NEW h \in Listed, NEW r \in Results
  PROVE  (IF r.class = "ok" THEN Succeeded(h) ELSE Failed(h, r.class, r.cd)) \in Listed
<1>0. /\ TimeoutCooldown \in Nat /\ ForbiddenCooldown \in Nat /\ h \in Health /\ h.listed
      /\ r.cd \in Nat /\ (r.class # "ok" => r.class \in Classes)
  BY SchedulerAssumption, HealthStoreAssumption DEF Listed
<1>1. Succeeded(h) \in Listed
  BY <1>0 DEF Succeeded, Listed, Health, Unset
<1>2. ASSUME NEW class \in Classes PROVE Failed(h, class, r.cd) \in Listed
  <2> DEFINE n == Counted(h, class)
             left == IF class = "429" THEN r.cd ELSE h.left
             pause == IF class = "timeout" THEN TimeoutCooldown ELSE ForbiddenCooldown
             long == IF left = Unset THEN pause ELSE left
  <2>1. left \in Nat \cup {Unset} /\ long \in Nat \cup {Unset}
    BY <1>0 DEF Health
  <2>2. \/ Failed(h, class, r.cd) = h
        \/ Failed(h, class, r.cd) = [n EXCEPT !.left = left]
        \/ Failed(h, class, r.cd) = [n EXCEPT !.healthy = FALSE, !.left = long]
    BY DEF Failed
  <2>3. n \in Listed
    BY <1>0 DEF Counted, Listed, Health
  <2> HIDE DEF n, left, long
  <2>4. [n EXCEPT !.left = left] \in Listed
    BY <2>1, <2>3 DEF Health, Listed
  <2>5. [n EXCEPT !.healthy = FALSE] \in Listed
    BY <2>3 DEF Health, Listed
  <2>6. [[n EXCEPT !.healthy = FALSE] EXCEPT !.left = long] \in Listed
    BY <2>1, <2>5 DEF Health, Listed
  <2> QED  BY <2>2, <2>4, <2>6
<1> QED  BY <1>0, <1>1, <1>2

LEMMA Reaps ==
  ASSUME NEW h \in Health
  PROVE  /\ Reaped(h) \in Health /\ Reaped(h).listed = h.listed
         /\ Reapable(h) => h \in Listed /\ Reaped(h) \in Listed
         /\ ~ Reapable(h) => Reaped(h) = h
         /\ Parked(h) => ~ Reapable(h)
<1>1. CASE Reapable(h)
  BY <1>1, RowsAndLists DEF Reaped, Reapable, Listed, Parked, Unset, Health, Fresh
<1>2. CASE ~ Reapable(h)
  BY <1>2 DEF Reaped
<1> QED  BY <1>1, <1>2

\* Time passing.
LEMMA Latest ==
  /\ Later(NoRow) = NoRow
  /\ \A h \in Health : /\ Later(h) \in Health /\ Later(h).listed = h.listed
                       /\ Later(h).healthy = h.healthy
                       /\ h.left = Unset => Later(h).left = Unset
  /\ \A h \in Listed : Later(h) \in Listed
  /\ \A row \in Row : Later(row) \in Row /\ InList(Later(row)) = Later(InList(row))
  /\ \A h \in Row : Parked(h) => Parked(Later(h))
<1>1. Later(NoRow) = NoRow
  BY DEF Later
<1>2. ASSUME NEW h \in Health
      PROVE  /\ Later(h) \in Health /\ Later(h).listed = h.listed
             /\ Later(h).healthy = h.healthy
             /\ h.left = Unset => Later(h).left = Unset
  <2>1. Later(h) = [h EXCEPT !.left = IF @ > 0 THEN @ - 1 ELSE @]
    BY RowsAndLists DEF Later
  <2>2. (IF h.left > 0 THEN h.left - 1 ELSE h.left) \in Nat \cup {Unset}
    BY DEF Health, Unset
  <2> QED  BY <2>1, <2>2 DEF Health, Unset
<1>3. \A h \in Listed : Later(h) \in Listed
  BY <1>2 DEF Listed
<1>4. Later(Gone) = Gone
  <2>1. Gone.left = Unset /\ Gone \in Health
    BY RowsAndLists DEF Gone, Fresh
  <2>2. ~ Unset > 0 /\ [Gone EXCEPT !.left = Unset] = Gone
    BY <2>1 DEF Health, Unset
  <2> QED  BY <2>1, <2>2, RowsAndLists DEF Later
<1>5. \A row \in Row : Later(row) \in Row /\ InList(Later(row)) = Later(InList(row))
  BY <1>1, <1>3, <1>4, RowsAndLists
<1>6. \A h \in Row : Parked(h) => Parked(Later(h))
  BY <1>2, <1>3, RowsAndLists DEF Parked
<1> QED  BY <1>1, <1>2, <1>3, <1>5, <1>6

-----------------------------------------------------------------------------
\* Writes under way

LEMMA WriteGone ==
  ASSUME NEW S, NEW s \in Seq(S), NEW i \in DOMAIN s
  PROVE  /\ RemoveAt(s, i) \in Seq(S) /\ Len(RemoveAt(s, i)) = Len(s) - 1
         /\ i \in 1 .. Len(s) /\ s[i] \in S
<1>1. i \in 1 .. Len(s) /\ Len(s) \in Nat /\ s[i] \in S /\ \A j \in 1 .. Len(s) : s[j] \in S
  BY LenProperties, ElementOfSeq
<1> DEFINE before == SubSeq(s, 1, i - 1)
           after  == SubSeq(s, i + 1, Len(s))
<1>2. before \in Seq(S) /\ Len(before) = i - 1
  BY <1>1, SubSeqProperties
<1>3. after \in Seq(S) /\ Len(after) = Len(s) - i
  BY <1>1, SubSeqProperties
<1>4. RemoveAt(s, i) = before \o after
  BY DEF RemoveAt
<1> HIDE DEF before, after
<1>5. before \o after \in Seq(S) /\ Len(before \o after) = Len(before) + Len(after)
  BY <1>2, <1>3, ConcatProperties
<1> QED  BY <1>1, <1>2, <1>3, <1>4, <1>5

LEMMA WritesLater ==
  ASSUME NEW s \in Seq(Listed)
  PROVE  LET t == [i \in DOMAIN s |-> Later(s[i])]
         IN  /\ t \in Seq(Listed) /\ Len(t) = Len(s) /\ (s = <<>> => t = <<>>)
             /\ \A i \in 1 .. Len(s) : t[i] = Later(s[i])
<1> DEFINE t == [i \in DOMAIN s |-> Later(s[i])]
<1>1. Len(s) \in Nat /\ DOMAIN s = 1 .. Len(s) /\ \A i \in 1 .. Len(s) : s[i] \in Listed
  BY LenProperties, ElementOfSeq
<1>2. t \in [1 .. Len(s) -> Listed]
  BY <1>1, Latest
<1>3. t \in Seq(Listed)
  BY <1>1, <1>2, SeqDef
<1>4. DOMAIN t = 1 .. Len(t) /\ Len(t) \in Nat /\ DOMAIN t = 1 .. Len(s)
  BY <1>1, <1>3, LenProperties
<1>5. Len(t) = Len(s)
  BY <1>1, <1>4
<1>6. s = <<>> => t = <<>>
  BY <1>3, <1>5, EmptySeq
<1> QED  BY <1>1, <1>3, <1>5, <1>6

-----------------------------------------------------------------------------
\* Where each step of a console request leads

Moves(k, pc, acct, copy, snap) ==
    /\ handler' \in [Admins -> Locals]
    /\ \A j \in Admins \ {k} : handler'[j] = handler[j]
    /\ handler'[k].pc = pc /\ handler'[k].acct = acct
    /\ handler'[k].copy = copy /\ handler'[k].snap = snap

Ends(k) == Moves(k, "idle", NoAccount, NoRow, NoRows)

LEMMA MovesTo ==
  ASSUME Typed, NEW k \in Admins, NEW n \in Locals, handler' = [handler EXCEPT ![k] = n]
  PROVE  Moves(k, n.pc, n.acct, n.copy, n.snap)
  BY DEF Typed, Moves

LEMMA NoRowsType == NoRows \in [Accounts -> Row] /\ \A a \in Accounts : NoRows[a] = NoRow
  BY RowsAndLists DEF NoRows

LEMMA IdleType ==
  /\ Idle \in Locals /\ Idle.pc = "idle" /\ Idle.acct = NoAccount
  /\ Idle.copy = NoRow /\ Idle.snap = NoRows
  BY NoRowsType DEF Idle, Locals, Steps

LEMMA IdleEnds ==
  ASSUME Typed, NEW k \in Admins, handler' = [handler EXCEPT ![k] = Idle]
  PROVE  Ends(k)
  BY IdleType, MovesTo DEF Ends

LEMMA EditMoves ==
  ASSUME Typed, NEW k \in Admins, NEW a \in Accounts
  PROVE  /\ \A healthy \in BOOLEAN : PostAccount(k, a, healthy) =>
               Moves(k, "reload", a, handler[k].copy, handler[k].snap)
         /\ \A what \in {"on", "off", "other"} : PatchRead(k, a, what) =>
               \E copy \in Listed : /\ Moves(k, "read", a, copy, handler[k].snap)
                                    /\ what # "on" /\ Parked(rows[a]) => Parked(copy)
         /\ PatchUpsert(k) => Moves(k, "reload", handler[k].acct, NoRow, handler[k].snap)
         /\ DeleteAccount(k, a) => Moves(k, "reload", a, handler[k].copy, handler[k].snap)
<1>0. handler[k] \in Locals
  BY DEF Typed
<1>1. [handler[k] EXCEPT !.pc = "reload", !.acct = a] \in Locals
  BY <1>0 DEF Locals, Steps
<1>2. ASSUME NEW healthy \in BOOLEAN, PostAccount(k, a, healthy)
      PROVE  Moves(k, "reload", a, handler[k].copy, handler[k].snap)
  <2> DEFINE n == [handler[k] EXCEPT !.pc = "reload", !.acct = a]
  <2>1. handler' = [handler EXCEPT ![k] = n]
    BY <1>2 DEF PostAccount
  <2>2. n \in Locals /\ n.pc = "reload" /\ n.acct = a /\ n.copy = handler[k].copy /\ n.snap = handler[k].snap
    BY <1>0, <1>1 DEF Locals
  <2> HIDE DEF n
  <2> QED  BY <2>1, <2>2, MovesTo
<1>3. ASSUME DeleteAccount(k, a)
      PROVE  Moves(k, "reload", a, handler[k].copy, handler[k].snap)
  <2> DEFINE n == [handler[k] EXCEPT !.pc = "reload", !.acct = a]
  <2>1. handler' = [handler EXCEPT ![k] = n]
    BY <1>3 DEF DeleteAccount
  <2>2. n \in Locals /\ n.pc = "reload" /\ n.acct = a /\ n.copy = handler[k].copy /\ n.snap = handler[k].snap
    BY <1>0, <1>1 DEF Locals
  <2> HIDE DEF n
  <2> QED  BY <2>1, <2>2, MovesTo
<1>4. ASSUME PatchUpsert(k)
      PROVE  Moves(k, "reload", handler[k].acct, NoRow, handler[k].snap)
  <2> DEFINE n == [handler[k] EXCEPT !.pc = "reload", !.copy = NoRow]
  <2>1. handler' = [handler EXCEPT ![k] = n]
    BY <1>4 DEF PatchUpsert
  <2>2. /\ n \in Locals /\ n.pc = "reload" /\ n.acct = handler[k].acct
        /\ n.copy = NoRow /\ n.snap = handler[k].snap
    BY <1>0 DEF Locals, Steps
  <2> HIDE DEF n
  <2> QED  BY <2>1, <2>2, MovesTo
<1>5. ASSUME NEW what \in {"on", "off", "other"}, PatchRead(k, a, what)
      PROVE  \E copy \in Listed : /\ Moves(k, "read", a, copy, handler[k].snap)
                                  /\ what # "on" /\ Parked(rows[a]) => Parked(copy)
  <2> DEFINE copy == CASE what = "on"  -> [rows[a] EXCEPT !.healthy = TRUE, !.left = Unset]
                       [] what = "off" -> [rows[a] EXCEPT !.healthy = FALSE]
                       [] OTHER        -> rows[a]
             n == [handler[k] EXCEPT !.pc = "read", !.acct = a, !.pause = (what = "off"),
                                     !.copy = copy]
  <2>0. rows[a] \in Listed
    BY <1>5, RowsAndLists DEF Typed, PatchRead
  <2>1. handler' = [handler EXCEPT ![k] = n]
    BY <1>5 DEF PatchRead
  <2>2. [rows[a] EXCEPT !.healthy = TRUE, !.left = Unset] \in Listed
    BY <2>0 DEF Listed, Health
  <2>3. /\ [rows[a] EXCEPT !.healthy = FALSE] \in Listed
        /\ Parked(rows[a]) => Parked([rows[a] EXCEPT !.healthy = FALSE])
    <3>1. [rows[a] EXCEPT !.healthy = FALSE] \in Listed
      BY <2>0 DEF Listed, Health
    <3> QED  BY <2>0, <3>1, RowsAndLists DEF Listed, Health, Parked
  <2>4. copy \in Listed /\ (what # "on" /\ Parked(rows[a]) => Parked(copy))
    BY <2>0, <2>2, <2>3
  <2> HIDE DEF copy
  <2>5. n \in Locals /\ n.pc = "read" /\ n.acct = a /\ n.copy = copy /\ n.snap = handler[k].snap
    BY <1>0, <2>4, RowsAndLists DEF Locals, Steps
  <2> HIDE DEF n
  <2> QED  BY <2>1, <2>4, <2>5, MovesTo
<1> QED  BY <1>2, <1>3, <1>4, <1>5

LEMMA ImportMoves ==
  ASSUME Typed, NEW k \in Admins, NEW a \in Accounts
  PROVE  /\ ImportLookup(k, a) => Moves(k, "import", a, InList(rows[a]), handler[k].snap)
         /\ ImportUpsert(k) => Moves(k, "reload", NoAccount, NoRow, handler[k].snap)
         /\ UpsertFails(k) => \/ handler[k].pc = "read" /\ Ends(k)
                              \/ /\ handler[k].pc = "import"
                                 /\ Moves(k, "reload", NoAccount, NoRow, handler[k].snap)
<1>0. handler[k] \in Locals /\ InList(rows[a]) \in Health
  BY RowsAndLists DEF Typed
<1>1. ASSUME ImportLookup(k, a)
      PROVE  Moves(k, "import", a, InList(rows[a]), handler[k].snap)
  <2> DEFINE n == [handler[k] EXCEPT !.pc = "import", !.acct = a, !.copy = InList(rows[a])]
  <2>1. handler' = [handler EXCEPT ![k] = n]
    BY <1>1 DEF ImportLookup
  <2>2. /\ n \in Locals /\ n.pc = "import" /\ n.acct = a
        /\ n.copy = InList(rows[a]) /\ n.snap = handler[k].snap
    BY <1>0 DEF Locals, Steps
  <2> HIDE DEF n
  <2> QED  BY <2>1, <2>2, MovesTo
<1>2. ASSUME handler' = [handler EXCEPT ![k] =
                 [handler[k] EXCEPT !.pc = "reload", !.acct = NoAccount, !.copy = NoRow]]
      PROVE  Moves(k, "reload", NoAccount, NoRow, handler[k].snap)
  <2> DEFINE n == [handler[k] EXCEPT !.pc = "reload", !.acct = NoAccount, !.copy = NoRow]
  <2>1. n \in Locals /\ n.pc = "reload" /\ n.acct = NoAccount /\ n.copy = NoRow /\ n.snap = handler[k].snap
    BY <1>0 DEF Locals, Steps
  <2> HIDE DEF n
  <2> QED  BY <1>2, <2>1, MovesTo DEF n
<1>3. ImportUpsert(k) => Moves(k, "reload", NoAccount, NoRow, handler[k].snap)
  BY <1>2 DEF ImportUpsert
<1>4. ASSUME UpsertFails(k)
      PROVE  \/ handler[k].pc = "read" /\ Ends(k)
             \/ /\ handler[k].pc = "import"
                /\ Moves(k, "reload", NoAccount, NoRow, handler[k].snap)
  <2>1. CASE handler[k].pc = "read"
    BY <1>4, <2>1, IdleEnds DEF UpsertFails
  <2>2. CASE handler[k].pc = "import"
    BY <1>2, <1>4, <2>2 DEF UpsertFails
  <2> QED  BY <1>4, <2>1, <2>2 DEF UpsertFails
<1> QED  BY <1>1, <1>3, <1>4

LEMMA ReplaceMoves ==
  ASSUME Typed, NEW k \in Admins
  PROVE  /\ ReadAccounts(k) => \E snap \in {rows, NoRows} :
                                  Moves(k, "loaded", handler[k].acct, handler[k].copy, snap)
         /\ ReplaceAccounts(k) => Ends(k)
<1>0. handler[k] \in Locals
  BY DEF Typed
<1>1. ASSUME NEW snap \in {rows, NoRows},
             handler' = [handler EXCEPT ![k] = [handler[k] EXCEPT !.pc = "loaded", !.snap = snap]]
      PROVE  Moves(k, "loaded", handler[k].acct, handler[k].copy, snap)
  <2> DEFINE n == [handler[k] EXCEPT !.pc = "loaded", !.snap = snap]
  <2>1. snap \in [Accounts -> Row]
    BY NoRowsType DEF Typed
  <2>2. /\ n \in Locals /\ n.pc = "loaded" /\ n.acct = handler[k].acct
        /\ n.copy = handler[k].copy /\ n.snap = snap
    BY <1>0, <2>1 DEF Locals, Steps
  <2> HIDE DEF n
  <2> QED  BY <1>1, <2>2, MovesTo DEF n
<1>2. ASSUME ReadAccounts(k)
      PROVE  \E snap \in {rows, NoRows} : Moves(k, "loaded", handler[k].acct, handler[k].copy, snap)
  BY <1>1, <1>2 DEF ReadAccounts
<1>3. ReplaceAccounts(k) => Ends(k)
  BY IdleEnds DEF ReplaceAccounts
<1> QED  BY <1>2, <1>3

LEMMA AuthorizeMoves ==
  ASSUME Typed, NEW k \in Admins, NEW a \in Accounts
  PROVE  /\ Authorize(k, a) => Moves(k, "mark", a, handler[k].copy, handler[k].snap)
         /\ SetAccountHealthy(k) => Moves(k, "mirror", handler[k].acct, handler[k].copy, handler[k].snap)
         /\ MirrorHealth(k) => Ends(k)
<1>0. handler[k] \in Locals
  BY DEF Typed
<1>1. ASSUME Authorize(k, a)
      PROVE  Moves(k, "mark", a, handler[k].copy, handler[k].snap)
  <2> DEFINE n == [handler[k] EXCEPT !.pc = "mark", !.acct = a]
  <2>1. handler' = [handler EXCEPT ![k] = n]
    BY <1>1 DEF Authorize
  <2>2. n \in Locals /\ n.pc = "mark" /\ n.acct = a /\ n.copy = handler[k].copy /\ n.snap = handler[k].snap
    BY <1>0 DEF Locals, Steps
  <2> HIDE DEF n
  <2> QED  BY <2>1, <2>2, MovesTo
<1>2. ASSUME SetAccountHealthy(k)
      PROVE  Moves(k, "mirror", handler[k].acct, handler[k].copy, handler[k].snap)
  <2> DEFINE n == [handler[k] EXCEPT !.pc = "mirror"]
  <2>1. handler' = [handler EXCEPT ![k] = n]
    BY <1>2 DEF SetAccountHealthy
  <2>2. /\ n \in Locals /\ n.pc = "mirror" /\ n.acct = handler[k].acct
        /\ n.copy = handler[k].copy /\ n.snap = handler[k].snap
    BY <1>0 DEF Locals, Steps
  <2> HIDE DEF n
  <2> QED  BY <2>1, <2>2, MovesTo
<1>3. MirrorHealth(k) => Ends(k)
  BY IdleEnds DEF MirrorHealth
<1> QED  BY <1>1, <1>2, <1>3

\* The table that main leaves at start.
LEMMA BootstrapRows ==
  ASSUME Typed, NEW live \in SUBSET Bootstrapped
  PROVE  /\ Bootstrap(rows, live) \in [Accounts -> Row]
         /\ \A a \in Accounts : Parked(rows[a]) /\ a \notin live => Parked(Bootstrap(rows, live)[a])
<1>1. Ensured(rows) \in [Accounts -> Row]
  BY RowsAndLists DEF Ensured, Typed
<1>2. \A a \in Accounts : rows[a] # NoRow => Ensured(rows) = rows
  BY DEF Ensured
<1>3. [Fresh EXCEPT !.healthy = FALSE] \in Listed
  BY DEF Fresh, Listed, Health, Unset
<1>4. ASSUME NEW row \in Row, NEW a \in Accounts
      PROVE  /\ Readied(row, a, live) \in Row
             /\ Parked(row) /\ a \notin live => Parked(Readied(row, a, live))
  <2>1. CASE a \in live
    BY <2>1, Statements, RowsAndLists DEF Readied
  <2>2. CASE a \in Bootstrapped \ live /\ Provider[a] = "antigravity"
    BY <1>3, <2>2, RowsAndLists DEF Readied, Parked
  <2>3. CASE a \in Accounts \ Bootstrapped /\ Provider[a] = "mock" /\ live # {}
    <3>1. Readied(row, a, live) = MarkedHealthy(row, FALSE)
      BY <2>3 DEF Readied
    <3>2. /\ MarkedHealthy(row, FALSE) \in Row
          /\ row # NoRow => /\ MarkedHealthy(row, FALSE).left = row.left
                            /\ MarkedHealthy(row, FALSE).healthy = FALSE
                            /\ MarkedHealthy(row, FALSE) \in Listed
      BY Statements, RowsAndLists
    <3> QED  BY <3>1, <3>2, RowsAndLists DEF Parked, Listed
  <2>4. CASE ~ (a \in live) /\ ~ (a \in Bootstrapped \ live /\ Provider[a] = "antigravity")
             /\ ~ (a \in Accounts \ Bootstrapped /\ Provider[a] = "mock" /\ live # {})
    BY <2>4 DEF Readied
  <2> QED  BY <2>1, <2>2, <2>3, <2>4
<1>5. \A a \in Accounts : Bootstrap(rows, live)[a] = Readied(Ensured(rows)[a], a, live)
  BY DEF Bootstrap
<1>6. Bootstrap(rows, live) \in [Accounts -> Row]
  BY <1>1, <1>4 DEF Bootstrap
<1>7. ASSUME NEW a \in Accounts, Parked(rows[a]), a \notin live PROVE Parked(Bootstrap(rows, live)[a])
  <2>1. Ensured(rows) = rows /\ rows[a] \in Row
    BY <1>2, <1>7 DEF Parked, Typed
  <2> QED  BY <1>4, <1>5, <1>7, <2>1
<1> QED  BY <1>6, <1>7

-----------------------------------------------------------------------------
\* Types

LEMMA InitTyped == Init => Typed
<1> SUFFICES ASSUME Init PROVE Typed
  OBVIOUS
<1>1. rows \in [Accounts -> Row] /\ pool \in [Accounts -> Health]
  BY RowsAndLists DEF Init
<1>2. writes \in [Accounts -> Seq(Listed)] /\ \A a \in Accounts : Len(writes[a]) <= MaxWrites
  BY HealthStoreAssumption, EmptySeq DEF Init
<1>3. handler \in [Admins -> Locals] /\ \A k \in Admins : handler[k].pc = "idle"
  BY IdleType DEF Init
<1> QED  BY <1>1, <1>2, <1>3 DEF Init, Typed

HandlersTyped ==
    /\ handler \in [Admins -> Locals]
    /\ \A k \in Admins :
          /\ handler[k].pc \in {"read", "import", "mark", "mirror"} => handler[k].acct \in Accounts
          /\ handler[k].pc = "read" => handler[k].copy \in Listed
          /\ handler[k].pc = "import" => handler[k].copy \in Health

LEMMA HandlersMove ==
  ASSUME Typed, NEW k \in Admins, NEW pc, NEW acct, NEW copy, NEW snap,
         Moves(k, pc, acct, copy, snap),
         pc \in {"read", "import", "mark", "mirror"} => acct \in Accounts,
         pc = "read" => copy \in Listed,
         pc = "import" => copy \in Health
  PROVE  HandlersTyped'
<1>1. handler' \in [Admins -> Locals] /\ \A j \in Admins \ {k} : handler'[j] = handler[j]
  BY DEF Moves
<1>2. ASSUME NEW j \in Admins
      PROVE  /\ handler'[j].pc \in {"read", "import", "mark", "mirror"} => handler'[j].acct \in Accounts
             /\ handler'[j].pc = "read" => handler'[j].copy \in Listed
             /\ handler'[j].pc = "import" => handler'[j].copy \in Health
  <2>1. CASE j = k
    BY <2>1 DEF Moves
  <2>2. CASE j # k
    BY <1>1, <2>2 DEF Typed
  <2> QED  BY <2>1, <2>2
<1> QED  BY <1>1, <1>2 DEF HandlersTyped

\* Every request appends at most one write of an account.
LEMMA PersistingTypes ==
  ASSUME Typed, NEW changed \in SUBSET Accounts, Persisting(changed),
         \A a \in changed : pool'[a] \in Listed
  PROVE  /\ writes' \in [Accounts -> Seq(Listed)]
         /\ \A a \in Accounts : Len(writes'[a]) <= MaxWrites
         /\ raced' \subseteq Accounts
<1>1. ASSUME NEW a \in Accounts
      PROVE  writes'[a] \in Seq(Listed) /\ Len(writes'[a]) <= MaxWrites
  <2>1. CASE a \in changed
    <3>1. writes'[a] = Append(writes[a], pool'[a]) /\ Len(writes[a]) < MaxWrites
      BY <2>1 DEF Persisting
    <3>2. writes'[a] \in Seq(Listed) /\ Len(writes'[a]) = Len(writes[a]) + 1 /\ Len(writes[a]) \in Nat
      BY <2>1, <3>1, AppendProperties, LenProperties DEF Typed
    <3> QED  BY <3>1, <3>2, HealthStoreAssumption
  <2>2. CASE a \notin changed
    BY <2>2 DEF Persisting, Typed
  <2> QED  BY <2>1, <2>2
<1> QED  BY <1>1 DEF Persisting, Typed

LEMMA TypedGateway == Typed /\ GatewayNext => Typed'
<1> SUFFICES ASSUME Typed, GatewayNext PROVE Typed'
  OBVIOUS
<1>1. ASSUME NEW a \in Accounts, NEW r \in Results, NoteUpstreamResult(a, r) PROVE Typed'
  <2>1. pool[a] \in Listed
    BY <1>1 DEF NoteUpstreamResult, Typed, Listed
  <2>2. pool'[a] \in Listed /\ pool' \in [Accounts -> Health]
    BY <1>1, <2>1, ResultsListed, RowsAndLists DEF NoteUpstreamResult, Typed
  <2>3. /\ writes' \in [Accounts -> Seq(Listed)]
        /\ \A b \in Accounts : Len(writes'[b]) <= MaxWrites
        /\ raced' \subseteq Accounts
    BY <1>1, <2>2, PersistingTypes DEF NoteUpstreamResult
  <2> QED  BY <1>1, <2>2, <2>3 DEF NoteUpstreamResult, Typed
<1>2. CASE Reap
  <2>1. pool' = [a \in Accounts |-> Reaped(pool[a])]
    BY <1>2 DEF Reap, ReapCooldowns
  <2>2. pool' \in [Accounts -> Health] /\ \A a \in Accounts : Reapable(pool[a]) => pool'[a] \in Listed
    BY <2>1, Reaps DEF Typed
  <2>3. /\ writes' \in [Accounts -> Seq(Listed)]
        /\ \A b \in Accounts : Len(writes'[b]) <= MaxWrites
        /\ raced' \subseteq Accounts
    BY <1>2, <2>2, PersistingTypes DEF Reap
  <2> QED  BY <1>2, <2>2, <2>3 DEF Reap, ReapCooldowns, Typed
<1>3. ASSUME NEW a \in Accounts, NEW i \in DOMAIN writes[a], writes' = [writes EXCEPT ![a] = RemoveAt(@, i)]
      PROVE  /\ writes' \in [Accounts -> Seq(Listed)]
             /\ \A b \in Accounts : Len(writes'[b]) <= MaxWrites
             /\ writes[a][i] \in Listed
  <2>1. /\ RemoveAt(writes[a], i) \in Seq(Listed) /\ Len(RemoveAt(writes[a], i)) = Len(writes[a]) - 1
        /\ writes[a][i] \in Listed /\ Len(writes[a]) \in Nat
    BY WriteGone, LenProperties DEF Typed
  <2> QED  BY <1>3, <2>1, HealthStoreAssumption DEF Typed
<1>4. ASSUME NEW a \in Accounts, WriteLands(a) PROVE Typed'
  <2>1. PICK i \in DOMAIN writes[a] :
           /\ rows' = [rows EXCEPT ![a] = Applied(@, writes[a][i])]
           /\ writes' = [writes EXCEPT ![a] = RemoveAt(@, i)]
           /\ UNCHANGED <<pool, routes, handler, counts, history>>
    BY <1>4 DEF WriteLands
  <2>2. rows' \in [Accounts -> Row]
    BY <1>3, <2>1, Statements DEF Typed
  <2> QED  BY <1>3, <2>1, <2>2 DEF Typed, history
<1>5. ASSUME NEW a \in Accounts, WriteFails(a) PROVE Typed'
  BY <1>3, <1>5 DEF WriteFails, Typed
<1>6. CASE Clock
  <2>1. pool' \in [Accounts -> Health] /\ rows' \in [Accounts -> Row]
    BY <1>6, Latest DEF Clock, Typed
  <2>2. writes' \in [Accounts -> Seq(Listed)] /\ \A b \in Accounts : Len(writes'[b]) <= MaxWrites
    BY <1>6, WritesLater DEF Clock, Typed
  <2>3. ASSUME NEW k \in Admins
        PROVE  /\ handler'[k] \in Locals /\ handler'[k].pc = handler[k].pc
               /\ handler'[k].acct = handler[k].acct /\ handler'[k].copy = Later(handler[k].copy)
    <3> DEFINE snap == [a \in Accounts |-> Later(handler[k].snap[a])]
               n == [handler[k] EXCEPT !.copy = Later(@), !.snap = snap]
    <3>1. handler'[k] = n
      BY <1>6 DEF Clock
    <3>2. handler[k] \in Locals
      BY DEF Typed
    <3>3. snap \in [Accounts -> Row] /\ Later(handler[k].copy) \in Health \cup {NoRow}
      BY <3>2, Latest DEF Locals
    <3> HIDE DEF snap
    <3>4. n \in Locals /\ n.pc = handler[k].pc /\ n.acct = handler[k].acct /\ n.copy = Later(handler[k].copy)
      BY <3>2, <3>3 DEF Locals
    <3> QED  BY <3>1, <3>4
  <2>4. handler' \in [Admins -> Locals]
    BY <1>6, <2>3 DEF Clock
  <2>5. \A k \in Admins :
           /\ handler'[k].pc \in {"read", "import", "mark", "mirror"} => handler'[k].acct \in Accounts
           /\ handler'[k].pc = "read" => handler'[k].copy \in Listed
           /\ handler'[k].pc = "import" => handler'[k].copy \in Health
    BY <2>3, Latest DEF Typed
  <2>6. UNCHANGED <<routes, raced, stopped, parked, deleted>>
    BY <1>6 DEF Clock, history
  <2>7. /\ routes \in RouteTables /\ raced \subseteq Accounts /\ stopped \subseteq Accounts
        /\ parked \subseteq Accounts /\ deleted \subseteq Accounts
    BY DEF Typed
  <2> QED  BY <2>1, <2>2, <2>4, <2>5, <2>6, <2>7 DEF Typed
<1> QED  BY <1>1, <1>2, <1>4, <1>5, <1>6 DEF GatewayNext

\* A step of a console request, given what it does to the handlers.
LEMMA TypedIfMoved ==
  ASSUME Typed, NEW k \in Admins, NEW pc, NEW acct, NEW copy, NEW snap,
         Moves(k, pc, acct, copy, snap),
         pc \in {"read", "import", "mark", "mirror"} => acct \in Accounts,
         pc = "read" => copy \in Listed,
         pc = "import" => copy \in Health,
         pool' \in [Accounts -> Health], rows' \in [Accounts -> Row],
         routes' = routes, writes' = writes,
         raced' \subseteq Accounts, stopped' \subseteq Accounts,
         parked' \subseteq Accounts, deleted' \subseteq Accounts
  PROVE  Typed'
<1>1. HandlersTyped'
  BY HandlersMove
<1> QED  BY <1>1 DEF Typed, HandlersTyped

LEMMA TypedConsole == ASSUME Typed, ConsoleNext PROVE Typed'
<1>0. /\ pool \in [Accounts -> Health] /\ rows \in [Accounts -> Row]
      /\ raced \subseteq Accounts /\ stopped \subseteq Accounts
      /\ parked \subseteq Accounts /\ deleted \subseteq Accounts
      /\ \A j \in Admins : handler[j] \in Locals
  BY DEF Typed
<1>1. ASSUME NEW k \in Admins, NEW a \in Accounts, NEW healthy \in BOOLEAN, PostAccount(k, a, healthy)
      PROVE  Typed'
  <2>1. [Fresh EXCEPT !.healthy = healthy] \in Listed
    BY DEF Fresh, Listed, Health, Unset
  <2>2. rows' \in [Accounts -> Row]
    BY <1>0, <1>1, <2>1, Statements, RowsAndLists DEF PostAccount
  <2>3. /\ pool' = pool /\ routes' = routes /\ writes' = writes /\ raced' = raced
        /\ stopped' \subseteq Accounts /\ parked' \subseteq Accounts /\ deleted' \subseteq Accounts
    BY <1>0, <1>1 DEF PostAccount, Released
  <2>4. Moves(k, "reload", a, handler[k].copy, handler[k].snap)
    BY <1>1, EditMoves
  <2> QED  BY <1>0, <2>2, <2>3, <2>4, TypedIfMoved
<1>2. ASSUME NEW k \in Admins, NEW a \in Accounts, NEW what \in {"on", "off", "other"}, PatchRead(k, a, what)
      PROVE  Typed'
  <2>1. PICK copy \in Listed : Moves(k, "read", a, copy, handler[k].snap)
    BY <1>2, EditMoves
  <2>2. stopped' \subseteq Accounts /\ parked' \subseteq Accounts
    BY <1>0, <1>2 DEF PatchRead, Released
  <2> QED  BY <1>0, <1>2, <2>1, <2>2, TypedIfMoved DEF PatchRead
<1>3. ASSUME NEW k \in Admins, PatchUpsert(k) PROVE Typed'
  <2>1. handler[k].acct \in Accounts /\ handler[k].copy \in Listed
    BY <1>3 DEF PatchUpsert, Typed
  <2>2. rows' \in [Accounts -> Row]
    BY <1>0, <1>3, <2>1, Statements, RowsAndLists DEF PatchUpsert
  <2>3. Moves(k, "reload", handler[k].acct, NoRow, handler[k].snap)
    BY <1>3, <2>1, EditMoves
  <2> QED  BY <1>0, <1>3, <2>2, <2>3, TypedIfMoved DEF PatchUpsert, history
<1>4. ASSUME NEW k \in Admins, NEW a \in Accounts, ImportLookup(k, a) PROVE Typed'
  <2>1. InList(rows[a]) \in Health
    BY <1>0, RowsAndLists
  <2> QED  BY <1>0, <1>4, <2>1, ImportMoves, TypedIfMoved DEF ImportLookup, history
<1>5. ASSUME NEW k \in Admins, ImportUpsert(k) PROVE Typed'
  <2>1. handler[k].acct \in Accounts /\ handler[k].copy \in Health
    BY <1>5 DEF ImportUpsert, Typed
  <2>2. rows' \in [Accounts -> Row]
    BY <1>0, <1>5, <2>1, Imports, Statements, RowsAndLists DEF ImportUpsert
  <2>3. Moves(k, "reload", NoAccount, NoRow, handler[k].snap)
    BY <1>5, <2>1, ImportMoves
  <2> QED  BY <1>0, <1>5, <2>2, <2>3, TypedIfMoved DEF ImportUpsert
<1>6. ASSUME NEW k \in Admins, NEW a \in Accounts, DeleteAccount(k, a) PROVE Typed'
  <2>1. rows' \in [Accounts -> Row]
    BY <1>0, <1>6, RowsAndLists DEF DeleteAccount
  <2>2. /\ pool' = pool /\ routes' = routes /\ writes' = writes /\ raced' = raced
        /\ stopped' \subseteq Accounts /\ parked' \subseteq Accounts /\ deleted' \subseteq Accounts
    BY <1>0, <1>6 DEF DeleteAccount, Released
  <2>3. Moves(k, "reload", a, handler[k].copy, handler[k].snap)
    BY <1>6, EditMoves
  <2> QED  BY <1>0, <2>1, <2>2, <2>3, TypedIfMoved
<1>7. ASSUME NEW k \in Admins, UpsertFails(k) PROVE Typed'
  <2>1. handler[k].acct \in Accounts
    BY <1>7 DEF UpsertFails, Typed
  <2>2. Ends(k) \/ Moves(k, "reload", NoAccount, NoRow, handler[k].snap)
    BY <1>7, <2>1, ImportMoves
  <2> QED  BY <1>0, <1>7, <2>2, TypedIfMoved DEF UpsertFails, Ends, history
<1>8. ASSUME NEW k \in Admins, ReadAccounts(k) PROVE Typed'
  <2>1. PICK snap \in {rows, NoRows} : Moves(k, "loaded", handler[k].acct, handler[k].copy, snap)
    BY <1>8, ReplaceMoves
  <2> QED  BY <1>0, <1>8, <2>1, TypedIfMoved DEF ReadAccounts, history
<1>9. ASSUME NEW k \in Admins, ReplaceAccounts(k) PROVE Typed'
  <2>1. \A a \in Accounts : handler[k].snap[a] \in Row
    BY <1>0 DEF Locals
  <2>2. /\ pool' \in [Accounts -> Health] /\ raced' \subseteq Accounts
        /\ stopped' \subseteq Accounts /\ parked' \subseteq Accounts
    BY <1>0, <1>9, <2>1, RowsAndLists DEF ReplaceAccounts
  <2> QED  BY <1>0, <1>9, <2>2, ReplaceMoves, TypedIfMoved DEF ReplaceAccounts, Ends
<1>10. ASSUME NEW k \in Admins, NEW a \in Accounts, Authorize(k, a) PROVE Typed'
  <2>1. rows' \in [Accounts -> Row]
    BY <1>0, <1>10, Statements, RowsAndLists DEF Authorize
  <2>2. /\ pool' = pool /\ routes' = routes /\ writes' = writes /\ raced' = raced
        /\ stopped' \subseteq Accounts /\ parked' \subseteq Accounts /\ deleted' = deleted
    BY <1>0, <1>10 DEF Authorize, Released
  <2>3. Moves(k, "mark", a, handler[k].copy, handler[k].snap)
    BY <1>10, AuthorizeMoves
  <2> QED  BY <1>0, <2>1, <2>2, <2>3, TypedIfMoved
<1>11. ASSUME NEW k \in Admins, SetAccountHealthy(k) PROVE Typed'
  <2>1. handler[k].acct \in Accounts
    BY <1>11 DEF SetAccountHealthy, Typed
  <2>2. rows' \in [Accounts -> Row]
    BY <1>0, <1>11, <2>1, Statements, RowsAndLists DEF SetAccountHealthy
  <2>3. UNCHANGED <<pool, routes, writes, raced, stopped, parked, deleted>>
    BY <1>11 DEF SetAccountHealthy, history
  <2>4. Moves(k, "mirror", handler[k].acct, handler[k].copy, handler[k].snap)
    BY <1>11, <2>1, AuthorizeMoves
  <2> QED  BY <1>0, <2>1, <2>2, <2>3, <2>4, TypedIfMoved
<1>12. ASSUME NEW k \in Admins, MirrorHealth(k) PROVE Typed'
  <2>1. handler[k].acct \in Accounts
    BY <1>12 DEF MirrorHealth, Typed
  <2>2. [pool[handler[k].acct] EXCEPT !.healthy = TRUE, !.left = Unset] \in Health
    BY <1>0, <2>1 DEF Health
  <2>3. pool' \in [Accounts -> Health] /\ routes' = routes
    BY <1>0, <1>12, <2>1, <2>2 DEF MirrorHealth, SetAccountHealth
  <2>4. Ends(k)
    BY <1>12, <2>1, AuthorizeMoves
  <2>5. /\ rows' = rows /\ writes' = writes
        /\ raced' \subseteq Accounts /\ stopped' \subseteq Accounts
        /\ parked' \subseteq Accounts /\ deleted' \subseteq Accounts
    BY <1>0, <1>12, <2>1 DEF MirrorHealth
  <2> QED  BY <1>0, <2>3, <2>4, <2>5, TypedIfMoved DEF Ends
<1> QED
  BY <1>1, <1>2, <1>3, <1>4, <1>5, <1>6, <1>7, <1>8, <1>9, <1>10, <1>11, <1>12 DEF ConsoleNext

LEMMA TypedStep == Typed /\ [Next]_hvars => Typed'
<1> SUFFICES ASSUME Typed, [Next]_hvars PROVE Typed'
  OBVIOUS
<1>1. ASSUME NEW live \in SUBSET Bootstrapped, Restart(live) PROVE Typed'
  <2>1. rows' \in [Accounts -> Row] /\ pool' \in [Accounts -> Health]
    BY <1>1, BootstrapRows, RowsAndLists DEF Restart
  <2>2. writes' \in [Accounts -> Seq(Listed)] /\ \A a \in Accounts : Len(writes'[a]) <= MaxWrites
    BY <1>1, HealthStoreAssumption, EmptySeq DEF Restart
  <2>3. handler' \in [Admins -> Locals] /\ \A k \in Admins : handler'[k].pc = "idle"
    BY <1>1, IdleType DEF Restart
  <2> QED  BY <1>1, <2>1, <2>2, <2>3 DEF Restart, Typed
<1>2. CASE UNCHANGED hvars
  BY <1>2 DEF hvars, history, Typed
<1> QED  BY <1>1, <1>2, TypedGateway, TypedConsole DEF Next

-----------------------------------------------------------------------------
\* Agreement of the copies

LEMMA CleanSame ==
  ASSUME NEW a, Clean(a), rows'[a] = rows[a], pool'[a] = pool[a], writes'[a] = writes[a]
  PROVE  Clean(a)'
  BY DEF Clean

LEMMA DirtyMoves ==
  ASSUME NEW k \in Admins, NEW pc, NEW acct, NEW copy, NEW snap,
         Moves(k, pc, acct, copy, snap), NEW a
  PROVE  /\ pc \in {"reload", "loaded", "import"} => Dirty(a)'
         /\ pc \in {"mark", "mirror"} /\ acct = a => Dirty(a)'
         /\ Dirty(a) /\ ~ Replacing(k) /\ ~ (handler[k].pc \in {"mark", "mirror"} /\ handler[k].acct = a)
              => Dirty(a)'
<1>1. \A j \in Admins \ {k} : handler'[j] = handler[j]
  BY DEF Moves
<1>2. handler'[k].pc = pc /\ handler'[k].acct = acct
  BY DEF Moves
<1> QED  BY <1>1, <1>2 DEF Dirty, Replacing

LEMMA InitAgree == Init => AgreeInv
  BY DEF Init, AgreeInv, Clean

\* The scheduler changes accounts and starts a write for each.
LEMMA AgreePersisting ==
  ASSUME Typed, AgreeInv, NEW changed \in SUBSET Accounts, Persisting(changed),
         UNCHANGED <<rows, handler>>,
         \A a \in changed : pool[a] \in Listed /\ pool'[a] \in Listed,
         \A a \in Accounts \ changed : pool'[a] = pool[a]
  PROVE  AgreeInv'
<1> SUFFICES ASSUME NEW a \in Accounts, a \notin raced' PROVE Clean(a)' \/ Dirty(a)'
  BY DEF AgreeInv
<1>1. a \notin raced /\ (a \in changed => writes[a] = <<>>)
  BY DEF Persisting
<1>2. CASE Dirty(a)
  BY <1>2 DEF Dirty, Replacing
<1>3. CASE Clean(a) /\ a \notin changed
  <2>1. writes'[a] = writes[a]
    BY <1>3 DEF Persisting
  <2> QED  BY <1>3, <2>1, CleanSame
<1>4. CASE Clean(a) /\ a \in changed
  <2>1. pool[a] = InList(rows[a]) /\ pool[a].listed /\ rows[a] \in Row
    BY <1>1, <1>4 DEF Clean, Listed, Typed
  <2>2. rows'[a] # NoRow
    BY <2>1, RowsAndLists
  <2>3. writes'[a] = Append(<<>>, pool'[a])
    BY <1>1, <1>4 DEF Persisting
  <2>4. Len(writes'[a]) = 1 /\ writes'[a][1] = pool'[a]
    BY <1>4, <2>3, AppendProperties, EmptySeq
  <2> QED  BY <2>2, <2>4 DEF Clean
<1> QED  BY <1>1, <1>2, <1>3, <1>4 DEF AgreeInv

LEMMA AgreeGateway == Typed /\ AgreeInv /\ GatewayNext => AgreeInv'
<1> SUFFICES ASSUME Typed, AgreeInv, GatewayNext PROVE AgreeInv'
  OBVIOUS
<1>1. ASSUME NEW a \in Accounts, NEW r \in Results, NoteUpstreamResult(a, r) PROVE AgreeInv'
  <2>1. pool[a] \in Listed
    BY <1>1 DEF NoteUpstreamResult, Typed, Listed
  <2>2. pool'[a] \in Listed /\ \A b \in Accounts \ {a} : pool'[b] = pool[b]
    BY <1>1, <2>1, ResultsListed DEF NoteUpstreamResult, Typed
  <2> QED  BY <1>1, <2>1, <2>2, AgreePersisting DEF NoteUpstreamResult
<1>2. CASE Reap
  <2> DEFINE changed == {a \in Accounts : Reapable(pool[a])}
  <2>1. \A a \in Accounts : pool'[a] = Reaped(pool[a]) /\ pool[a] \in Health
    BY <1>2 DEF Reap, ReapCooldowns, Typed
  <2>2. /\ \A a \in changed : pool[a] \in Listed /\ pool'[a] \in Listed
        /\ \A a \in Accounts \ changed : pool'[a] = pool[a]
    BY <2>1, Reaps
  <2>3. Persisting(changed) /\ UNCHANGED <<rows, handler>>
    BY <1>2 DEF Reap
  <2> HIDE DEF changed
  <2>4. changed \in SUBSET Accounts
    BY DEF changed
  <2> QED  BY <2>2, <2>3, <2>4, AgreePersisting
<1>3. ASSUME NEW a \in Accounts, WriteLands(a) PROVE AgreeInv'
  <2>1. PICK i \in DOMAIN writes[a] :
           /\ rows' = [rows EXCEPT ![a] = Applied(@, writes[a][i])]
           /\ writes' = [writes EXCEPT ![a] = RemoveAt(@, i)]
           /\ UNCHANGED <<pool, routes, handler, counts, history>>
    BY <1>3 DEF WriteLands
  <2>2. /\ i \in 1 .. Len(writes[a]) /\ Len(RemoveAt(writes[a], i)) = Len(writes[a]) - 1
        /\ RemoveAt(writes[a], i) \in Seq(Listed) /\ writes[a][i] \in Listed
    BY WriteGone DEF Typed
  <2>3. \A b \in Accounts : Dirty(b) => Dirty(b)'
    BY <2>1 DEF Dirty, Replacing
  <2>4. \A b \in Accounts \ {a} : Clean(b) => Clean(b)'
    BY <2>1, CleanSame DEF Typed
  <2>5. Clean(a) => Clean(a)'
    <3>1. SUFFICES ASSUME Clean(a) PROVE Clean(a)'
      OBVIOUS
    <3>2. Len(writes[a]) = 1 /\ writes[a][1] = pool[a] /\ rows[a] # NoRow /\ i = 1
      BY <2>2, <3>1, EmptySeq DEF Clean
    <3>3. writes'[a] = <<>>
      BY <2>1, <2>2, <3>2, EmptySeq DEF Typed
    <3>4. rows'[a] = pool[a] /\ pool[a] \in Health
      BY <2>1, <2>2, <3>2, Statements DEF Typed, Listed
    <3> QED  BY <2>1, <3>3, <3>4, RowsAndLists DEF Clean
  <2> QED  BY <2>1, <2>3, <2>4, <2>5 DEF AgreeInv, history
<1>4. ASSUME NEW a \in Accounts, WriteFails(a) PROVE AgreeInv'
  <2>1. \A b \in Accounts : Dirty(b) => Dirty(b)'
    BY <1>4 DEF WriteFails, Dirty, Replacing
  <2>2. \A b \in Accounts \ {a} : Clean(b) => Clean(b)'
    BY <1>4, CleanSame DEF WriteFails, Typed
  <2>3. raced' = raced \cup {a}
    BY <1>4 DEF WriteFails
  <2> QED  BY <2>1, <2>2, <2>3 DEF AgreeInv
<1>5. CASE Clock
  <2>1. \A k \in Admins : handler'[k].pc = handler[k].pc /\ handler'[k].acct = handler[k].acct
    BY <1>5 DEF Clock, Typed, Locals
  <2>2. \A b \in Accounts : Dirty(b) => Dirty(b)'
    BY <2>1 DEF Dirty, Replacing
  <2>3. ASSUME NEW b \in Accounts, Clean(b) PROVE Clean(b)'
    <3>1. pool'[b] = Later(pool[b]) /\ rows'[b] = Later(rows[b])
      BY <1>5 DEF Clock
    <3>2. /\ Len(writes'[b]) = Len(writes[b]) /\ (writes[b] = <<>> => writes'[b] = <<>>)
          /\ \A i \in 1 .. Len(writes[b]) : writes'[b][i] = Later(writes[b][i])
      BY <1>5, WritesLater DEF Clock, Typed
    <3>3. rows[b] \in Row /\ (rows[b] # NoRow => Later(rows[b]) # NoRow)
      BY Latest, RowsAndLists DEF Typed
    <3> QED  BY <2>3, <3>1, <3>2, <3>3, Latest DEF Clean
  <2> QED  BY <1>5, <2>2, <2>3 DEF Clock, AgreeInv, history
<1> QED  BY <1>1, <1>2, <1>3, <1>4, <1>5 DEF GatewayNext

LEMMA AgreeConsole == Typed /\ AgreeInv /\ ConsoleNext => AgreeInv'
<1> SUFFICES ASSUME Typed, AgreeInv, ConsoleNext PROVE AgreeInv'
  OBVIOUS
<1>0. ASSUME NEW k \in Admins, NEW pc \in {"reload", "loaded", "import"}, NEW acct, NEW copy, NEW snap,
             Moves(k, pc, acct, copy, snap)
      PROVE  AgreeInv'
  BY <1>0, DirtyMoves DEF AgreeInv
<1>1. ASSUME NEW k \in Admins, NEW acct, NEW copy, NEW snap, NEW pc, Moves(k, pc, acct, copy, snap),
             handler[k].pc \in {"idle", "read"}, UNCHANGED <<pool, rows, writes, raced>>
      PROVE  AgreeInv'
  <2>1. \A a \in Accounts : Dirty(a) => Dirty(a)'
    BY <1>1, DirtyMoves DEF Replacing
  <2> QED  BY <1>1, <2>1, CleanSame DEF AgreeInv
\* Rows or list change for one account only, which the request works on.
<1>2. ASSUME NEW k \in Admins, NEW a \in Accounts, NEW pc, NEW acct, NEW copy, NEW snap,
             Moves(k, pc, acct, copy, snap), ~ Replacing(k),
             handler[k].pc \in {"mark", "mirror"} => handler[k].acct = a,
             writes' = writes, raced \subseteq raced',
             \A b \in Accounts \ {a} : pool'[b] = pool[b] /\ rows'[b] = rows[b],
             (pc \in {"mark", "mirror"} /\ acct = a) \/ a \in raced'
      PROVE  AgreeInv'
  <2>1. \A b \in Accounts \ {a} : Dirty(b) => Dirty(b)'
    BY <1>2, DirtyMoves
  <2>2. a \in raced' \/ Dirty(a)'
    BY <1>2, DirtyMoves
  <2> QED  BY <1>2, <2>1, <2>2, CleanSame DEF AgreeInv
<1>3. ASSUME NEW k \in Admins, NEW a \in Accounts, NEW healthy \in BOOLEAN, PostAccount(k, a, healthy)
      PROVE  AgreeInv'
  BY <1>0, <1>3, EditMoves
<1>4. ASSUME NEW k \in Admins, NEW a \in Accounts, NEW what \in {"on", "off", "other"}, PatchRead(k, a, what)
      PROVE  AgreeInv'
  <2>1. PICK copy \in Listed : Moves(k, "read", a, copy, handler[k].snap)
    BY <1>4, EditMoves
  <2> QED  BY <1>1, <1>4, <2>1 DEF PatchRead, Begin
<1>5. ASSUME NEW k \in Admins, PatchUpsert(k) PROVE AgreeInv'
  <2>1. handler[k].acct \in Accounts
    BY <1>5 DEF PatchUpsert, Typed
  <2> QED  BY <1>0, <1>5, <2>1, EditMoves
<1>6. ASSUME NEW k \in Admins, NEW a \in Accounts, ImportLookup(k, a) PROVE AgreeInv'
  BY <1>0, <1>6, ImportMoves
<1>7. ASSUME NEW k \in Admins, ImportUpsert(k) PROVE AgreeInv'
  <2>1. handler[k].acct \in Accounts
    BY <1>7 DEF ImportUpsert, Typed
  <2> QED  BY <1>0, <1>7, <2>1, ImportMoves
<1>8. ASSUME NEW k \in Admins, NEW a \in Accounts, DeleteAccount(k, a) PROVE AgreeInv'
  BY <1>0, <1>8, EditMoves
<1>9. ASSUME NEW k \in Admins, UpsertFails(k) PROVE AgreeInv'
  <2>1. handler[k].acct \in Accounts
    BY <1>9 DEF UpsertFails, Typed
  <2>2. CASE handler[k].pc = "read" /\ Ends(k)
    BY <1>1, <1>9, <2>2 DEF UpsertFails, Ends, history
  <2>3. CASE Moves(k, "reload", NoAccount, NoRow, handler[k].snap)
    BY <1>0, <2>3
  <2> QED  BY <1>9, <2>1, <2>2, <2>3, ImportMoves
<1>10. ASSUME NEW k \in Admins, ReadAccounts(k) PROVE AgreeInv'
  BY <1>0, <1>10, ReplaceMoves
<1>11. ASSUME NEW k \in Admins, ReplaceAccounts(k) PROVE AgreeInv'
  BY <1>11 DEF ReplaceAccounts, AgreeInv, Clean
<1>12. ASSUME NEW k \in Admins, NEW a \in Accounts, Authorize(k, a) PROVE AgreeInv'
  <2>1. Moves(k, "mark", a, handler[k].copy, handler[k].snap)
    BY <1>12, AuthorizeMoves
  <2>2. /\ \A b \in Accounts \ {a} : pool'[b] = pool[b] /\ rows'[b] = rows[b]
        /\ writes' = writes /\ raced' = raced /\ handler[k].pc = "idle"
    BY <1>12 DEF Authorize, Begin, Typed
  <2> QED  BY <1>2, <2>1, <2>2 DEF Replacing
<1>13. ASSUME NEW k \in Admins, SetAccountHealthy(k) PROVE AgreeInv'
  <2>1. handler[k].acct \in Accounts /\ handler[k].pc = "mark"
    BY <1>13 DEF SetAccountHealthy, Typed
  <2>2. Moves(k, "mirror", handler[k].acct, handler[k].copy, handler[k].snap)
    BY <1>13, <2>1, AuthorizeMoves
  <2>3. /\ \A b \in Accounts \ {handler[k].acct} : pool'[b] = pool[b] /\ rows'[b] = rows[b]
        /\ writes' = writes /\ raced' = raced
    BY <1>13 DEF SetAccountHealthy, Typed, history
  <2> QED  BY <1>2, <2>1, <2>2, <2>3 DEF Replacing
<1>14. ASSUME NEW k \in Admins, MirrorHealth(k) PROVE AgreeInv'
  <2>1. handler[k].acct \in Accounts /\ handler[k].pc = "mirror"
    BY <1>14 DEF MirrorHealth, Typed
  <2>2. Moves(k, "idle", NoAccount, NoRow, NoRows)
    BY <1>14, <2>1, AuthorizeMoves DEF Ends
  <2>3. /\ \A b \in Accounts \ {handler[k].acct} : pool'[b] = pool[b] /\ rows'[b] = rows[b]
        /\ writes' = writes /\ raced' = raced \cup {handler[k].acct}
    BY <1>14 DEF MirrorHealth, SetAccountHealth, Typed
  <2> QED  BY <1>2, <2>1, <2>2, <2>3 DEF Replacing
<1> QED
  BY <1>3, <1>4, <1>5, <1>6, <1>7, <1>8, <1>9, <1>10, <1>11, <1>12, <1>13, <1>14 DEF ConsoleNext

LEMMA AgreeStep == Typed /\ AgreeInv /\ [Next]_hvars => AgreeInv'
<1> SUFFICES ASSUME Typed, AgreeInv, [Next]_hvars PROVE AgreeInv'
  OBVIOUS
<1>1. ASSUME NEW live \in SUBSET Bootstrapped, Restart(live) PROVE AgreeInv'
  BY <1>1 DEF Restart, AgreeInv, Clean
<1>2. CASE UNCHANGED hvars
  BY <1>2 DEF hvars, history, AgreeInv, Clean, Dirty, Replacing
<1> QED  BY <1>1, <1>2, AgreeGateway, AgreeConsole DEF Next

-----------------------------------------------------------------------------
\* Accounts an operator paused

LEMMA InitPark == Init => ParkInv
  BY DEF Init, ParkInv

\* A request's step that keeps what is known of a paused account.
LEMMA ParkMoves ==
  ASSUME NEW k \in Admins, NEW pc, NEW acct, NEW copy, NEW snap,
         Moves(k, pc, acct, copy, snap), NEW a, ParkedFor(a),
         acct = a => pc \notin {"mark", "mirror"} /\ (pc \in {"read", "import"} => Parked(copy)),
         pc = "loaded" => snap[a] = NoRow \/ Parked(snap[a]),
         writes' = writes, Parked(rows'[a]), pool'[a].listed => Parked(pool'[a])
  PROVE  ParkedFor(a)'
<1>1. \A j \in Admins \ {k} : handler'[j] = handler[j]
  BY DEF Moves
<1>2. /\ handler'[k].pc = pc /\ handler'[k].acct = acct
      /\ handler'[k].copy = copy /\ handler'[k].snap = snap
  BY DEF Moves
<1>3. ASSUME NEW j \in Admins
      PROVE  /\ handler'[j].acct = a =>
                  /\ handler'[j].pc \notin {"mark", "mirror"}
                  /\ handler'[j].pc \in {"read", "import"} => Parked(handler'[j].copy)
             /\ handler'[j].pc = "loaded" => handler'[j].snap[a] = NoRow \/ Parked(handler'[j].snap[a])
  <2>1. CASE j = k
    BY <1>2, <2>1
  <2>2. CASE j # k
    BY <1>1, <2>2 DEF ParkedFor
  <2> QED  BY <2>1, <2>2
<1> QED  BY <1>3 DEF ParkedFor, Parked

\* Steps that leave the handlers and the account alone.
LEMMA ParkSame ==
  ASSUME NEW a, ParkedFor(a), handler' = handler,
         writes'[a] = writes[a], rows'[a] = rows[a], pool'[a] = pool[a]
  PROVE  ParkedFor(a)'
  BY DEF ParkedFor, Parked

LEMMA ParkedTyped ==
  ASSUME Typed, NEW a \in Accounts, ParkedFor(a)
  PROVE  /\ rows[a] \in Listed /\ ~ Reapable(pool[a]) /\ DOMAIN writes[a] = {}
         /\ InList(rows[a]) = rows[a]
<1>1. rows[a] \in Listed
  BY RowsAndLists DEF Typed, ParkedFor, Parked
<1>2. ~ Reapable(pool[a])
  BY DEF ParkedFor, Parked, Reapable, Unset
<1> QED  BY <1>1, <1>2, RowsAndLists DEF ParkedFor, Listed

LEMMA ParkGateway == Typed /\ ParkInv /\ GatewayNext => ParkInv'
<1> SUFFICES ASSUME Typed, ParkInv, GatewayNext, NEW a \in parked' PROVE ParkedFor(a)'
  BY DEF ParkInv
<1>0. a \in parked => ParkedFor(a) /\ a \in Accounts
  BY DEF ParkInv, Typed
<1>1. ASSUME NEW b \in Accounts, NEW r \in Results, NoteUpstreamResult(b, r) PROVE ParkedFor(a)'
  <2>1. a \in parked /\ a # b
    BY <1>1 DEF NoteUpstreamResult
  <2>2. writes'[a] = writes[a] /\ pool'[a] = pool[a] /\ rows' = rows /\ handler' = handler
    BY <1>0, <1>1, <2>1 DEF NoteUpstreamResult, Persisting, Typed
  <2> QED  BY <1>0, <2>1, <2>2, ParkSame
<1>2. CASE Reap
  <2>1. a \in parked
    BY <1>2 DEF Reap
  <2>2. pool'[a] = Reaped(pool[a]) /\ writes'[a] = writes[a] /\ rows' = rows /\ handler' = handler
    BY <1>0, <1>2, <2>1, ParkedTyped DEF Reap, ReapCooldowns, Persisting
  <2>3. pool'[a] = pool[a]
    BY <1>0, <2>1, <2>2, ParkedTyped, Reaps DEF Typed
  <2> QED  BY <1>0, <2>1, <2>2, <2>3, ParkSame
<1>3. ASSUME NEW b \in Accounts, WriteLands(b) PROVE ParkedFor(a)'
  <2>1. a \in parked /\ DOMAIN writes[b] # {}
    BY <1>3 DEF WriteLands, history
  <2>2. a # b
    BY <1>0, <2>1, ParkedTyped
  <2>3. writes'[a] = writes[a] /\ rows'[a] = rows[a] /\ pool' = pool /\ handler' = handler
    BY <1>0, <1>3, <2>1, <2>2 DEF WriteLands, Typed
  <2> QED  BY <1>0, <2>1, <2>3, ParkSame
<1>4. ASSUME NEW b \in Accounts, WriteFails(b) PROVE ParkedFor(a)'
  <2>1. a \in parked /\ DOMAIN writes[b] # {}
    BY <1>4 DEF WriteFails
  <2>2. a # b
    BY <1>0, <2>1, ParkedTyped
  <2>3. writes'[a] = writes[a] /\ rows' = rows /\ pool' = pool /\ handler' = handler
    BY <1>0, <1>4, <2>1, <2>2 DEF WriteFails, Typed
  <2> QED  BY <1>0, <2>1, <2>3, ParkSame
<1>5. CASE Clock
  <2>1. a \in parked /\ ParkedFor(a) /\ a \in Accounts
    BY <1>0, <1>5 DEF Clock, history
  <2>2. pool'[a] = Later(pool[a]) /\ rows'[a] = Later(rows[a]) /\ writes'[a] = <<>>
    BY <1>5, <2>1, WritesLater, EmptySeq DEF Clock, Typed, ParkedFor
  <2>3. pool[a] \in Health /\ rows[a] \in Row /\ (pool[a].listed => pool[a] \in Row)
    BY <2>1, RowsAndLists DEF Typed, Listed
  <2>4. Parked(rows'[a]) /\ (pool'[a].listed => Parked(pool'[a]))
    BY <2>1, <2>2, <2>3, Latest DEF ParkedFor
  <2>5. ASSUME NEW k \in Admins
        PROVE  /\ handler'[k].pc = handler[k].pc /\ handler'[k].acct = handler[k].acct
               /\ handler'[k].copy = Later(handler[k].copy)
               /\ handler'[k].snap[a] = Later(handler[k].snap[a])
    <3>1. handler[k] \in Locals
      BY DEF Typed
    <3>2. handler'[k] = [handler[k] EXCEPT !.copy = Later(@),
                                           !.snap = [b \in Accounts |-> Later(@[b])]]
      BY <1>5 DEF Clock
    <3> QED  BY <2>1, <3>1, <3>2 DEF Locals
  <2>6. ASSUME NEW k \in Admins
        PROVE  /\ Parked(handler[k].copy) => Parked(Later(handler[k].copy))
               /\ Parked(handler[k].snap[a]) => Parked(Later(handler[k].snap[a]))
    <3>1. handler[k].copy \in Health \cup {NoRow} /\ handler[k].snap[a] \in Row
      BY <2>1 DEF Typed, Locals
    <3>2. Parked(handler[k].copy) => handler[k].copy \in Row
      BY <3>1, RowsAndLists DEF Parked, Listed
    <3> QED  BY <3>1, <3>2, Latest
  <2>7. ASSUME NEW k \in Admins
        PROVE  /\ handler'[k].acct = a =>
                    /\ handler'[k].pc \notin {"mark", "mirror"}
                    /\ handler'[k].pc \in {"read", "import"} => Parked(handler'[k].copy)
               /\ handler'[k].pc = "loaded" => handler'[k].snap[a] = NoRow \/ Parked(handler'[k].snap[a])
    BY <2>1, <2>5, <2>6, Latest DEF ParkedFor
  <2> QED  BY <2>2, <2>4, <2>7 DEF ParkedFor, Parked
<1> QED  BY <1>1, <1>2, <1>3, <1>4, <1>5 DEF GatewayNext

LEMMA ParkConsole == Typed /\ ParkInv /\ ConsoleNext => ParkInv'
<1> SUFFICES ASSUME Typed, ParkInv, ConsoleNext, NEW a \in parked' PROVE ParkedFor(a)'
  BY DEF ParkInv
<1>0. a \in parked => /\ ParkedFor(a) /\ a \in Accounts
                      /\ Parked(rows[a]) /\ (pool[a].listed => Parked(pool[a]))
                      /\ rows[a] \in Listed /\ InList(rows[a]) = rows[a]
  BY ParkedTyped DEF ParkInv, Typed, ParkedFor
<1>1. ASSUME NEW k \in Admins, NEW b \in Accounts, NEW healthy \in BOOLEAN, PostAccount(k, b, healthy)
      PROVE  ParkedFor(a)'
  <2>1. a \in parked /\ a # b /\ writes' = writes /\ pool' = pool
    BY <1>1 DEF PostAccount, Released
  <2>2. rows'[a] = rows[a]
    BY <1>0, <1>1, <2>1 DEF PostAccount, Typed
  <2>3. Moves(k, "reload", b, handler[k].copy, handler[k].snap)
    BY <1>1, EditMoves
  <2> QED  BY <1>0, <2>1, <2>2, <2>3, ParkMoves
<1>2. ASSUME NEW k \in Admins, NEW b \in Accounts, NEW what \in {"on", "off", "other"}, PatchRead(k, b, what)
      PROVE  ParkedFor(a)'
  <2>1. PICK copy \in Listed : /\ Moves(k, "read", b, copy, handler[k].snap)
                               /\ what # "on" /\ Parked(rows[b]) => Parked(copy)
    BY <1>2, EditMoves
  <2>2. a \in parked /\ (what = "on" => a # b) /\ writes' = writes /\ pool' = pool /\ rows' = rows
    BY <1>2 DEF PatchRead, Released
  <2>3. b = a => Parked(copy)
    BY <1>0, <2>1, <2>2
  <2> QED  BY <1>0, <2>1, <2>2, <2>3, ParkMoves
\* The upsert of a copy that is paused keeps the row paused.
<1>3. ASSUME NEW copy \in Listed, Parked(copy), a \in parked PROVE Parked(Upserted(rows[a], copy))
  <2>1. rows[a] # NoRow /\ rows[a] \in Row /\ rows[a].left = Unset /\ ~ copy.healthy
    BY <1>0, <1>3, RowsAndLists DEF Parked
  <2>2. Upserted(rows[a], copy) \in Listed
    BY <2>1, Statements
  <2>3. Upserted(rows[a], copy).left = Unset /\ ~ Upserted(rows[a], copy).healthy
    BY <2>1, Statements
  <2> QED  BY <2>2, <2>3, RowsAndLists DEF Parked, Listed
<1>4. ASSUME NEW k \in Admins, PatchUpsert(k) PROVE ParkedFor(a)'
  <2>1. handler[k].acct \in Accounts /\ handler[k].copy \in Listed /\ handler[k].pc = "read"
    BY <1>4 DEF PatchUpsert, Typed
  <2>2. a \in parked /\ writes' = writes /\ pool' = pool
    BY <1>4 DEF PatchUpsert, history
  <2>3. Parked(rows'[a])
    <3>1. CASE handler[k].acct = a
      <4>1. Parked(handler[k].copy)
        BY <1>0, <2>1, <2>2, <3>1 DEF ParkedFor
      <4>2. rows'[a] = Upserted(rows[a], handler[k].copy)
        BY <1>0, <1>4, <2>2, <3>1 DEF PatchUpsert, Typed
      <4> QED  BY <1>3, <2>1, <2>2, <4>1, <4>2
    <3>2. CASE handler[k].acct # a
      <4>1. rows'[a] = rows[a]
        BY <1>0, <1>4, <2>2, <3>2 DEF PatchUpsert, Typed
      <4> QED  BY <1>0, <2>2, <4>1
    <3> QED  BY <3>1, <3>2
  <2>4. Moves(k, "reload", handler[k].acct, NoRow, handler[k].snap)
    BY <1>4, <2>1, EditMoves
  <2> QED  BY <1>0, <2>2, <2>3, <2>4, ParkMoves
<1>5. ASSUME NEW k \in Admins, NEW b \in Accounts, ImportLookup(k, b) PROVE ParkedFor(a)'
  <2>1. a \in parked /\ writes' = writes /\ pool' = pool /\ rows' = rows
    BY <1>5 DEF ImportLookup, history
  <2>2. Moves(k, "import", b, InList(rows[b]), handler[k].snap)
    BY <1>5, ImportMoves
  <2>3. b = a => Parked(InList(rows[b]))
    BY <1>0, <2>1
  <2> QED  BY <1>0, <2>1, <2>2, <2>3, ParkMoves
<1>6. ASSUME NEW k \in Admins, ImportUpsert(k) PROVE ParkedFor(a)'
  <2>1. handler[k].acct \in Accounts /\ handler[k].copy \in Health /\ handler[k].pc = "import"
    BY <1>6 DEF ImportUpsert, Typed
  <2>2. a \in parked /\ writes' = writes /\ pool' = pool
    BY <1>6 DEF ImportUpsert
  <2>3. Parked(rows'[a])
    <3>1. CASE handler[k].acct = a
      <4>1. Parked(handler[k].copy)
        BY <1>0, <2>1, <2>2, <3>1 DEF ParkedFor
      <4>2. ImportCopy(handler[k].copy) = handler[k].copy /\ handler[k].copy \in Listed
        BY <2>1, <4>1, Imports DEF Parked, Listed
      <4>3. rows'[a] = Upserted(rows[a], handler[k].copy)
        BY <1>0, <1>6, <2>2, <3>1, <4>2 DEF ImportUpsert, Typed
      <4> QED  BY <1>3, <2>2, <4>1, <4>2, <4>3
    <3>2. CASE handler[k].acct # a
      <4>1. rows'[a] = rows[a]
        BY <1>0, <1>6, <2>2, <3>2 DEF ImportUpsert, Typed
      <4> QED  BY <1>0, <2>2, <4>1
    <3> QED  BY <3>1, <3>2
  <2>4. Moves(k, "reload", NoAccount, NoRow, handler[k].snap)
    BY <1>6, <2>1, ImportMoves
  <2> QED  BY <1>0, <2>2, <2>3, <2>4, ParkMoves
<1>7. ASSUME NEW k \in Admins, NEW b \in Accounts, DeleteAccount(k, b) PROVE ParkedFor(a)'
  <2>1. a \in parked /\ a # b /\ writes' = writes /\ pool' = pool
    BY <1>7 DEF DeleteAccount, Released
  <2>2. rows'[a] = rows[a]
    BY <1>0, <1>7, <2>1 DEF DeleteAccount, Typed
  <2>3. Moves(k, "reload", b, handler[k].copy, handler[k].snap)
    BY <1>7, EditMoves
  <2> QED  BY <1>0, <2>1, <2>2, <2>3, ParkMoves
<1>8. ASSUME NEW k \in Admins, UpsertFails(k) PROVE ParkedFor(a)'
  <2>1. handler[k].acct \in Accounts
    BY <1>8 DEF UpsertFails, Typed
  <2>2. Ends(k) \/ Moves(k, "reload", NoAccount, NoRow, handler[k].snap)
    BY <1>8, <2>1, ImportMoves
  <2>3. a \in parked /\ writes' = writes /\ pool' = pool /\ rows' = rows
    BY <1>8 DEF UpsertFails, history
  <2> QED  BY <1>0, <2>2, <2>3, ParkMoves DEF Ends
<1>9. ASSUME NEW k \in Admins, ReadAccounts(k) PROVE ParkedFor(a)'
  <2>1. PICK snap \in {rows, NoRows} : Moves(k, "loaded", handler[k].acct, handler[k].copy, snap)
    BY <1>9, ReplaceMoves
  <2>2. a \in parked /\ writes' = writes /\ pool' = pool /\ rows' = rows
    BY <1>9 DEF ReadAccounts, history
  <2>3. snap[a] = NoRow \/ Parked(snap[a])
    BY <1>0, <2>1, <2>2, NoRowsType
  <2> QED  BY <1>0, <2>1, <2>2, <2>3, ParkMoves
<1>10. ASSUME NEW k \in Admins, ReplaceAccounts(k) PROVE ParkedFor(a)'
  <2>0. /\ handler[k].pc = "loaded" /\ writes' = writes /\ rows' = rows
        /\ Moves(k, "idle", NoAccount, NoRow, NoRows)
    BY <1>10, ReplaceMoves DEF ReplaceAccounts, Ends
  <2>1. CASE a \in parked
    <3>1. handler[k].snap[a] = NoRow \/ Parked(handler[k].snap[a])
      BY <1>0, <2>0, <2>1 DEF ParkedFor
    <3>2. handler[k].snap[a] \in Row /\ pool'[a] = InList(handler[k].snap[a])
      BY <1>0, <1>10, <2>1 DEF ReplaceAccounts, Typed, Locals
    <3>3. pool'[a].listed => Parked(pool'[a])
      BY <3>1, <3>2, RowsAndLists
    <3> QED  BY <1>0, <2>0, <2>1, <3>3, ParkMoves
  <2>2. CASE a \notin parked
    <3>1. /\ a \in Accounts /\ Alone(k) /\ a \notin raced'
          /\ rows[a] # NoRow /\ ~ rows[a].healthy /\ rows[a].left = Unset
      BY <1>10, <2>2 DEF ReplaceAccounts, TakenOut
    <3>2. writes[a] = <<>> /\ handler[k].snap[a] = rows[a]
      BY <1>10, <3>1 DEF ReplaceAccounts
    <3>3. Parked(rows[a]) /\ InList(rows[a]) = rows[a]
      BY <3>1, RowsAndLists DEF Parked, Typed, Listed
    <3>4. pool'[a] = rows[a]
      BY <1>10, <3>1, <3>2, <3>3 DEF ReplaceAccounts
    <3>5. \A j \in Admins : handler'[j].pc = "idle"
      BY <2>0, <3>1 DEF Moves, Alone
    <3> QED  BY <2>0, <3>2, <3>3, <3>4, <3>5 DEF ParkedFor, Parked
  <2> QED  BY <2>1, <2>2
<1>11. ASSUME NEW k \in Admins, NEW b \in Accounts, Authorize(k, b) PROVE ParkedFor(a)'
  <2>1. a \in parked /\ a # b /\ writes' = writes /\ pool' = pool
    BY <1>11 DEF Authorize, Released
  <2>2. rows'[a] = rows[a]
    BY <1>0, <1>11, <2>1 DEF Authorize, Typed
  <2>3. Moves(k, "mark", b, handler[k].copy, handler[k].snap)
    BY <1>11, AuthorizeMoves
  <2> QED  BY <1>0, <2>1, <2>2, <2>3, ParkMoves
<1>12. ASSUME NEW k \in Admins, SetAccountHealthy(k) PROVE ParkedFor(a)'
  <2>1. handler[k].acct \in Accounts /\ handler[k].pc = "mark"
    BY <1>12 DEF SetAccountHealthy, Typed
  <2>2. a \in parked /\ writes' = writes /\ pool' = pool
    BY <1>12 DEF SetAccountHealthy, history
  <2>3. handler[k].acct # a
    BY <1>0, <2>1, <2>2 DEF ParkedFor
  <2>4. rows'[a] = rows[a]
    BY <1>0, <1>12, <2>2, <2>3 DEF SetAccountHealthy, Typed
  <2>5. Moves(k, "mirror", handler[k].acct, handler[k].copy, handler[k].snap)
    BY <1>12, <2>1, AuthorizeMoves
  <2> QED  BY <1>0, <2>2, <2>3, <2>4, <2>5, ParkMoves
<1>13. ASSUME NEW k \in Admins, MirrorHealth(k) PROVE ParkedFor(a)'
  <2>1. handler[k].acct \in Accounts /\ handler[k].pc = "mirror"
    BY <1>13 DEF MirrorHealth, Typed
  <2>2. a \in parked /\ writes' = writes /\ rows' = rows
    BY <1>13 DEF MirrorHealth
  <2>3. handler[k].acct # a
    BY <1>0, <2>1, <2>2 DEF ParkedFor
  <2>4. pool'[a] = pool[a]
    BY <1>0, <1>13, <2>2, <2>3 DEF MirrorHealth, SetAccountHealth, Typed
  <2>5. Moves(k, "idle", NoAccount, NoRow, NoRows)
    BY <1>13, <2>1, AuthorizeMoves DEF Ends
  <2> QED  BY <1>0, <2>2, <2>4, <2>5, ParkMoves
<1> QED
  BY <1>1, <1>2, <1>4, <1>5, <1>6, <1>7, <1>8, <1>9, <1>10, <1>11, <1>12, <1>13 DEF ConsoleNext

LEMMA ParkStep == Typed /\ ParkInv /\ [Next]_hvars => ParkInv'
<1> SUFFICES ASSUME Typed, ParkInv, [Next]_hvars PROVE ParkInv'
  OBVIOUS
<1>1. ASSUME NEW live \in SUBSET Bootstrapped, Restart(live), NEW a \in parked' PROVE ParkedFor(a)'
  <2>1. a \in parked /\ a \notin live /\ a \in Accounts
    BY <1>1 DEF Restart, Typed
  <2>2. Parked(rows[a])
    BY <2>1 DEF ParkInv, ParkedFor
  <2>3. Bootstrap(rows, live)[a] \in Row /\ Parked(Bootstrap(rows, live)[a])
    BY <2>1, <2>2, BootstrapRows
  <2>4. rows'[a] = Bootstrap(rows, live)[a] /\ pool'[a] = Bootstrap(rows, live)[a]
    BY <1>1, <2>1, <2>3, RowsAndLists DEF Restart, Parked
  <2>5. writes'[a] = <<>> /\ \A k \in Admins : handler'[k].pc = "idle"
    BY <1>1, <2>1, IdleType DEF Restart
  <2> QED  BY <2>3, <2>4, <2>5 DEF ParkedFor, Parked
<1>2. CASE UNCHANGED hvars
  BY <1>2 DEF hvars, history, ParkInv, ParkedFor, Parked
<1> QED  BY <1>1, <1>2, ParkGateway, ParkConsole DEF Next, ParkInv

-----------------------------------------------------------------------------
\* Deleted accounts

LEMMA InitGone == Init => GoneInv
  BY DEF Init, GoneInv

\* A request's step that keeps what is known of a deleted account.
LEMMA GoneMoves ==
  ASSUME NEW k \in Admins, NEW pc, NEW acct, NEW copy, NEW snap,
         Moves(k, pc, acct, copy, snap), NEW a, GoneFor(a),
         pc = "read" => acct # a, pc = "loaded" => snap[a] = NoRow,
         rows'[a] = NoRow, pool'[a].listed => pool[a].listed,
         \/ Replacing(k) => pc \in {"reload", "loaded", "import"}
         \/ ~ pool'[a].listed
  PROVE  GoneFor(a)'
<1>1. \A j \in Admins \ {k} : handler'[j] = handler[j]
  BY DEF Moves
<1>2. handler'[k].pc = pc /\ handler'[k].acct = acct /\ handler'[k].snap = snap
  BY DEF Moves
<1>3. \A j \in Admins : /\ handler'[j].pc = "read" => handler'[j].acct # a
                        /\ handler'[j].pc = "loaded" => handler'[j].snap[a] = NoRow
  BY <1>1, <1>2 DEF GoneFor
<1>4. ASSUME pool'[a].listed PROVE \E j \in Admins : Replacing(j)'
  <2>1. PICK j \in Admins : Replacing(j)
    BY <1>4 DEF GoneFor
  <2>2. CASE j = k
    BY <1>2, <1>4, <2>1, <2>2 DEF Replacing
  <2>3. CASE j # k
    BY <1>1, <2>1, <2>3 DEF Replacing
  <2> QED  BY <2>2, <2>3
<1> QED  BY <1>3, <1>4 DEF GoneFor

LEMMA GoneSame ==
  ASSUME NEW a, GoneFor(a), handler' = handler,
         rows'[a] = NoRow, pool'[a].listed => pool[a].listed
  PROVE  GoneFor(a)'
  BY DEF GoneFor, Replacing

LEMMA GoneGateway == Typed /\ GoneInv /\ GatewayNext => GoneInv'
<1> SUFFICES ASSUME Typed, GoneInv, GatewayNext, NEW a \in deleted' PROVE GoneFor(a)'
  BY DEF GoneInv
<1>0. a \in deleted /\ a \in Accounts /\ GoneFor(a) /\ rows[a] = NoRow
  BY DEF GatewayNext, NoteUpstreamResult, WriteLands, WriteFails, Reap, Clock, history,
         GoneInv, Typed, GoneFor
<1>1. ASSUME NEW b \in Accounts, NEW r \in Results, NoteUpstreamResult(b, r) PROVE GoneFor(a)'
  <2>1. pool'[a].listed => pool[a].listed
    BY <1>0, <1>1 DEF NoteUpstreamResult, Typed
  <2> QED  BY <1>0, <1>1, <2>1, GoneSame DEF NoteUpstreamResult
<1>2. CASE Reap
  <2>1. pool'[a].listed => pool[a].listed
    BY <1>0, <1>2, Reaps DEF Reap, ReapCooldowns, Typed
  <2> QED  BY <1>0, <1>2, <2>1, GoneSame DEF Reap
\* A late write finds no row and changes nothing.
<1>3. ASSUME NEW b \in Accounts, WriteLands(b) PROVE GoneFor(a)'
  <2>1. PICK i \in DOMAIN writes[b] : rows' = [rows EXCEPT ![b] = Applied(@, writes[b][i])]
    BY <1>3 DEF WriteLands
  <2>2. writes[b][i] \in Listed
    BY WriteGone DEF Typed
  <2>3. rows'[a] = NoRow
    BY <1>0, <2>1, <2>2, Statements DEF Typed
  <2> QED  BY <1>0, <1>3, <2>3, GoneSame DEF WriteLands
<1>4. ASSUME NEW b \in Accounts, WriteFails(b) PROVE GoneFor(a)'
  BY <1>0, <1>4, GoneSame DEF WriteFails
<1>5. CASE Clock
  <2>1. rows'[a] = NoRow /\ (pool'[a].listed => pool[a].listed)
    BY <1>0, <1>5, Latest DEF Clock, Typed
  <2>2. ASSUME NEW k \in Admins
        PROVE  /\ handler'[k].pc = handler[k].pc /\ handler'[k].acct = handler[k].acct
               /\ handler'[k].snap[a] = Later(handler[k].snap[a])
    <3>1. handler[k] \in Locals
      BY DEF Typed
    <3>2. handler'[k] = [handler[k] EXCEPT !.copy = Later(@),
                                           !.snap = [b \in Accounts |-> Later(@[b])]]
      BY <1>5 DEF Clock
    <3> QED  BY <1>0, <3>1, <3>2 DEF Locals
  <2> QED  BY <1>0, <2>1, <2>2, Latest DEF GoneFor, Replacing
<1> QED  BY <1>1, <1>2, <1>3, <1>4, <1>5 DEF GatewayNext

LEMMA GoneConsole == Typed /\ GoneInv /\ ConsoleNext => GoneInv'
<1> SUFFICES ASSUME Typed, GoneInv, ConsoleNext, NEW a \in deleted' PROVE GoneFor(a)'
  BY DEF GoneInv
<1>0. a \in deleted => a \in Accounts /\ GoneFor(a) /\ rows[a] = NoRow
  BY DEF GoneInv, Typed, GoneFor
<1>1. ASSUME NEW k \in Admins, NEW b \in Accounts, NEW healthy \in BOOLEAN, PostAccount(k, b, healthy)
      PROVE  GoneFor(a)'
  <2>1. a \in deleted /\ a # b /\ pool' = pool
    BY <1>1 DEF PostAccount
  <2>2. rows'[a] = NoRow
    BY <1>0, <1>1, <2>1 DEF PostAccount, Typed
  <2>3. Moves(k, "reload", b, handler[k].copy, handler[k].snap)
    BY <1>1, EditMoves
  <2> QED  BY <1>0, <2>1, <2>2, <2>3, GoneMoves
<1>2. ASSUME NEW k \in Admins, NEW b \in Accounts, NEW what \in {"on", "off", "other"}, PatchRead(k, b, what)
      PROVE  GoneFor(a)'
  <2>1. PICK copy \in Listed : Moves(k, "read", b, copy, handler[k].snap)
    BY <1>2, EditMoves
  <2>2. a \in deleted /\ pool' = pool /\ rows' = rows /\ rows[b] # NoRow /\ handler[k].pc = "idle"
    BY <1>2 DEF PatchRead, Begin
  <2> QED  BY <1>0, <2>1, <2>2, GoneMoves DEF Replacing
<1>3. ASSUME NEW k \in Admins, PatchUpsert(k) PROVE GoneFor(a)'
  <2>1. a \in deleted /\ pool' = pool /\ handler[k].pc = "read" /\ handler[k].acct \in Accounts
    BY <1>3 DEF PatchUpsert, history, Typed
  <2>2. handler[k].acct # a
    BY <1>0, <2>1 DEF GoneFor
  <2>3. rows'[a] = NoRow
    BY <1>0, <1>3, <2>1, <2>2 DEF PatchUpsert, Typed
  <2>4. Moves(k, "reload", handler[k].acct, NoRow, handler[k].snap)
    BY <1>3, <2>1, EditMoves
  <2> QED  BY <1>0, <2>1, <2>3, <2>4, GoneMoves
<1>4. ASSUME NEW k \in Admins, NEW b \in Accounts, ImportLookup(k, b) PROVE GoneFor(a)'
  <2>1. a \in deleted /\ pool' = pool /\ rows' = rows
    BY <1>4 DEF ImportLookup, history
  <2>2. Moves(k, "import", b, InList(rows[b]), handler[k].snap)
    BY <1>4, ImportMoves
  <2> QED  BY <1>0, <2>1, <2>2, GoneMoves
<1>5. ASSUME NEW k \in Admins, ImportUpsert(k) PROVE GoneFor(a)'
  <2>1. a \in deleted /\ a # handler[k].acct /\ pool' = pool /\ handler[k].acct \in Accounts
    BY <1>5 DEF ImportUpsert, Typed
  <2>2. rows'[a] = NoRow
    BY <1>0, <1>5, <2>1 DEF ImportUpsert, Typed
  <2>3. Moves(k, "reload", NoAccount, NoRow, handler[k].snap)
    BY <1>5, <2>1, ImportMoves
  <2> QED  BY <1>0, <2>1, <2>2, <2>3, GoneMoves
<1>6. ASSUME NEW k \in Admins, NEW b \in Accounts, DeleteAccount(k, b) PROVE GoneFor(a)'
  <2>0. Moves(k, "reload", b, handler[k].copy, handler[k].snap) /\ pool' = pool
    BY <1>6, EditMoves DEF DeleteAccount
  <2>1. CASE a \in deleted
    <3>1. rows'[a] = NoRow
      BY <1>0, <1>6, <2>1 DEF DeleteAccount, Typed
    <3> QED  BY <1>0, <2>0, <2>1, <3>1, GoneMoves
  <2>2. CASE a \notin deleted
    <3>1. a = b /\ Alone(k) /\ rows'[a] = NoRow
      BY <1>6, <2>2 DEF DeleteAccount, Typed
    <3>2. /\ handler'[k].pc = "reload"
          /\ \A j \in Admins \ {k} : handler'[j].pc = "idle"
      BY <2>0, <3>1 DEF Moves, Alone
    <3>3. \A j \in Admins : handler'[j].pc \notin {"read", "loaded"}
      BY <3>2
    <3> QED  BY <3>1, <3>2, <3>3 DEF GoneFor, Replacing
  <2> QED  BY <2>1, <2>2
<1>7. ASSUME NEW k \in Admins, UpsertFails(k) PROVE GoneFor(a)'
  <2>0. a \in deleted /\ pool' = pool /\ rows' = rows /\ handler[k].acct \in Accounts
    BY <1>7 DEF UpsertFails, history, Typed
  <2>1. CASE handler[k].pc = "read" /\ Ends(k)
    BY <1>0, <2>0, <2>1, GoneMoves DEF Ends, Replacing
  <2>2. CASE Moves(k, "reload", NoAccount, NoRow, handler[k].snap)
    BY <1>0, <2>0, <2>2, GoneMoves
  <2> QED  BY <1>7, <2>0, <2>1, <2>2, ImportMoves
<1>8. ASSUME NEW k \in Admins, ReadAccounts(k) PROVE GoneFor(a)'
  <2>1. PICK snap \in {rows, NoRows} : Moves(k, "loaded", handler[k].acct, handler[k].copy, snap)
    BY <1>8, ReplaceMoves
  <2>2. a \in deleted /\ pool' = pool /\ rows' = rows
    BY <1>8 DEF ReadAccounts, history
  <2>3. snap[a] = NoRow
    BY <1>0, <2>1, <2>2, NoRowsType
  <2> QED  BY <1>0, <2>1, <2>2, <2>3, GoneMoves
<1>9. ASSUME NEW k \in Admins, ReplaceAccounts(k) PROVE GoneFor(a)'
  <2>1. a \in deleted /\ rows' = rows /\ handler[k].pc = "loaded"
    BY <1>9 DEF ReplaceAccounts
  <2>2. handler[k].snap[a] = NoRow
    BY <1>0, <2>1 DEF GoneFor
  <2>3. ~ pool'[a].listed
    BY <1>0, <1>9, <2>1, <2>2, RowsAndLists DEF ReplaceAccounts
  <2>4. Moves(k, "idle", NoAccount, NoRow, NoRows)
    BY <1>9, ReplaceMoves DEF Ends
  <2> QED  BY <1>0, <2>1, <2>3, <2>4, GoneMoves
<1>10. ASSUME NEW k \in Admins, NEW b \in Accounts, Authorize(k, b) PROVE GoneFor(a)'
  <2>1. a \in deleted /\ pool' = pool /\ handler[k].pc = "idle"
    BY <1>10 DEF Authorize, Begin
  <2>2. rows'[a] = NoRow
    BY <1>0, <1>10, <2>1, RowsAndLists, Statements DEF Authorize, Typed
  <2>3. Moves(k, "mark", b, handler[k].copy, handler[k].snap)
    BY <1>10, AuthorizeMoves
  <2> QED  BY <1>0, <2>1, <2>2, <2>3, GoneMoves DEF Replacing
<1>11. ASSUME NEW k \in Admins, SetAccountHealthy(k) PROVE GoneFor(a)'
  <2>1. a \in deleted /\ pool' = pool /\ handler[k].pc = "mark" /\ handler[k].acct \in Accounts
    BY <1>11 DEF SetAccountHealthy, history, Typed
  <2>2. rows'[a] = NoRow
    BY <1>0, <1>11, <2>1 DEF SetAccountHealthy, Typed, MarkedHealthy
  <2>3. Moves(k, "mirror", handler[k].acct, handler[k].copy, handler[k].snap)
    BY <1>11, <2>1, AuthorizeMoves
  <2> QED  BY <1>0, <2>1, <2>2, <2>3, GoneMoves DEF Replacing
<1>12. ASSUME NEW k \in Admins, MirrorHealth(k) PROVE GoneFor(a)'
  <2>1. a \in deleted /\ rows' = rows /\ handler[k].pc = "mirror" /\ handler[k].acct \in Accounts
    BY <1>12 DEF MirrorHealth, Typed
  <2>2. pool'[a].listed => pool[a].listed
    BY <1>0, <1>12, <2>1 DEF MirrorHealth, SetAccountHealth, Typed, Health
  <2>3. Moves(k, "idle", NoAccount, NoRow, NoRows)
    BY <1>12, <2>1, AuthorizeMoves DEF Ends
  <2> QED  BY <1>0, <2>1, <2>2, <2>3, GoneMoves DEF Replacing
<1> QED
  BY <1>1, <1>2, <1>3, <1>4, <1>5, <1>6, <1>7, <1>8, <1>9, <1>10, <1>11, <1>12 DEF ConsoleNext

LEMMA GoneStep == Typed /\ GoneInv /\ [Next]_hvars => GoneInv'
<1> SUFFICES ASSUME Typed, GoneInv, [Next]_hvars PROVE GoneInv'
  OBVIOUS
<1>1. ASSUME NEW live \in SUBSET Bootstrapped, Restart(live), NEW a \in deleted' PROVE GoneFor(a)'
  <2>1. a \in Accounts /\ Bootstrap(rows, live)[a] = NoRow
    BY <1>1 DEF Restart, Typed
  <2>2. rows'[a] = NoRow /\ ~ pool'[a].listed
    BY <1>1, <2>1, RowsAndLists DEF Restart
  <2>3. \A k \in Admins : handler'[k].pc = "idle"
    BY <1>1, IdleType DEF Restart
  <2> QED  BY <2>2, <2>3 DEF GoneFor
<1>2. CASE UNCHANGED hvars
  BY <1>2 DEF hvars, history, GoneInv, GoneFor, Replacing
<1> QED  BY <1>1, <1>2, GoneGateway, GoneConsole DEF Next, GoneInv

-----------------------------------------------------------------------------
\* The theorems

LEMMA InvAlways == HealthSpec => []Inv
<1>1. Init => Inv
  BY InitTyped, InitAgree, InitPark, InitGone DEF Inv
<1>2. Inv /\ [Next]_hvars => Inv'
  BY TypedStep, AgreeStep, ParkStep, GoneStep DEF Inv
<1> QED  BY <1>1, <1>2, PTL DEF HealthSpec

\* List, rows, writes and handlers stay well formed.
THEOREM TypeCorrect == HealthSpec => []TypeOK
<1>1. Inv => TypeOK
  <2> SUFFICES ASSUME Inv PROVE TypeOK
    OBVIOUS
  <2>1. PoolTypeOK
    BY DEF Inv, Typed, PoolTypeOK
  <2>2. ASSUME NEW a \in Accounts PROVE writes[a] \in Seq(Health) /\ Len(writes[a]) <= MaxWrites
    <3>1. writes[a] \in Seq(Listed) /\ Len(writes[a]) <= MaxWrites
      BY DEF Inv, Typed
    <3> QED  BY <3>1, SeqMonotonic, RowsAndLists
  <2>3. \A k \in Admins :
           /\ handler[k].pc \in Steps /\ handler[k].acct \in Accounts \cup {NoAccount}
           /\ handler[k].copy \in Health \cup {NoRow} /\ handler[k].pause \in BOOLEAN
           /\ handler[k].snap \in [Accounts -> Row]
    BY DEF Inv, Typed, Locals
  <2> QED  BY <2>1, <2>2, <2>3 DEF Inv, Typed, TypeOK
<1> QED  BY <1>1, InvAlways, PTL

\* With no write and no console request under way, the list and the table
\* say the same of every account whose copies did not lose track of each
\* other (persistHealthLocked and ReplaceAccounts).
THEOREM CopiesAlwaysAgree == HealthSpec => []CopiesAgree
<1>1. Inv => CopiesAgree
  <2> SUFFICES ASSUME Inv, NEW a \in Accounts, Settled(a), a \notin raced
               PROVE  pool[a] = InList(rows[a])
    BY DEF CopiesAgree
  <2>1. ~ Dirty(a)
    BY DEF Settled, Dirty, Replacing
  <2>2. Clean(a) /\ writes[a] = <<>>
    BY <2>1 DEF Inv, AgreeInv, Settled
  <2>3. Len(writes[a]) # 1
    BY <2>2, EmptySeq
  <2> QED  BY <2>2, <2>3 DEF Clean
<1> QED  BY <1>1, InvAlways, PTL

\* An account an operator paused while it had no CooldownUntil, and that no call
\* used since, is never handed out: no import, edit of other columns, reload of
\* the list or restart undoes the pause.  (The reaper does not touch such an
\* account; one with a CooldownUntil it does put back, see OperatorPauseKept.)
THEOREM PausedStaysPaused == HealthSpec => []PauseKept
<1>1. Inv => PauseKept
  BY DEF Inv, ParkInv, ParkedFor, Parked, PauseKept
<1> QED  BY <1>1, InvAlways, PTL

\* A deleted account has no row although results of its last calls are still
\* being written, and is not in the list once the console's requests ended.
THEOREM DeletedStaysDeleted == HealthSpec => []DeletedStaysGone
<1>1. Inv => DeletedStaysGone
  BY DEF Inv, GoneInv, GoneFor, Replacing, DeletedStaysGone
<1> QED  BY <1>1, InvAlways, PTL
=============================================================================
