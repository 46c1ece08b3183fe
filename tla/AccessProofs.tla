---------------------------- MODULE AccessProofs ----------------------------
(* Theorems about access, for any users, keys, tokens and concurrent        *)
(* requests, any legacy file and any number of restarts.                    *)
EXTENDS Access, FiniteSetTheorems, TLAPS

-----------------------------------------------------------------------------
\* The inductive invariant

Roles == {"admin", "user"}

SessionRow == [user : Users, expired : BOOLEAN]
KeyRow     == [owner : Users, enabled : BOOLEAN]

Locals == [pc    : {"free", "session", "key", "insert", "read", "write"},
           me    : Users \cup {None},
           token : Tokens \cup {None},
           op    : {"none", "create", "set", "delete", "adminSet", "adminDelete", "post", "patch"},
           key   : Keys \cup {None},
           user  : Users \cup {None},
           role  : Roles \cup {"none"}]

Has(u) == u \in Users /\ role[u] \in Roles

\* Every row and every handler's local variables are of their types.
Typed ==
    /\ role \in [Users -> Roles \cup {None}]
    /\ session \in [Tokens -> SessionRow \cup {None}]
    /\ key \in [Keys -> KeyRow \cup {None}]
    /\ phase \in {"down", "users", "keys", "sessions", "bootstrap", "up"}
    /\ request \in [Requests -> Locals]
    /\ deleted \subseteq Keys /\ dropped \subseteq Tokens
    /\ overlapped \in BOOLEAN /\ interrupted \in BOOLEAN

\* Rows and handlers refer to users that have a row.
Referenced ==
    /\ \A t \in Tokens : session[t] # None => Has(session[t].user)
    /\ \A k \in Keys : key[k] # None => Has(key[k].owner)
    /\ \A r \in Requests :
          /\ phase # "up" => request[r] = Free
          /\ request[r].pc \in {"session", "key"} => Has(request[r].me)
          /\ request[r].pc = "key" => request[r].key \in Keys
          /\ request[r].pc = "insert" => request[r].user \in Users /\ request[r].role \in Roles
          /\ request[r].pc \in {"read", "write"} =>
                Has(request[r].user) /\ request[r].role \in Roles

TypeInv == Typed /\ Referenced

Admin(u) == u \in Users /\ role[u] = "admin"

\* As long as no two role changes overlapped: only one request is about to
\* write a role, and if there is an administrator, one that demotes leaves
\* another.
AdminInv ==
    ~ overlapped =>
        /\ \A q, r \in Requests :
              request[q].pc = "write" /\ request[r].pc = "write" => q = r
        /\ (\E v \in Users : Admin(v)) =>
              \A r \in Requests : request[r].pc = "write" /\ request[r].role # "admin" =>
                  \E u \in Users : Admin(u) /\ u # request[r].user

Importing == phase \in {"users", "keys", "sessions"}

Peopled       == \E u \in Users : role[u] # None
UsersThere    == \A u \in LegacyUsers : role[u] # None
KeysThere     == \A k \in DOMAIN LegacyKey : key[k] # None \/ k \in deleted
SessionsThere == \A t \in DOMAIN LegacySession : session[t] # None \/ t \in dropped
Restored      == UsersThere /\ KeysThere /\ SessionsThere

\* What each phase of a start finds in the tables, and that nothing is
\* deleted or signed out before the tables have users.
ImportInv ==
    /\ deleted # {} \/ dropped # {} => Peopled /\ ~ Importing
    /\ phase \in {"keys", "sessions"} => UsersThere
    /\ phase = "sessions" => KeysThere
    /\ ~ interrupted /\ phase \in {"bootstrap", "up"} => Restored
    /\ ~ interrupted /\ phase = "down" /\ Peopled => Restored
    /\ \A k \in deleted : key[k] = None
    /\ \A t \in dropped : session[t] = None

Inv == TypeInv /\ AdminInv /\ ImportInv

-----------------------------------------------------------------------------
\* Types

LEMMA FreeType == Free \in Locals
  BY DEF Free, Locals

LEMMA InitTyped == Init => Typed
  BY AccessAssumption, FreeType DEF Init, Typed

LEMMA TypedStart == Typed /\ Start => Typed'
<1> SUFFICES ASSUME Typed, Start PROVE Typed'
  OBVIOUS
<1> USE DEF Typed, Roles, SessionRow, KeyRow, tables, counts, history
<1>1. CASE OpenStore
  BY <1>1 DEF OpenStore
<1>2. CASE KeysImported
  BY <1>2 DEF KeysImported
<1>3. CASE ImportSessions
  BY <1>3, AccessAssumption DEF ImportSessions
<1>4. CASE Bootstrap
  BY <1>4, AccessAssumption DEF Bootstrap
<1>5. CASE StopProcess
  BY <1>5, FreeType DEF StopProcess
<1>6. ASSUME NEW u \in LegacyUsers, ImportUser(u) PROVE Typed'
  BY <1>6, AccessAssumption DEF ImportUser
<1>7. ASSUME NEW k \in DOMAIN LegacyKey, ImportKey(k) PROVE Typed'
  BY <1>7, AccessAssumption DEF ImportKey
<1>8. CASE BootstrapFails
  BY <1>8 DEF BootstrapFails
<1> QED  BY <1>1, <1>2, <1>3, <1>4, <1>5, <1>6, <1>7, <1>8 DEF Start

LEMMA AnswerType ==
  ASSUME Typed, NEW r \in Requests, Answer(r)
  PROVE  request' \in [Requests -> Locals]
  BY FreeType DEF Typed, Answer

LEMMA CurrentType ==
  ASSUME Typed, NEW t \in Tokens
  PROVE  Current(t) \in Users \cup {None}
  BY DEF Typed, SessionRow, Current, SignedIn

LEMMA TypedServe ==
  ASSUME Typed, Referenced, NEW r \in Requests, Serve(r)
  PROVE  Typed'
<1> USE DEF Typed, Roles, tables, counts, history
<1>1. ASSUME NEW u \in Users, CreateUser(r, u) PROVE Typed'
  BY <1>1 DEF CreateUser, Free, Locals
<1>2. ASSUME NEW u \in Users, Authenticate(r, u) PROVE Typed'
  BY <1>2 DEF Authenticate, Free, Locals
<1>3. CASE NewSession(r)
  <2>1. [user |-> request[r].me, expired |-> FALSE] \in SessionRow
    BY <1>3 DEF NewSession, SessionRow, Referenced, Has
  <2>2. session' \in [Tokens -> SessionRow \cup {None}]
    BY <1>3, <2>1 DEF NewSession
  <2> QED  BY <1>3, <2>2, AnswerType DEF NewSession
<1>4. CASE NoTokenLeft(r)
  BY <1>4, AnswerType DEF NoTokenLeft
<1>5. ASSUME NEW t \in Tokens, NEW k \in Keys,
             NEW op \in {"create", "set", "delete", "adminSet", "adminDelete"},
             AskKey(r, t, op, k)
      PROVE  Typed'
  <2>1. request' \in [Requests -> Locals]
    BY <1>5, CurrentType DEF AskKey, Free, Locals
  <2> QED  BY <1>5, <2>1 DEF AskKey
<1>6. CASE ActOnKey(r)
  <2>1. request[r].key \in Keys /\ request[r].me \in Users
    BY <1>6 DEF ActOnKey, Referenced, Has
  <2>2. [owner |-> request[r].me, enabled |-> TRUE] \in KeyRow
    BY <2>1 DEF KeyRow
  <2>3. ASSUME key[request[r].key] # None, NEW on \in BOOLEAN
        PROVE  [key[request[r].key] EXCEPT !.enabled = on] \in KeyRow
    BY <2>1, <2>3 DEF KeyRow
  <2>4. key' \in [Keys -> KeyRow \cup {None}] /\ deleted' \subseteq Keys
    BY <1>6, <2>1, <2>2, <2>3 DEF ActOnKey
  <2> QED  BY <1>6, <2>4, AnswerType DEF ActOnKey
<1>7. ASSUME NEW t \in Tokens, NEW u \in Users, NEW to \in Roles, AskRole(r, t, u, to)
      PROVE  Typed'
  BY <1>7 DEF AskRole, Free, Locals
<1>10. ASSUME NEW t \in Tokens, NEW u \in Users, NEW as \in Roles, AskUser(r, t, u, as)
       PROVE  Typed'
  BY <1>10 DEF AskUser, Free, Locals
<1>11. CASE InsertUser(r)
  BY <1>11, AnswerType DEF InsertUser, Referenced
<1>8. CASE ReadRole(r)
  <2>1. request' \in [Requests -> Locals]
    BY <1>8, AnswerType DEF ReadRole, Locals
  <2> QED  BY <1>8, <2>1 DEF ReadRole
<1>9. CASE SetRole(r)
  BY <1>9, AnswerType DEF SetRole, Referenced
<1> QED  BY <1>1, <1>2, <1>3, <1>4, <1>5, <1>6, <1>7, <1>8, <1>9, <1>10, <1>11 DEF Serve

LEMMA TypedStep == TypeInv /\ [Next]_vars => Typed'
<1> SUFFICES ASSUME Typed, Referenced, [Next]_vars PROVE Typed'
  BY DEF TypeInv
<1> USE DEF Typed, SessionRow, tables, counts, history
<1>1. ASSUME NEW t \in Tokens, DropSession(t) PROVE Typed'
  BY <1>1 DEF DropSession
<1>2. ASSUME NEW t \in Tokens, Expire(t) PROVE Typed'
  BY <1>2 DEF Expire
<1>3. CASE UNCHANGED vars
  BY <1>3 DEF vars
<1> QED  BY <1>1, <1>2, <1>3, TypedStart, TypedServe DEF Next

-----------------------------------------------------------------------------
\* References.  A user keeps a row, whatever its role becomes.

LEMMA InitReferenced == Init => Referenced
  BY DEF Init, Referenced, Free

LEMMA UsersKept ==
  ASSUME TypeInv, [Next]_vars, NEW u, Has(u)
  PROVE  Has(u)'
<1> USE DEF TypeInv, Typed, Has, Roles
<1>1. ASSUME role' = role PROVE Has(u)'
  BY <1>1
<1>2. CASE Start
  <2>1. ASSUME NEW v \in LegacyUsers, ImportUser(v) PROVE Has(u)'
    BY <2>1, AccessAssumption DEF ImportUser
  <2>2. CASE Bootstrap
    BY <2>2, AccessAssumption DEF Bootstrap
  <2> QED
    BY <1>1, <1>2, <2>1, <2>2
    DEF Start, OpenStore, KeysImported, ImportSessions, BootstrapFails, StopProcess,
        ImportKey, tables
<1>3. ASSUME NEW r \in Requests, Serve(r) PROVE Has(u)'
  <2>1. ASSUME NEW v \in Users, CreateUser(r, v) PROVE Has(u)'
    BY <2>1 DEF CreateUser
  <2>2. CASE SetRole(r) \/ InsertUser(r)
    BY <2>2 DEF SetRole, InsertUser, Referenced
  <2> QED
    BY <1>1, <1>3, <2>1, <2>2
    DEF Serve, Authenticate, NewSession, NoTokenLeft, AskKey, ActOnKey, AskUser, AskRole, ReadRole,
        tables
<1>4. ASSUME NEW t \in Tokens, DropSession(t) \/ Expire(t) PROVE Has(u)'
  BY <1>1, <1>4 DEF DropSession, Expire
<1>5. CASE UNCHANGED vars
  BY <1>1, <1>5 DEF vars, tables
<1> QED  BY <1>2, <1>3, <1>4, <1>5 DEF Next

\* The three parts of Referenced.
SessionsOwned == \A t \in Tokens : session[t] # None => Has(session[t].user)
KeysOwned     == \A k \in Keys : key[k] # None => Has(key[k].owner)

Sound(r) ==
    /\ phase # "up" => request[r] = Free
    /\ request[r].pc \in {"session", "key"} => Has(request[r].me)
    /\ request[r].pc = "key" => request[r].key \in Keys
    /\ request[r].pc = "insert" => request[r].user \in Users /\ request[r].role \in Roles
    /\ request[r].pc \in {"read", "write"} =>
          Has(request[r].user) /\ request[r].role \in Roles

LEMMA SessionsOwnedStep == Inv /\ [Next]_vars => SessionsOwned'
<1> SUFFICES ASSUME Inv, [Next]_vars, NEW t \in Tokens, session'[t] # None
             PROVE  Has(session'[t].user)
  BY UsersKept DEF SessionsOwned, Inv, Has
<1> USE DEF Inv, TypeInv, Typed
<1>a. session[t] # None => Has(session[t].user)
  BY DEF Referenced
<1>1. ASSUME session' = session PROVE Has(session'[t].user)
  BY <1>1, <1>a
<1>2. CASE Start
  <2>1. CASE ImportSessions
    <3>1. CASE session'[t] = session[t]
      BY <3>1, <1>a
    <3>2. CASE t \in DOMAIN LegacySession
               /\ session'[t] = [user |-> LegacySession[t], expired |-> FALSE]
      <4>1. LegacySession[t] \in LegacyUsers /\ LegacyUsers \subseteq Users
        BY <3>2, AccessAssumption
      <4>2. role[LegacySession[t]] # None
        BY <2>1, <4>1 DEF ImportSessions, ImportInv, UsersThere
      <4> QED  BY <3>2, <4>1, <4>2 DEF Has
    <3> QED  BY <2>1, <3>1, <3>2 DEF ImportSessions
  <2> QED
    BY <1>1, <1>2, <2>1
    DEF Start, OpenStore, KeysImported, Bootstrap, BootstrapFails, StopProcess, ImportUser,
        ImportKey, tables
<1>3. ASSUME NEW r \in Requests, Serve(r) PROVE Has(session'[t].user)
  <2>1. CASE NewSession(r)
    <3>1. PICK s \in Tokens : session' = [session EXCEPT ![s] =
                                 [user |-> request[r].me, expired |-> FALSE]]
                              \/ session' = session
      BY <2>1 DEF NewSession
    <3>2. Has(request[r].me)
      BY <2>1 DEF NewSession, Referenced
    <3>3. CASE session' = session
      BY <1>1, <3>3
    <3>4. CASE session' # session
      BY <1>a, <3>1, <3>2, <3>4
    <3> QED  BY <3>3, <3>4
  <2> QED
    BY <1>1, <1>3, <2>1
    DEF Serve, CreateUser, Authenticate, NoTokenLeft, AskKey, ActOnKey, AskUser, AskRole,
        InsertUser, ReadRole,
        SetRole, tables
<1>4. ASSUME NEW s \in Tokens, DropSession(s) PROVE Has(session'[t].user)
  BY <1>a, <1>4 DEF DropSession
<1>5. ASSUME NEW s \in Tokens, Expire(s) PROVE Has(session'[t].user)
  <2>1. session'[t] = session[t] \/ session'[t] = [session[t] EXCEPT !.expired = TRUE]
    BY <1>5 DEF Expire
  <2>2. s # t => session'[t] = session[t]
    BY <1>5 DEF Expire
  <2>3. session[t] # None
    BY <1>5, <2>2 DEF Expire
  <2>4. session[t] \in SessionRow
    BY <2>3
  <2>5. session'[t].user = session[t].user
    BY <2>1, <2>4 DEF SessionRow
  <2> QED  BY <1>a, <2>3, <2>5
<1>6. CASE UNCHANGED vars
  BY <1>1, <1>6 DEF vars, tables
<1> QED  BY <1>2, <1>3, <1>4, <1>5, <1>6 DEF Next

LEMMA KeysOwnedStep == Inv /\ [Next]_vars => KeysOwned'
<1> SUFFICES ASSUME Inv, [Next]_vars, NEW k \in Keys, key'[k] # None
             PROVE  Has(key'[k].owner)
  BY UsersKept DEF KeysOwned, Inv, Has
<1> USE DEF Inv, TypeInv, Typed
<1>a. key[k] # None => Has(key[k].owner)
  BY DEF Referenced
<1>1. ASSUME key' = key PROVE Has(key'[k].owner)
  BY <1>1, <1>a
<1>2. CASE Start
  <2>1. ASSUME NEW l \in DOMAIN LegacyKey, ImportKey(l) PROVE Has(key'[k].owner)
    <3>1. LegacyKey[l] \in LegacyUsers /\ LegacyUsers \subseteq Users
      BY AccessAssumption
    <3>2. role[LegacyKey[l]] # None
      BY <2>1, <3>1 DEF ImportKey, ImportInv, UsersThere
    <3> QED  BY <1>a, <2>1, <3>1, <3>2 DEF ImportKey, Has
  <2> QED
    BY <1>1, <1>2, <2>1
    DEF Start, OpenStore, KeysImported, Bootstrap, BootstrapFails, StopProcess, ImportUser,
        ImportSessions, tables
<1>3. ASSUME NEW r \in Requests, Serve(r) PROVE Has(key'[k].owner)
  <2>1. CASE ActOnKey(r)
    <3> DEFINE l == request[r].key
    <3>0. l \in Keys /\ Has(request[r].me)
      BY <2>1 DEF ActOnKey, Referenced
    <3>1. CASE k # l \/ key' = key
      <4>1. key'[k] = key[k]
        BY <2>1, <3>1 DEF ActOnKey
      <4> QED  BY <1>a, <4>1
    <3>2. CASE k = l /\ key'[k] = [owner |-> request[r].me, enabled |-> TRUE]
      BY <3>0, <3>2
    <3>3. ASSUME k = l, key[k] # None, NEW on \in BOOLEAN, key'[k] = [key[k] EXCEPT !.enabled = on]
          PROVE  Has(key'[k].owner)
      <4>1. key[k] \in KeyRow
        BY <3>3
      <4>2. key'[k].owner = key[k].owner
        BY <3>3, <4>1 DEF KeyRow
      <4> QED  BY <1>a, <3>3, <4>2
    <3>4. \/ key' = key
          \/ key' = [key EXCEPT ![l] = [owner |-> request[r].me, enabled |-> TRUE]]
          \/ key' = [key EXCEPT ![l] = None]
          \/ key[l] # None /\ \E on \in BOOLEAN : key' = [key EXCEPT ![l].enabled = on]
      BY <2>1 DEF ActOnKey
    <3> QED  BY <3>0, <3>1, <3>2, <3>3, <3>4
  <2> QED
    BY <1>1, <1>3, <2>1
    DEF Serve, CreateUser, Authenticate, NewSession, NoTokenLeft, AskKey, AskUser, AskRole,
        InsertUser, ReadRole,
        SetRole, tables
<1>4. ASSUME NEW s \in Tokens, DropSession(s) \/ Expire(s) PROVE Has(key'[k].owner)
  BY <1>1, <1>4 DEF DropSession, Expire
<1>6. CASE UNCHANGED vars
  BY <1>1, <1>6 DEF vars, tables
<1> QED  BY <1>2, <1>3, <1>4, <1>6 DEF Next

LEMMA SoundStep ==
  ASSUME Inv, [Next]_vars, NEW q \in Requests
  PROVE  Sound(q)'
<1> USE DEF Inv, TypeInv, Typed
<1>0. Sound(q)
  BY DEF Referenced, Sound
<1>1. ASSUME request'[q] = request[q], phase' = phase PROVE Sound(q)'
  BY <1>0, <1>1, UsersKept DEF Sound
<1>2. ASSUME request'[q] = Free PROVE Sound(q)'
  BY <1>2 DEF Sound, Free
<1>3. CASE Start
  <2>1. CASE phase # "up"
    <3>1. request[q] = Free
      BY <2>1 DEF Referenced
    <3> QED
      BY <1>2, <1>3, <3>1
      DEF Start, OpenStore, KeysImported, Bootstrap, BootstrapFails, StopProcess,
          ImportUser, ImportKey, ImportSessions
  <2>2. CASE phase = "up"
    BY <1>2, <1>3, <2>2
    DEF Start, OpenStore, KeysImported, Bootstrap, BootstrapFails, StopProcess, ImportUser,
        ImportKey, ImportSessions
  <2> QED  BY <2>1, <2>2
<1>4. ASSUME NEW r \in Requests, Serve(r) PROVE Sound(q)'
  <2>0. CASE r # q
    BY <1>1, <1>4, <2>0
    DEF Serve, CreateUser, Authenticate, NewSession, NoTokenLeft, AskKey, ActOnKey, AskRole,
        AskUser, InsertUser, ReadRole, SetRole, Answer
  <2>1. CASE Answer(q)
    BY <1>2, <2>1 DEF Answer
  <2>2. ASSUME NEW u \in Users, CreateUser(q, u) PROVE Sound(q)'
    BY <2>2 DEF CreateUser, Sound, Free, Has, Roles
  <2>3. ASSUME NEW u \in Users, Authenticate(q, u) PROVE Sound(q)'
    BY <2>3 DEF Authenticate, Sound, Free, Has, Roles, tables
  <2>4. ASSUME NEW t \in Tokens, NEW k \in Keys,
               NEW op \in {"create", "set", "delete", "adminSet", "adminDelete"},
               AskKey(q, t, op, k)
        PROVE  Sound(q)'
    <3>1. Current(t) = session[t].user /\ Has(session[t].user)
      BY <2>4 DEF AskKey, Admitted, Current, SignedIn, Referenced
    <3> QED  BY <2>4, <3>1 DEF AskKey, Sound, Free, Has, tables
  <2>5. ASSUME NEW t \in Tokens, NEW u \in Users, NEW to \in Roles, AskRole(q, t, u, to)
        PROVE  Sound(q)'
    BY <2>5 DEF AskRole, Sound, Free, Has, tables
  <2>8. ASSUME NEW t \in Tokens, NEW u \in Users, NEW as \in Roles, AskUser(q, t, u, as)
        PROVE  Sound(q)'
    BY <2>8 DEF AskUser, Sound, Free, Has, tables
  <2>6. ASSUME request'[q] = [request[q] EXCEPT !.pc = "write"], request[q].pc = "read",
               phase' = phase, role' = role
        PROVE  Sound(q)'
    <3>1. /\ request'[q].pc = "write" /\ request'[q].user = request[q].user
          /\ request'[q].role = request[q].role
      BY <2>6 DEF Locals
    <3>2. phase = "up"
      BY <2>6 DEF Referenced, Free
    <3> QED  BY <1>0, <2>6, <3>1, <3>2 DEF Sound, Has
  <2>7. CASE ReadRole(q)
    BY <2>1, <2>6, <2>7 DEF ReadRole, tables
  <2> QED
    BY <1>4, <2>0, <2>1, <2>2, <2>3, <2>4, <2>5, <2>7, <2>8
    DEF Serve, NewSession, NoTokenLeft, ActOnKey, InsertUser, SetRole, Roles
<1>5. ASSUME NEW t \in Tokens, DropSession(t) \/ Expire(t) PROVE Sound(q)'
  BY <1>1, <1>5 DEF DropSession, Expire
<1>6. CASE UNCHANGED vars
  BY <1>1, <1>6 DEF vars, tables
<1> QED  BY <1>3, <1>4, <1>5, <1>6 DEF Next

LEMMA ReferencedStep == Inv /\ [Next]_vars => Referenced'
  BY SessionsOwnedStep, KeysOwnedStep, SoundStep
  DEF Referenced, SessionsOwned, KeysOwned, Sound, Has

-----------------------------------------------------------------------------
\* An administrator remains

LEMMA InitAdmin == Init => AdminInv
  BY DEF Init, AdminInv, Free

\* More than one administrator: there is another one than a given user.
LEMMA AnotherAdmin ==
  ASSUME ~ CountAdmins <= 1, NEW u
  PROVE  \E v \in Users : Admin(v) /\ v # u
<1> DEFINE A == {v \in Users : role[v] = "admin"}
<1>1. IsFiniteSet(A)
  BY AccessAssumption, FS_Subset
<1>2. CASE A \subseteq {u}
  <2>1. IsFiniteSet({u}) /\ Cardinality({u}) = 1
    BY FS_Singleton
  <2>2. Cardinality(A) <= 1
    BY <1>2, <2>1, FS_Subset
  <2> QED  BY <2>2 DEF CountAdmins
<1> QED  BY <1>2 DEF Admin

\* An administrator stays one unless a demotion is written.
LEMMA AdminKept ==
  ASSUME Inv, [Next]_vars, NEW v, Admin(v),
         \A r \in Requests : SetRole(r) /\ request[r].role # "admin" => request[r].user # v
  PROVE  Admin(v)'
<1> USE DEF Inv, TypeInv, Typed, Admin
<1>1. ASSUME role' = role PROVE Admin(v)'
  BY <1>1
<1>2. CASE Start
  <2>1. ASSUME NEW u \in LegacyUsers, ImportUser(u) PROVE Admin(v)'
    BY <2>1, AccessAssumption DEF ImportUser
  <2>2. CASE Bootstrap
    BY <2>2 DEF Bootstrap
  <2> QED
    BY <1>1, <1>2, <2>1, <2>2
    DEF Start, OpenStore, KeysImported, ImportSessions, BootstrapFails, StopProcess,
        ImportKey, tables
<1>3. ASSUME NEW r \in Requests, Serve(r) PROVE Admin(v)'
  <2>1. ASSUME NEW u \in Users, CreateUser(r, u) PROVE Admin(v)'
    BY <2>1, AccessAssumption DEF CreateUser
  <2>2. CASE InsertUser(r)
    BY <2>2, AccessAssumption DEF InsertUser
  <2>3. CASE SetRole(r)
    <3>1. role' = [role EXCEPT ![request[r].user] = request[r].role]
      BY <2>3 DEF SetRole
    <3>2. CASE request[r].role = "admin"
      BY <3>1, <3>2
    <3>3. CASE request[r].role # "admin"
      <4>1. request[r].user # v
        BY <2>3, <3>3
      <4> QED  BY <3>1, <4>1
    <3> QED  BY <3>2, <3>3
  <2> QED
    BY <1>1, <1>3, <2>1, <2>2, <2>3
    DEF Serve, Authenticate, NewSession, NoTokenLeft, AskKey, ActOnKey, AskUser, AskRole, ReadRole,
        tables
<1>4. ASSUME NEW t \in Tokens, DropSession(t) \/ Expire(t) PROVE Admin(v)'
  BY <1>1, <1>4 DEF DropSession, Expire
<1>5. CASE UNCHANGED vars
  BY <1>1, <1>5 DEF vars, tables
<1> QED  BY <1>2, <1>3, <1>4, <1>5 DEF Next

\* A step without a new writer keeps the invariant if it changes no role,
LEMMA AdminUntouched ==
  ASSUME Inv, overlapped' = overlapped, role' = role,
         \A r \in Requests : request'[r].pc = "write" => request'[r] = request[r]
  PROVE  AdminInv'
<1>1. \A v \in Users : Admin(v)' <=> Admin(v)
  BY DEF Admin
<1>2. ASSUME NEW r \in Requests, request'[r].pc = "write"
      PROVE  request[r].pc = "write" /\ request'[r] = request[r]
  BY <1>2
<1> QED  BY <1>1, <1>2 DEF Inv, AdminInv

\* or gives one to a user that had none, who is nobody's target.
LEMMA AdminNewcomer ==
  ASSUME Inv, overlapped' = overlapped, NEW u \in Users, role[u] = None,
         NEW to \in Roles, role' = [role EXCEPT ![u] = to],
         \A r \in Requests : request'[r].pc = "write" => request'[r] = request[r]
  PROVE  AdminInv'
<1> USE DEF Inv, TypeInv, Typed
<1>1. \A v \in Users \ {u} : Admin(v)' <=> Admin(v)
  BY DEF Admin
<1>2. ~ Admin(u)
  BY AccessAssumption DEF Admin
<1>3. ASSUME NEW r \in Requests, request'[r].pc = "write"
      PROVE  /\ request[r].pc = "write" /\ request'[r] = request[r]
             /\ request[r].user # u
  BY <1>3, AccessAssumption DEF Referenced, Has, Roles
<1>4. ASSUME ~ overlapped, NEW r \in Requests, request'[r].pc = "write", request'[r].role # "admin",
             NEW v \in Users, Admin(v)'
      PROVE  \E w \in Users : Admin(w)' /\ w # request'[r].user
  <2>1. request[r].pc = "write" /\ request'[r] = request[r] /\ request[r].user # u
    BY <1>3, <1>4
  <2>2. CASE v = u
    BY <1>4, <2>1, <2>2
  <2>3. CASE v # u
    <3>1. Admin(v)
      BY <1>1, <1>4, <2>3
    <3>2. \E w \in Users : Admin(w) /\ w # request[r].user
      BY <1>4, <2>1, <3>1 DEF AdminInv
    <3>3. PICK w \in Users : Admin(w) /\ w # request[r].user
      BY <3>2
    <3>4. w # u
      BY <1>2, <3>3
    <3> QED  BY <1>1, <2>1, <3>3, <3>4
  <2> QED  BY <2>2, <2>3
<1>5. ASSUME ~ overlapped
      PROVE  \A q, r \in Requests : request'[q].pc = "write" /\ request'[r].pc = "write" => q = r
  BY <1>3, <1>5 DEF AdminInv
<1> QED  BY <1>4, <1>5 DEF AdminInv

LEMMA AdminStep == Inv /\ [Next]_vars => AdminInv'
<1> SUFFICES ASSUME Inv, [Next]_vars PROVE AdminInv'
  OBVIOUS
<1> USE DEF Inv, TypeInv, Typed, tables, counts, history
<1>1. CASE Start
  <2>1. ASSUME NEW u \in LegacyUsers, ImportUser(u) PROVE AdminInv'
    <3>1. u \in Users /\ LegacyRole[u] \in Roles
      BY AccessAssumption DEF Roles
    <3> QED  BY <2>1, <3>1, AdminNewcomer DEF ImportUser
  <2>2. CASE Bootstrap
    <3>1. CASE role[Boss] = None
      <4>1. Boss \in Users /\ "admin" \in Roles /\ role' = [role EXCEPT ![Boss] = "admin"]
        BY <2>2, <3>1, AccessAssumption DEF Bootstrap, Roles
      <4> QED  BY <2>2, <3>1, <4>1, AdminNewcomer DEF Bootstrap
    <3>2. CASE role[Boss] # None
      BY <2>2, <3>2, AdminUntouched DEF Bootstrap
    <3> QED  BY <3>1, <3>2
  <2>3. CASE OpenStore \/ KeysImported \/ ImportSessions \/ BootstrapFails
    BY <2>3, AdminUntouched DEF OpenStore, KeysImported, ImportSessions, BootstrapFails
  <2>4. ASSUME NEW k \in DOMAIN LegacyKey, ImportKey(k) PROVE AdminInv'
    BY <2>4, AdminUntouched DEF ImportKey
  <2>5. CASE StopProcess
    <3>1. \A r \in Requests : request'[r].pc = "free"
      BY <2>5 DEF StopProcess, Free
    <3> QED  BY <2>5, <3>1, AdminUntouched DEF StopProcess
  <2> QED  BY <1>1, <2>1, <2>2, <2>3, <2>4, <2>5 DEF Start
<1>2. ASSUME NEW r \in Requests, Serve(r) PROVE AdminInv'
  <2>a. ASSUME Answer(r) PROVE \A q \in Requests : request'[q].pc = "write" => request'[q] = request[q]
    BY <2>a DEF Answer, Free
  <2>0. ASSUME Answer(r), role' = role, overlapped' = overlapped PROVE AdminInv'
    BY <2>a, <2>0, AdminUntouched
  <2>1. ASSUME NEW u \in Users, CreateUser(r, u) PROVE AdminInv'
    <3>1. \A q \in Requests : request'[q].pc = "write" => request'[q] = request[q]
      BY <2>1 DEF CreateUser, Free
    <3>2. role[u] = None /\ "user" \in Roles /\ role' = [role EXCEPT ![u] = "user"]
          /\ overlapped' = overlapped
      BY <2>1 DEF CreateUser, Roles
    <3> QED  BY <3>1, <3>2, AdminNewcomer
  <2>2. ASSUME NEW u \in Users, Authenticate(r, u) PROVE AdminInv'
    BY <2>2, AdminUntouched DEF Authenticate, Free
  <2>3. CASE NewSession(r) \/ NoTokenLeft(r) \/ ActOnKey(r)
    BY <2>0, <2>3 DEF NewSession, NoTokenLeft, ActOnKey
  <2>4. ASSUME NEW t \in Tokens, NEW k \in Keys,
               NEW op \in {"create", "set", "delete", "adminSet", "adminDelete"},
               AskKey(r, t, op, k)
        PROVE  AdminInv'
    BY <2>4, AdminUntouched DEF AskKey, Free
  <2>5. ASSUME NEW t \in Tokens, NEW u \in Users, NEW to \in Roles,
               AskUser(r, t, u, to) \/ AskRole(r, t, u, to)
        PROVE  AdminInv'
    BY <2>5, AdminUntouched DEF AskUser, AskRole, Free
  <2>8. CASE InsertUser(r)
    <3>1. /\ Answer(r) /\ overlapped' = overlapped
          /\ request[r].user \in Users /\ request[r].role \in Roles
      BY <2>8 DEF InsertUser, Referenced
    <3>2. CASE role[request[r].user] = None
      <4>1. role' = [role EXCEPT ![request[r].user] = request[r].role]
        BY <2>8, <3>2 DEF InsertUser
      <4> QED  BY <2>a, <3>1, <3>2, <4>1, AdminNewcomer
    <3>3. CASE role[request[r].user] # None
      <4>1. role' = role
        BY <2>8, <3>3 DEF InsertUser
      <4> QED  BY <2>0, <3>1, <4>1
    <3> QED  BY <3>2, <3>3
  <2>6. CASE ReadRole(r)
    <3>1. CASE Blocked(r)
      BY <2>0, <2>6, <3>1 DEF ReadRole
    <3>2. CASE ~ Blocked(r)
      <4>1. /\ request' = [request EXCEPT ![r].pc = "write"]
            /\ overlapped' = (overlapped \/ \E q \in Requests : request[q].pc = "write")
            /\ role' = role
        BY <2>6, <3>2 DEF ReadRole
      <4>2. /\ request'[r].user = request[r].user /\ request'[r].role = request[r].role
            /\ \A q \in Requests \ {r} : request'[q] = request[q]
        BY <4>1 DEF Locals
      <4>3. SUFFICES ASSUME ~ overlapped'
                     PROVE  /\ \A q \in Requests : request'[q].pc = "write" => q = r
                            /\ request[r].role # "admin" /\ (\E v \in Users : Admin(v)) =>
                                  \E u \in Users : Admin(u) /\ u # request[r].user
        BY <4>1, <4>2 DEF AdminInv, Admin
      <4>4. \A q \in Requests : request'[q].pc = "write" => q = r
        BY <4>1, <4>2, <4>3
      <4>5. ASSUME request[r].role # "admin", NEW v \in Users, Admin(v)
            PROVE  \E u \in Users : Admin(u) /\ u # request[r].user
        <5>1. CASE role[request[r].user] = "admin"
          BY <3>2, <4>5, <5>1, AnotherAdmin DEF Blocked
        <5>2. CASE role[request[r].user] # "admin"
          BY <4>5, <5>2 DEF Admin
        <5> QED  BY <5>1, <5>2
      <4> QED  BY <4>4, <4>5
    <3> QED  BY <3>1, <3>2
  <2>7. CASE SetRole(r)
    <3>1. /\ overlapped' = overlapped /\ request[r].pc = "write"
          /\ request' = [request EXCEPT ![r] = Free]
      BY <2>7 DEF SetRole, Answer
    <3>2. ASSUME ~ overlapped PROVE \A q \in Requests : request'[q].pc # "write"
      BY <3>1, <3>2 DEF Free, AdminInv
    <3> QED  BY <3>1, <3>2 DEF AdminInv
  <2> QED  BY <1>2, <2>1, <2>2, <2>3, <2>4, <2>5, <2>6, <2>7, <2>8 DEF Serve, Roles
<1>3. ASSUME NEW t \in Tokens, DropSession(t) \/ Expire(t) PROVE AdminInv'
  BY <1>3, AdminUntouched DEF DropSession, Expire
<1>4. CASE UNCHANGED vars
  BY <1>4, AdminUntouched DEF vars
<1> QED  BY <1>1, <1>2, <1>3, <1>4 DEF Next

LEMMA AdminsCounted ==
  /\ CountAdmins > 0 <=> \E u \in Users : Admin(u)
  /\ CountAdmins' > 0 <=> \E u \in Users : Admin(u)'
<1>1. ASSUME NEW A \in SUBSET Users PROVE Cardinality(A) > 0 <=> A # {}
  <2>1. IsFiniteSet(A)
    BY AccessAssumption, FS_Subset
  <2> QED  BY <2>1, FS_CardinalityType, FS_EmptySet
<1>2. CountAdmins > 0 <=> {v \in Users : role[v] = "admin"} # {}
  BY <1>1 DEF CountAdmins
<1>3. CountAdmins' > 0 <=> {v \in Users : role'[v] = "admin"} # {}
  BY <1>1 DEF CountAdmins
<1> QED  BY <1>2, <1>3 DEF Admin

LEMMA OverlapStays == [Next]_vars /\ overlapped => overlapped'
<1> SUFFICES ASSUME [Next]_vars, overlapped PROVE overlapped'
  OBVIOUS
<1> USE DEF history
<1>1. CASE Start
  BY <1>1
  DEF Start, OpenStore, KeysImported, ImportSessions, Bootstrap, BootstrapFails, StopProcess,
      ImportUser, ImportKey
<1>2. ASSUME NEW r \in Requests, Serve(r) PROVE overlapped'
  BY <1>2
  DEF Serve, CreateUser, Authenticate, NewSession, NoTokenLeft, AskKey, ActOnKey, AskUser, AskRole,
      InsertUser, ReadRole, SetRole
<1>3. ASSUME NEW t \in Tokens, DropSession(t) \/ Expire(t) PROVE overlapped'
  BY <1>3 DEF DropSession, Expire
<1> QED  BY <1>1, <1>2, <1>3 DEF Next, vars

\* No step takes the last administrator away.
LEMMA AdminStays ==
  ASSUME Inv, [Next]_vars, ~ overlapped', NEW v \in Users, Admin(v)
  PROVE  \E u \in Users : Admin(u)'
<1>1. ~ overlapped
  BY OverlapStays
<1>2. CASE \E r \in Requests : SetRole(r) /\ request[r].role # "admin"
  <2>1. PICK r \in Requests : SetRole(r) /\ request[r].role # "admin"
    BY <1>2
  <2>2. PICK u \in Users : Admin(u) /\ u # request[r].user
    BY <1>1, <2>1 DEF SetRole, Inv, AdminInv
  <2>3. \A q \in Requests : SetRole(q) => q = r
    BY <1>1, <2>1 DEF SetRole, Inv, AdminInv
  <2>4. Admin(u)'
    BY <2>2, <2>3, AdminKept
  <2> QED  BY <2>4
<1>3. CASE ~ \E r \in Requests : SetRole(r) /\ request[r].role # "admin"
  BY <1>3, AdminKept
<1> QED  BY <1>2, <1>3

-----------------------------------------------------------------------------
\* The import of the legacy file

LEMMA InitImport == Init => ImportInv
  BY DEF Init, ImportInv, Importing, Peopled

\* Nothing that was imported gets lost but by a deletion or a logout.
LEMMA RestoredKept ==
  ASSUME Inv, [Next]_vars
  PROVE  /\ UsersThere => UsersThere'
         /\ KeysThere => KeysThere'
         /\ SessionsThere => SessionsThere'
         /\ \A k \in deleted' \ deleted : key'[k] = None /\ phase = "up" /\ phase' = "up"
         /\ \A t \in dropped' \ dropped : session'[t] = None /\ phase = "up" /\ phase' = "up"
         /\ deleted \subseteq deleted' /\ dropped \subseteq dropped'
<1> USE DEF Inv, TypeInv, Typed
<1>1. UsersThere => UsersThere'
  <2>1. \A u \in Users : role[u] # None => role'[u] # None
    BY UsersKept, AccessAssumption DEF Has, Roles
  <2> QED  BY <2>1, AccessAssumption DEF UsersThere
<1>a. DOMAIN LegacyKey \subseteq Keys /\ DOMAIN LegacySession \subseteq Tokens
      /\ None \notin SessionRow /\ None \notin KeyRow
  BY AccessAssumption DEF SessionRow, KeyRow
<1>2. ASSUME key' = key, deleted' = deleted
      PROVE  (KeysThere => KeysThere') /\ deleted' = deleted
  BY <1>2 DEF KeysThere
<1>3. ASSUME session' = session, dropped' = dropped
      PROVE  (SessionsThere => SessionsThere') /\ dropped' = dropped
  BY <1>3 DEF SessionsThere
<1>4. CASE Start
  <2>1. CASE ImportSessions
    <3>1. SessionsThere'
      <4>1. ASSUME NEW t \in DOMAIN LegacySession PROVE session'[t] # None
        <5>1. CASE session[t] = None
          <6>1. session'[t] = [user |-> LegacySession[t], expired |-> FALSE]
            BY <1>a, <2>1, <5>1 DEF ImportSessions
          <6>2. LegacySession[t] \in Users
            BY AccessAssumption
          <6>3. session'[t] \in SessionRow
            BY <6>1, <6>2 DEF SessionRow
          <6> QED  BY <1>a, <6>3
        <5>2. CASE session[t] # None
          BY <1>a, <2>1, <5>2 DEF ImportSessions
        <5> QED  BY <5>1, <5>2
      <4> QED  BY <4>1 DEF SessionsThere
    <3> QED  BY <1>1, <1>2, <2>1, <3>1 DEF ImportSessions, history
  <2>2. ASSUME NEW k \in DOMAIN LegacyKey, ImportKey(k)
        PROVE  KeysThere => KeysThere'
    <3>1. [owner |-> LegacyKey[k], enabled |-> TRUE] \in KeyRow
      BY AccessAssumption DEF KeyRow
    <3> QED  BY <1>a, <2>2, <3>1 DEF ImportKey, KeysThere, history
  <2>3. ASSUME NEW k \in DOMAIN LegacyKey, ImportKey(k)
        PROVE  session' = session /\ dropped' = dropped /\ deleted' = deleted
    BY <2>3 DEF ImportKey, history
  <2> QED
    BY <1>1, <1>2, <1>3, <1>4, <2>1, <2>2, <2>3
    DEF Start, OpenStore, KeysImported, Bootstrap, BootstrapFails, StopProcess, ImportUser,
        tables, history
<1>5. ASSUME NEW r \in Requests, Serve(r)
      PROVE  /\ KeysThere => KeysThere'
             /\ \A k \in deleted' \ deleted : key'[k] = None /\ phase = "up" /\ phase' = "up"
             /\ deleted \subseteq deleted'
             /\ SessionsThere => SessionsThere'
             /\ dropped' = dropped
  <2>1. CASE ActOnKey(r)
    <3> DEFINE l == request[r].key
    <3>1. phase = "up" /\ phase' = "up" /\ session' = session /\ dropped' = dropped
      BY <2>1 DEF ActOnKey, Referenced, Free
    <3>2. l \in Keys /\ request[r].me \in Users
      BY <2>1 DEF ActOnKey, Referenced, Has
    <3>3. [owner |-> request[r].me, enabled |-> TRUE] \in KeyRow
      BY <3>2 DEF KeyRow
    <3>4. ASSUME key[l] # None, NEW on \in BOOLEAN
          PROVE  [key[l] EXCEPT !.enabled = on] \in KeyRow
      BY <3>2, <3>4 DEF KeyRow
    <3>5. \/ deleted' = deleted /\ \A k \in Keys : key[k] # None => key'[k] # None
          \/ deleted' = deleted \cup {l} /\ key' = [key EXCEPT ![l] = None]
      BY <1>a, <2>1, <3>2, <3>3, <3>4 DEF ActOnKey
    <3> QED  BY <1>a, <1>3, <3>1, <3>2, <3>5 DEF KeysThere
  <2>2. CASE NewSession(r)
    <3>1. [user |-> request[r].me, expired |-> FALSE] \in SessionRow
      BY <2>2 DEF NewSession, Referenced, Has, SessionRow
    <3>2. \A t \in Tokens : session[t] # None => session'[t] # None
      BY <1>a, <2>2, <3>1 DEF NewSession
    <3>3. key' = key /\ deleted' = deleted /\ dropped' = dropped
      BY <2>2 DEF NewSession, history
    <3> QED  BY <1>a, <1>2, <3>2, <3>3 DEF SessionsThere
  <2> QED
    BY <1>2, <1>3, <1>5, <2>1, <2>2
    DEF Serve, CreateUser, Authenticate, NoTokenLeft, AskKey, AskUser, AskRole, InsertUser,
        ReadRole, SetRole,
        tables, history
<1>6. ASSUME NEW t \in Tokens, DropSession(t)
      PROVE  /\ SessionsThere => SessionsThere'
             /\ \A s \in dropped' \ dropped : session'[s] = None /\ phase = "up" /\ phase' = "up"
             /\ dropped \subseteq dropped' /\ key' = key /\ deleted' = deleted
  BY <1>6, <1>a DEF DropSession, SessionsThere
<1>7. ASSUME NEW t \in Tokens, Expire(t)
      PROVE  /\ SessionsThere => SessionsThere'
             /\ dropped' = dropped /\ key' = key /\ deleted' = deleted
  <2>1. session[t] \in SessionRow
    BY <1>7 DEF Expire
  <2>2. [session[t] EXCEPT !.expired = TRUE] \in SessionRow
    BY <2>1 DEF SessionRow
  <2>3. session' = [session EXCEPT ![t] = [session[t] EXCEPT !.expired = TRUE]]
    BY <1>7 DEF Expire
  <2>4. dropped' = dropped /\ key' = key /\ deleted' = deleted
    BY <1>7 DEF Expire, history
  <2>5. \A s \in Tokens : session'[s] = session[s] \/ session'[s] \in SessionRow
    BY <2>2, <2>3
  <2>6. \A s \in Tokens : session[s] # None => session'[s] # None
    BY <1>a, <2>5
  <2> QED  BY <1>a, <2>4, <2>6 DEF SessionsThere
<1>8. CASE UNCHANGED vars
  BY <1>1, <1>2, <1>3, <1>8 DEF vars, tables, history
<1> QED  BY <1>1, <1>2, <1>4, <1>5, <1>6, <1>7, <1>8 DEF Next

\* Only a user deletes a key or signs out.
LEMMA DeletedByUser ==
  ASSUME Inv, [Next]_vars, deleted' # deleted \/ dropped' # dropped
  PROVE  Peopled
<1> USE DEF Inv, TypeInv, Typed, history
<1>0. ASSUME NEW u, Has(u) PROVE Peopled
  BY <1>0, AccessAssumption DEF Has, Roles, Peopled
<1>1. CASE Start
  BY <1>1
  DEF Start, OpenStore, KeysImported, Bootstrap, BootstrapFails, StopProcess, ImportUser,
      ImportKey, ImportSessions
<1>2. ASSUME NEW r \in Requests, Serve(r) PROVE Peopled
  <2>1. CASE ActOnKey(r)
    BY <1>0, <2>1 DEF ActOnKey, Referenced
  <2> QED
    BY <1>2, <2>1
    DEF Serve, CreateUser, Authenticate, NewSession, NoTokenLeft, AskKey, AskUser, AskRole,
        InsertUser, ReadRole, SetRole
<1>3. ASSUME NEW t \in Tokens, DropSession(t) \/ Expire(t) PROVE Peopled
  BY <1>0, <1>3 DEF DropSession, Expire, Referenced
<1> QED  BY <1>1, <1>2, <1>3 DEF Next, vars

\* What was deleted or signed out has no row again.
LEMMA StaysDeleted ==
  ASSUME Inv, [Next]_vars
  PROVE  /\ \A k \in deleted' : key'[k] = None
         /\ \A t \in dropped' : session'[t] = None
<1> USE DEF Inv, TypeInv, Typed
<1>1. ASSUME NEW k \in deleted PROVE key'[k] = None
  <2>0. key[k] = None /\ k \in Keys /\ ~ Importing
    BY DEF ImportInv
  <2>1. ASSUME key' = key PROVE key'[k] = None
    BY <2>0, <2>1
  <2>2. CASE Start
    BY <2>0, <2>1, <2>2
    DEF Start, OpenStore, KeysImported, Bootstrap, BootstrapFails, StopProcess, ImportUser,
        ImportSessions,
        ImportKey, Importing, tables
  <2>3. ASSUME NEW r \in Requests, Serve(r) PROVE key'[k] = None
    <3>1. CASE ActOnKey(r)
      BY <2>0, <3>1 DEF ActOnKey
    <3> QED
      BY <2>1, <2>3, <3>1
      DEF Serve, CreateUser, Authenticate, NewSession, NoTokenLeft, AskKey, AskUser,
          AskRole, InsertUser, ReadRole,
          SetRole, tables
  <2> QED  BY <2>1, <2>2, <2>3 DEF Next, DropSession, Expire, vars, tables
<1>2. ASSUME NEW t \in dropped PROVE session'[t] = None
  <2>0. session[t] = None /\ t \in Tokens /\ ~ Importing
    BY DEF ImportInv
  <2>1. ASSUME session' = session PROVE session'[t] = None
    BY <2>0, <2>1
  <2>2. CASE Start
    BY <2>0, <2>1, <2>2
    DEF Start, OpenStore, KeysImported, Bootstrap, BootstrapFails, StopProcess, ImportUser,
        ImportSessions,
        ImportKey, Importing, tables
  <2>3. ASSUME NEW r \in Requests, Serve(r) PROVE session'[t] = None
    <3>1. CASE NewSession(r)
      BY <2>0, <3>1 DEF NewSession
    <3> QED
      BY <2>1, <2>3, <3>1
      DEF Serve, CreateUser, Authenticate, ActOnKey, NoTokenLeft, AskKey, AskUser, AskRole,
          InsertUser, ReadRole,
          SetRole, tables
  <2>4. ASSUME NEW s \in Tokens, DropSession(s) \/ Expire(s) PROVE session'[t] = None
    BY <2>0, <2>4 DEF DropSession, Expire
  <2> QED  BY <2>1, <2>2, <2>3, <2>4 DEF Next, vars, tables
<1> QED  BY <1>1, <1>2, RestoredKept

LEMMA ImportStep == Inv /\ [Next]_vars => ImportInv'
<1> SUFFICES ASSUME Inv, [Next]_vars PROVE ImportInv'
  OBVIOUS
<1> USE DEF Inv, TypeInv, Typed, tables, counts, history
<1>0. /\ (Restored => Restored') /\ (UsersThere => UsersThere') /\ (KeysThere => KeysThere')
      /\ \A k \in deleted' : key'[k] = None
      /\ \A t \in dropped' : session'[t] = None
      /\ Peopled => Peopled'
  BY RestoredKept, StaysDeleted, UsersKept, AccessAssumption DEF Restored, Peopled, Has, Roles
<1>1. ASSUME phase' = phase, interrupted' = interrupted, role' = role \/ phase \in {"up"}
      PROVE  ImportInv'
  <2>1. deleted' # {} \/ dropped' # {} => Peopled' /\ ~ Importing'
    BY <1>0, <1>1, RestoredKept, DeletedByUser DEF ImportInv, Importing
  <2>2. role' = role => (Peopled' <=> Peopled)
    BY DEF Peopled
  <2> QED  BY <1>0, <1>1, <2>1, <2>2 DEF ImportInv
<1>2. CASE OpenStore
  <2>1. ASSUME phase' = "users" PROVE ImportInv'
    <3>1. deleted = {} /\ dropped = {}
      BY <1>2, <2>1 DEF OpenStore, ImportInv, Peopled
    <3> QED  BY <1>0, <1>2, <2>1, <3>1 DEF OpenStore, ImportInv, Importing
  <2>2. ASSUME phase' = "bootstrap" PROVE ImportInv'
    <3>1. ~ interrupted => Restored
      <4>1. CASE LegacyUsers = {}
        BY <4>1, AccessAssumption DEF Restored, UsersThere, KeysThere, SessionsThere
      <4>2. CASE \E u \in Users : role[u] # None
        BY <1>2, <4>2 DEF OpenStore, ImportInv, Peopled
      <4> QED  BY <1>2, <2>2, <4>1, <4>2 DEF OpenStore
    <3> QED  BY <1>0, <1>2, <2>2, <3>1 DEF OpenStore, ImportInv, Importing
  <2> QED  BY <1>2, <2>1, <2>2 DEF OpenStore
<1>3. CASE KeysImported
  <2>1. KeysThere
    BY <1>3 DEF KeysImported, KeysThere
  <2> QED  BY <1>0, <1>3, <2>1 DEF KeysImported, ImportInv, Importing
<1>4. CASE ImportSessions
  <2>1. SessionsThere'
    <3>1. ASSUME NEW t \in DOMAIN LegacySession PROVE session'[t] # None
      <4>1. t \in Tokens /\ LegacySession[t] \in Users
        BY AccessAssumption
      <4>2. [user |-> LegacySession[t], expired |-> FALSE] \in SessionRow
        BY <4>1 DEF SessionRow
      <4>3. [user |-> LegacySession[t], expired |-> FALSE] # None
        BY <4>2, AccessAssumption DEF SessionRow
      <4> QED  BY <1>4, <4>1, <4>3 DEF ImportSessions
    <3> QED  BY <3>1 DEF SessionsThere
  <2>2. Restored'
    BY <1>0, <1>4, <2>1 DEF ImportSessions, ImportInv, Restored
  <2> QED  BY <1>0, <1>4, <2>2 DEF ImportSessions, ImportInv, Importing
<1>5. CASE Bootstrap
  BY <1>0, <1>5 DEF Bootstrap, ImportInv, Importing
<1>12. CASE BootstrapFails
  BY <1>0, <1>12 DEF BootstrapFails, ImportInv, Importing
<1>6. CASE StopProcess
  <2>1. phase' = "down" /\ interrupted' = (interrupted \/ Importing) /\ phase # "down"
        /\ deleted' = deleted /\ dropped' = dropped
    BY <1>6 DEF StopProcess, Importing
  <2>2. ~ interrupted' => Restored
    BY <2>1 DEF ImportInv, Importing
  <2> QED  BY <1>0, <2>1, <2>2 DEF ImportInv, Importing
<1>7. ASSUME NEW u \in LegacyUsers, ImportUser(u) PROVE ImportInv'
  <2>1. phase = "users" /\ deleted' = {} /\ dropped' = {} /\ phase' \in {"users", "keys"}
        /\ interrupted' = interrupted
    BY <1>7 DEF ImportUser, ImportInv, Importing
  <2>2. phase' = "keys" => UsersThere'
    BY <1>7, <2>1 DEF ImportUser, UsersThere
  <2> QED  BY <2>1, <2>2 DEF ImportInv, Importing
<1>8. ASSUME NEW k \in DOMAIN LegacyKey, ImportKey(k) PROVE ImportInv'
  BY <1>1, <1>8 DEF ImportKey
<1>9. ASSUME NEW r \in Requests, Serve(r) PROVE ImportInv'
  <2>1. phase' = phase /\ interrupted' = interrupted
    <3>1. CASE NewSession(r) \/ NoTokenLeft(r) \/ InsertUser(r) \/ ReadRole(r) \/ SetRole(r)
      BY <3>1 DEF NewSession, NoTokenLeft, InsertUser, ReadRole, SetRole
    <3>2. CASE ActOnKey(r)
      BY <3>2 DEF ActOnKey
    <3>3. ASSUME NEW u \in Users, CreateUser(r, u) \/ Authenticate(r, u)
          PROVE  phase' = phase /\ interrupted' = interrupted
      BY <3>3 DEF CreateUser, Authenticate
    <3>4. ASSUME NEW t \in Tokens, NEW k \in Keys,
                 NEW op \in {"create", "set", "delete", "adminSet", "adminDelete"},
                 AskKey(r, t, op, k)
          PROVE  phase' = phase /\ interrupted' = interrupted
      BY <3>4 DEF AskKey
    <3>5. ASSUME NEW t \in Tokens, NEW u \in Users, NEW to \in Roles,
                 AskUser(r, t, u, to) \/ AskRole(r, t, u, to)
          PROVE  phase' = phase /\ interrupted' = interrupted
      BY <3>5 DEF AskUser, AskRole
    <3> QED  BY <1>9, <3>1, <3>2, <3>3, <3>4, <3>5 DEF Serve, Roles
  <2>2. role' = role \/ phase = "up"
    <3>1. CASE SetRole(r) \/ InsertUser(r)
      BY <3>1 DEF SetRole, InsertUser, Referenced, Free
    <3>2. ASSUME NEW u \in Users, CreateUser(r, u) PROVE phase = "up"
      BY <3>2 DEF CreateUser
    <3> QED
      BY <1>9, <3>1, <3>2
      DEF Serve, Authenticate, NewSession, NoTokenLeft, AskKey, ActOnKey, AskUser, AskRole,
          InsertUser, ReadRole
  <2> QED  BY <1>1, <2>1, <2>2
<1>10. ASSUME NEW t \in Tokens, DropSession(t) \/ Expire(t) PROVE ImportInv'
  BY <1>1, <1>10 DEF DropSession, Expire
<1>11. CASE UNCHANGED vars
  BY <1>1, <1>11 DEF vars
<1> QED
  BY <1>2, <1>3, <1>4, <1>5, <1>6, <1>7, <1>8, <1>9, <1>10, <1>11, <1>12 DEF Next, Start

-----------------------------------------------------------------------------
\* The theorems

LEMMA InvAlways == Spec => []Inv
<1>1. Init => Inv
  BY InitTyped, InitReferenced, InitAdmin, InitImport DEF Inv, TypeInv
<1>2. Inv /\ [Next]_vars => Inv'
  BY TypedStep, ReferencedStep, AdminStep, ImportStep DEF Inv, TypeInv
<1> QED  BY <1>1, <1>2, PTL DEF Spec

\* Every row and every handler is well formed; keys and sessions never belong
\* to a user without a row, whatever is imported, created and demoted.
THEOREM TypeCorrect == Spec => []TypeOK
<1>1. Inv => TypeOK
  <2> SUFFICES ASSUME Inv PROVE TypeOK
    OBVIOUS
  <2> USE DEF Inv, TypeInv, Typed, Referenced, Has, Roles
  <2>1. \A t \in Tokens : session[t] # None => session[t].expired \in BOOLEAN
    BY DEF SessionRow
  <2>2. \A k \in Keys : key[k] # None => key[k].enabled \in BOOLEAN
    BY DEF KeyRow
  <2>3. \A r \in Requests : request[r].pc \in {"free", "session", "key", "insert", "read", "write"}
    BY DEF Locals
  <2> QED  BY <2>1, <2>2, <2>3 DEF TypeOK
<1> QED  BY <1>1, InvAlways, PTL

\* PATCH users/{id}: unless two role changes overlapped, no step takes the
\* last administrator away, for any number of users and concurrent requests,
\* through logouts, restarts, interrupted imports and a bootstrap that failed.
THEOREM AdminAlwaysRemains == Spec => AdminRemains
<1>1. Inv /\ [Next]_vars => (CountAdmins > 0 /\ ~ overlapped' => CountAdmins' > 0)
  <2> SUFFICES ASSUME Inv, [Next]_vars, CountAdmins > 0, ~ overlapped' PROVE CountAdmins' > 0
    OBVIOUS
  <2>1. PICK v \in Users : Admin(v)
    BY AdminsCounted
  <2>2. PICK u \in Users : Admin(u)'
    BY <2>1, AdminStays
  <2> QED  BY <2>2, AdminsCounted
<1>2. Inv /\ [Next]_vars => [CountAdmins > 0 /\ ~ overlapped' => CountAdmins' > 0]_vars
  BY <1>1
<1> QED  BY <1>2, InvAlways, PTL DEF Spec, AdminRemains

\* importLegacyJSON: whatever is created, deleted and signed out between
\* restarts, an import that was not interrupted is complete, and nothing
\* deleted or signed out is brought back by a later start.
THEOREM ImportedExactlyOnce == Spec => []ImportedOnce
<1>1. Inv => ImportedOnce
  BY DEF Inv, ImportInv, ImportedOnce, Restored, UsersThere, KeysThere, SessionsThere,
         Admits, SignedIn
<1> QED  BY <1>1, InvAlways, PTL
=============================================================================
