------------------------------- MODULE Access -------------------------------
(***************************************************************************)
(* Who may use the service: users and their roles, sessions of the console,*)
(* API keys, the one-way import of the JSON file that came before the      *)
(* database, and the bootstrap administrator.                              *)
(*                                                                         *)
(* A handler reads who is asking first and acts in a later step, between   *)
(* which other requests run.  A user is its normalised name: CreateUser    *)
(* takes the store's mutex around its check and its insert, the column is  *)
(* UNIQUE, and users are never deleted.  Passwords are not modelled: a     *)
(* login is one that knows its password.                                   *)
(***************************************************************************)
EXTENDS Naturals, FiniteSets

CONSTANTS
    Users, Keys, Tokens,
    Boss,             \* the user named admin
    LegacyUsers,      \* users of the legacy file
    LegacyRole,       \* their roles: user -> role
    LegacyKey,        \* its keys: key -> owner
    LegacySession,    \* its sessions: token -> user
    Requests,
    None,
    MaxPatches,       \* bound: POST users, and PATCH users/{id} with a role
    MaxKeyRequests,   \* bound: other key requests
    MaxStops          \* bound: crashes, restarts and failing statements

ASSUME AccessAssumption ==
    /\ Boss \in Users /\ LegacyUsers \subseteq Users
    /\ LegacyRole \in [LegacyUsers -> {"admin", "user"}]
    /\ DOMAIN LegacyKey \subseteq Keys /\ DOMAIN LegacySession \subseteq Tokens
    /\ \A k \in DOMAIN LegacyKey : LegacyKey[k] \in LegacyUsers
    /\ \A t \in DOMAIN LegacySession : LegacySession[t] \in LegacyUsers
    /\ IsFiniteSet(Users)
    /\ None \notin Users \cup {"admin", "user"}
    /\ None \notin [user : Users, expired : BOOLEAN] \cup [owner : Users, enabled : BOOLEAN]
    /\ {MaxPatches, MaxKeyRequests, MaxStops} \subseteq Nat

VARIABLES
    role,        \* users: user -> "admin" or "user", or None without a row
    session,     \* sessions: token -> [user, expired], or None
    key,         \* api_keys: key -> [owner, enabled], or None
    phase,       \* of the process
    request,     \* local variables of each handler
    patches, keyRequests, stops,
    deleted,     \* history: keys that were deleted
    dropped,     \* history: sessions that were signed out
    overlapped,  \* history: two role changes overlapped
    interrupted  \* history: a start ended while it imported

tables  == <<role, session, key>>
counts  == <<patches, keyRequests, stops>>
history == <<deleted, dropped, overlapped, interrupted>>
vars    == <<tables, phase, request, counts, history>>

Free == [pc |-> "free", me |-> None, token |-> None, op |-> "none", key |-> None,
         user |-> None, role |-> "none"]

CountAdmins == Cardinality({u \in Users : role[u] = "admin"})

\* SessionUser and the user's row, read together with it.
SignedIn(t) == t # None /\ session[t] # None /\ ~ session[t].expired
Current(t) == IF SignedIn(t) THEN session[t].user ELSE None

\* KeyBySecret: the key and its owner must be there, and the key enabled.
Admits(k) == key[k] # None /\ key[k].enabled /\ role[key[k].owner] # None

-----------------------------------------------------------------------------
\* OpenStore and main: from a process that is down to one that serves.

ResumeImport ==
    /\ phase = "down"
    /\ phase' = IF \E u \in LegacyUsers : role[u] = None THEN "users"
                ELSE IF \E k \in DOMAIN LegacyKey : key[k] = None THEN "keys" ELSE "bootstrap"
    /\ UNCHANGED <<tables, request, counts, history>>

ImportKeysFirst ==
    /\ phase = "down"
    /\ phase' = IF \A u \in Users : role[u] = None THEN "keys" ELSE "bootstrap"
    /\ UNCHANGED <<tables, request, counts, history>>

\* importLegacyJSON does nothing once there are users, nor without the file.
OpenStore ==
    /\ phase = "down"
    /\ phase' = IF LegacyUsers # {} /\ \A u \in Users : role[u] = None
                THEN "users" ELSE "bootstrap"
    /\ UNCHANGED <<tables, request, counts, history>>

\* sqliteImportUsers, sqliteEnsureKeys and sqliteImportSessions insert one row
\* per statement.
ImportUser(u) ==
    /\ phase = "users" /\ u \in LegacyUsers /\ role[u] = None
    /\ role' = [role EXCEPT ![u] = LegacyRole[u]]
    /\ phase' = IF LegacyUsers \subseteq {v \in Users : role'[v] # None} THEN "keys" ELSE phase
    /\ UNCHANGED <<session, key, request, counts, history>>

ImportKey(k) ==
    /\ phase = "keys" /\ k \in DOMAIN LegacyKey /\ key[k] = None
    /\ key' = [key EXCEPT ![k] = [owner |-> LegacyKey[k], enabled |-> TRUE]]
    /\ UNCHANGED <<role, session, phase, request, counts, history>>

KeysImported ==
    /\ phase = "keys" /\ \A k \in DOMAIN LegacyKey : key[k] # None
    /\ phase' = "sessions"
    /\ UNCHANGED <<tables, request, counts, history>>

ImportSessions ==
    /\ phase = "sessions"
    /\ session' = [t \in Tokens |-> IF t \in DOMAIN LegacySession /\ session[t] = None
                                    THEN [user |-> LegacySession[t], expired |-> FALSE]
                                    ELSE session[t]]
    /\ phase' = "bootstrap"
    /\ UNCHANGED <<role, key, request, counts, history>>

\* main creates the user admin unless the name is taken.
Bootstrap ==
    /\ phase = "bootstrap"
    /\ role' = IF role[Boss] = None THEN [role EXCEPT ![Boss] = "admin"] ELSE role
    /\ phase' = "up"
    /\ UNCHANGED <<session, key, request, counts, history>>

\* The insert fails.  main drops the error and serves without the user.
BootstrapFails ==
    /\ phase = "bootstrap" /\ role[Boss] = None /\ stops < MaxStops
    /\ stops' = stops + 1 /\ phase' = "up"
    /\ UNCHANGED <<tables, request, patches, keyRequests, history>>

\* The process crashes or is restarted, or a statement of OpenStore fails,
\* which main answers with log.Fatal.
StopProcess ==
    /\ phase # "down" /\ stops < MaxStops
    /\ stops' = stops + 1 /\ phase' = "down"
    /\ request' = [r \in Requests |-> Free]
    /\ interrupted' = (interrupted \/ phase \in {"users", "keys", "sessions"})
    /\ UNCHANGED <<tables, patches, keyRequests, deleted, dropped, overlapped>>

-----------------------------------------------------------------------------
\* Registration, login, logout

Answer(r) == request' = [request EXCEPT ![r] = Free]

\* handleRegister and handleLogin: the user, then the session.
CreateUser(r, u) ==
    /\ phase = "up" /\ request[r] = Free /\ role[u] = None
    /\ role' = [role EXCEPT ![u] = "user"]
    /\ request' = [request EXCEPT ![r] = [Free EXCEPT !.pc = "session", !.me = u]]
    /\ UNCHANGED <<session, key, phase, counts, history>>

Authenticate(r, u) ==
    /\ phase = "up" /\ request[r] = Free /\ role[u] # None
    /\ \E t \in Tokens : session[t] = None /\ t \notin dropped
    /\ request' = [request EXCEPT ![r] = [Free EXCEPT !.pc = "session", !.me = u]]
    /\ UNCHANGED <<tables, phase, counts, history>>

NewSession(r) ==
    /\ request[r].pc = "session"
    /\ Answer(r)
    /\ \/ \E t \in Tokens : /\ session[t] = None /\ t \notin dropped
                            /\ session' = [session EXCEPT ![t] = [user    |-> request[r].me,
                                                                  expired |-> FALSE]]
          /\ UNCHANGED stops
       \/ /\ UNCHANGED session
          /\ stops < MaxStops /\ stops' = stops + 1
    /\ UNCHANGED <<role, key, phase, patches, keyRequests, history>>

\* Without a free id a new user goes without a session; it bounds the model.
NoTokenLeft(r) ==
    /\ request[r].pc = "session"
    /\ \A t \in Tokens : session[t] # None \/ t \in dropped
    /\ Answer(r)
    /\ UNCHANGED <<tables, phase, counts, history>>

\* handleLogout: whoever has the token.
DropSession(t) ==
    /\ phase = "up" /\ session[t] # None
    /\ session' = [session EXCEPT ![t] = None]
    /\ dropped' = dropped \cup {t}
    /\ UNCHANGED <<role, key, phase, request, counts, deleted, overlapped, interrupted>>

\* Seven days; the row stays.
Expire(t) ==
    /\ session[t] # None /\ ~ session[t].expired
    /\ session' = [session EXCEPT ![t].expired = TRUE]
    /\ UNCHANGED <<role, key, phase, request, counts, history>>

-----------------------------------------------------------------------------
\* Keys

\* current, requireAdmin: a console request needs a session, an admin request
\* one of an administrator.
Admitted(t, op) == SignedIn(t) /\ (op \in {"adminSet", "adminDelete", "post", "patch"}
                                      => role[Current(t)] = "admin")

AskKey(r, t, op, k) ==
    /\ phase = "up" /\ request[r] = Free /\ keyRequests < MaxKeyRequests
    /\ op # "create" => key[k] # None
    /\ Admitted(t, op)
    /\ request' = [request EXCEPT ![r] = [Free EXCEPT !.pc = "key", !.me = Current(t),
                                                      !.op = op, !.key = k]]
    /\ keyRequests' = keyRequests + 1
    /\ UNCHANGED <<tables, phase, patches, stops, history>>

\* CreateKey makes a new id; SetKeyEnabled and DeleteKey are scoped by the
\* owner, their admin forms are not; what matches no row changes nothing.
ActOnKey(r) ==
    LET op    == request[r].op
        k     == request[r].key
        mine  == key[k] # None /\ (op \in {"set", "delete"} => key[k].owner = request[r].me)
    IN  /\ request[r].pc = "key"
        /\ Answer(r)
        /\ \/ /\ op = "create" /\ key[k] = None /\ k \notin deleted \cup DOMAIN LegacyKey
              /\ key' = [key EXCEPT ![k] = [owner |-> request[r].me, enabled |-> TRUE]]
              /\ UNCHANGED deleted
           \/ /\ op \in {"set", "adminSet"} /\ mine
              /\ \E on \in BOOLEAN : key' = [key EXCEPT ![k].enabled = on]
              /\ UNCHANGED deleted
           \/ /\ op \in {"delete", "adminDelete"} /\ mine
              /\ key' = [key EXCEPT ![k] = None]
              /\ deleted' = deleted \cup {k}
           \/ /\ op = "create" => key[k] # None \/ k \in deleted \cup DOMAIN LegacyKey
              /\ op # "create" => ~ mine
              /\ UNCHANGED <<key, deleted>>
        /\ UNCHANGED <<role, session, phase, counts, dropped, overlapped, interrupted>>

-----------------------------------------------------------------------------
\* POST users: an administrator creates a user of either role.

AskUser(r, t, u, as) ==
    /\ phase = "up" /\ request[r] = Free /\ patches < MaxPatches
    /\ Admitted(t, "post")
    /\ request' = [request EXCEPT ![r] = [Free EXCEPT !.pc = "insert", !.op = "post",
                                                      !.user = u, !.role = as]]
    /\ patches' = patches + 1
    /\ UNCHANGED <<tables, phase, keyRequests, stops, history>>

InsertUser(r) ==
    /\ request[r].pc = "insert"
    /\ role' = IF role[request[r].user] = None
               THEN [role EXCEPT ![request[r].user] = request[r].role] ELSE role
    /\ Answer(r)
    /\ UNCHANGED <<session, key, phase, counts, history>>

-----------------------------------------------------------------------------
\* PATCH users/{id} with a role

AskRole(r, t, u, to) ==
    /\ phase = "up" /\ request[r] = Free /\ patches < MaxPatches
    /\ Admitted(t, "patch") /\ role[u] # None
    /\ request' = [request EXCEPT ![r] = [Free EXCEPT !.pc = "read", !.token = t,
                                                      !.op = "patch", !.user = u, !.role = to]]
    /\ patches' = patches + 1
    /\ UNCHANGED <<tables, phase, keyRequests, stops, history>>

BlockedIfOwn(r) ==
    /\ role[request[r].user] = "admin" /\ request[r].role # "admin"
    /\ Current(request[r].token) = request[r].user

\* The target's row, the asker again, the number of administrators.  The
\* asker may have signed out meanwhile; then only the count is checked.
Blocked(r) ==
    LET u == request[r].user
        demotes == role[u] = "admin" /\ request[r].role # "admin"
    IN  demotes /\ (Current(request[r].token) = u \/ CountAdmins <= 1)

ReadRole(r) ==
    /\ request[r].pc = "read"
    /\ IF Blocked(r)
       THEN Answer(r) /\ UNCHANGED overlapped
       ELSE /\ request' = [request EXCEPT ![r].pc = "write"]
            /\ overlapped' = (overlapped \/ \E q \in Requests : request[q].pc = "write")
    /\ UNCHANGED <<tables, phase, counts, deleted, dropped, interrupted>>

SetRole(r) ==
    /\ request[r].pc = "write"
    /\ role' = [role EXCEPT ![request[r].user] = request[r].role]
    /\ Answer(r)
    /\ UNCHANGED <<session, key, phase, counts, history>>

-----------------------------------------------------------------------------
Init ==
    /\ role = [u \in Users |-> None]
    /\ session = [t \in Tokens |-> None]
    /\ key = [k \in Keys |-> None]
    /\ phase = "down"
    /\ request = [r \in Requests |-> Free]
    /\ patches = 0 /\ keyRequests = 0 /\ stops = 0
    /\ deleted = {} /\ dropped = {} /\ overlapped = FALSE /\ interrupted = FALSE

Start ==
    \/ OpenStore \/ KeysImported \/ ImportSessions \/ Bootstrap \/ BootstrapFails \/ StopProcess
    \/ \E u \in LegacyUsers : ImportUser(u)
    \/ \E k \in DOMAIN LegacyKey : ImportKey(k)

Serve(r) ==
    \/ \E u \in Users : CreateUser(r, u) \/ Authenticate(r, u)
    \/ NewSession(r) \/ NoTokenLeft(r)
    \/ \E t \in Tokens, k \in Keys, op \in {"create", "set", "delete", "adminSet", "adminDelete"} :
          AskKey(r, t, op, k)
    \/ ActOnKey(r)
    \/ \E t \in Tokens, u \in Users, to \in {"admin", "user"} :
          AskUser(r, t, u, to) \/ AskRole(r, t, u, to)
    \/ InsertUser(r) \/ ReadRole(r) \/ SetRole(r)

Next ==
    \/ Start
    \/ \E r \in Requests : Serve(r)
    \/ \E t \in Tokens : DropSession(t) \/ Expire(t)

Spec == Init /\ [][Next]_vars

-----------------------------------------------------------------------------
\* Every row is well formed; keys and sessions belong to users that exist.
TypeOK ==
    /\ role \in [Users -> {"admin", "user", None}]
    /\ phase \in {"down", "users", "keys", "sessions", "bootstrap", "up"}
    /\ \A t \in Tokens : session[t] # None =>
          session[t].expired \in BOOLEAN /\ role[session[t].user] \in {"admin", "user"}
    /\ \A k \in Keys : key[k] # None =>
          key[k].enabled \in BOOLEAN /\ role[key[k].owner] \in {"admin", "user"}
    /\ \A r \in Requests :
          /\ request[r].pc \in {"free", "session", "key", "insert", "read", "write"}
          /\ phase # "up" => request[r] = Free

\* The last administrator is never lost, whoever demotes whom, signs out or
\* creates users meanwhile, and whatever fails or restarts, unless two role
\* changes overlapped between their check and their write.  That there is one
\* to begin with is AdminFromStart, which the code does not keep.
AdminRemains == [][CountAdmins > 0 /\ ~ overlapped' => CountAdmins' > 0]_vars

\* The README: the first start creates the administrator.  So a service that
\* is up has one, unless role changes overlapped.
AdminFromStart == phase = "up" /\ ~ overlapped => CountAdmins > 0

\* The legacy file is imported once: while the service is up its users, and
\* its keys and sessions that were not deleted or signed out, are there,
\* unless a start ended in the middle of an import; and what was deleted or
\* signed out never comes back, over any number of restarts.
ImportedOnce ==
    /\ phase = "up" /\ ~ interrupted =>
          /\ \A u \in LegacyUsers : role[u] # None
          /\ \A k \in DOMAIN LegacyKey : key[k] # None \/ k \in deleted
          /\ \A t \in DOMAIN LegacySession : session[t] # None \/ t \in dropped
    /\ \A k \in deleted : ~ Admits(k)
    /\ \A t \in dropped : ~ SignedIn(t)
=============================================================================
