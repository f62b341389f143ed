----------------------------- MODULE MetaAuth -----------------------------
(***************************************************************************)
(* The meta Client's users and its authentication cache (store.go).  User  *)
(* mutations run under c.mu.Lock() and go through commit; Authenticate     *)
(* takes c.mu.RLock() twice (user lookup, cache lookup), runs bcrypt with  *)
(* no lock held and takes c.mu.Lock() to fill the cache, so each of its    *)
(* lock sections is a step of its own and the mutations interleave with    *)
(* them.  A bcrypt hash is abstracted to the password it was made from, so *)
(* bcrypt.CompareHashAndPassword(h, p) succeeds iff h = p; the cached      *)
(* SHA256(salt || password) is abstracted to the password, since equal     *)
(* salted hashes mean equal passwords.                                     *)
(***************************************************************************)
EXTENDS Naturals, FiniteSets

CONSTANTS Users,          \* user names
          Passwords,      \* passwords, and the bcrypt hashes made from them
          Authenticators, \* goroutines calling Authenticate
          MaxIndex,       \* bound: highest commit index
          NoUser,         \* model value: no such user
          NoEntry         \* model value: no auth-cache entry

VARIABLES cacheData,  \* c.cacheData: [index, users]
          changed,    \* generation of c.changed (closed and replaced per commit)
          authCache,  \* c.authCache: user -> [bhash, pw] or NoEntry
          auth,       \* the Authenticate calls in progress
          everHash    \* history: every hash each user name has had

vars == <<cacheData, changed, authCache, auth, everHash>>

UserInfo == [hash : Passwords, admin : BOOLEAN]
CacheEntry == [bhash : Passwords, pw : Passwords]
AuthState == [pc : {"idle", "cache", "bcrypt"}, user : Users, pw : Passwords,
              info : UserInfo \cup {NoUser}, ret : {"none", "ok", "err"}]

TypeOK ==
    /\ cacheData \in [index : 1..MaxIndex, users : [Users -> UserInfo \cup {NoUser}]]
    /\ changed \in Nat
    /\ authCache \in [Users -> CacheEntry \cup {NoEntry}]
    /\ auth \in [Authenticators -> AuthState]
    /\ everHash \in [Users -> SUBSET Passwords]

Init ==
    /\ cacheData = [index |-> 1, users |-> [u \in Users |-> NoUser]]
    /\ changed = 0
    /\ authCache = [u \in Users |-> NoEntry]
    /\ auth = [a \in Authenticators |->
                 [pc |-> "idle", user |-> CHOOSE u \in Users : TRUE,
                  pw |-> CHOOSE p \in Passwords : TRUE, info |-> NoUser,
                  ret |-> "none"]]
    /\ everHash = [u \in Users |-> {}]

-----------------------------------------------------------------------------
(* Data's user operations on a clone: [err, users].                        *)

DataCreateUser(d, name, hash, admin) ==
    IF d.users[name] # NoUser THEN [err |-> "ErrUserExists", users |-> d.users]
    ELSE [err |-> "none",
          users |-> [d.users EXCEPT ![name] = [hash |-> hash, admin |-> admin]]]

DataUpdateUser(d, name, hash) ==
    IF d.users[name] = NoUser THEN [err |-> "ErrUserNotFound", users |-> d.users]
    ELSE [err |-> "none", users |-> [d.users EXCEPT ![name].hash = hash]]

DataDropUser(d, name) ==
    IF d.users[name] = NoUser THEN [err |-> "ErrUserNotFound", users |-> d.users]
    ELSE [err |-> "none", users |-> [d.users EXCEPT ![name] = NoUser]]

DataSetAdminPrivilege(d, name, admin) ==
    IF d.users[name] = NoUser THEN [err |-> "ErrUserNotFound", users |-> d.users]
    ELSE [err |-> "none", users |-> [d.users EXCEPT ![name].admin = admin]]

\* commit: data.Index++, snapshot (a no-op that never fails), swap the
\* snapshot in, close c.changed and make a new one.
Commit(users) ==
    /\ cacheData' = [index |-> cacheData.index + 1, users |-> users]
    /\ changed' = changed + 1

CanCommit == cacheData.index < MaxIndex

\* c.user(name): (&u, nil) when found, (nil, ErrUserNotFound) otherwise.
LookupUser(name) ==
    IF cacheData.users[name] = NoUser
    THEN [u |-> NoUser, err |-> "ErrUserNotFound"]
    ELSE [u |-> cacheData.users[name], err |-> "none"]

-----------------------------------------------------------------------------
(* Client methods that run under c.mu.Lock()                               *)

\* CreateUser: the "already exists" shortcut tests err != nil && u != nil,
\* which c.user never returns (LookupUser), so it is never taken and every
\* call goes on to data.CreateUser; an existing name, even with the same
\* hash and admin flag, returns ErrUserExists and changes nothing.
CreateUser(name, hash, admin) ==
    LET r == DataCreateUser(cacheData, name, hash, admin) IN
    /\ CanCommit
    /\ r.err = "none"
    /\ Commit(r.users)
    /\ everHash' = [everHash EXCEPT ![name] = @ \cup {hash}]
    /\ UNCHANGED <<authCache, auth>>

\* UpdateUser: the deferred delete of the cache entry only runs once
\* data.UpdateUser has succeeded.
UpdateUser(name, hash) ==
    LET r == DataUpdateUser(cacheData, name, hash) IN
    /\ CanCommit
    /\ r.err = "none"
    /\ Commit(r.users)
    /\ authCache' = [authCache EXCEPT ![name] = NoEntry]
    /\ everHash' = [everHash EXCEPT ![name] = @ \cup {hash}]
    /\ UNCHANGED auth

DropUser(name) ==
    LET r == DataDropUser(cacheData, name) IN
    /\ CanCommit
    /\ r.err = "none"
    /\ Commit(r.users)
    /\ authCache' = [authCache EXCEPT ![name] = NoEntry]
    /\ UNCHANGED <<auth, everHash>>

SetAdminPrivilege(name, admin) ==
    LET r == DataSetAdminPrivilege(cacheData, name, admin) IN
    /\ CanCommit
    /\ r.err = "none"
    /\ Commit(r.users)
    /\ UNCHANGED <<authCache, auth, everHash>>

-----------------------------------------------------------------------------
(* Authenticate(username, password), one lock section per step            *)

\* Under RLock: c.user(username); a missing user returns the error.
AuthLookup(a) ==
    /\ auth[a].pc = "idle"
    /\ \E u \in Users, p \in Passwords :
        LET found == LookupUser(u) IN
        auth' = [auth EXCEPT ![a] =
                   IF found.err # "none"
                   THEN [pc |-> "idle", user |-> u, pw |-> p, info |-> NoUser,
                         ret |-> "err"]
                   ELSE [pc |-> "cache", user |-> u, pw |-> p, info |-> found.u,
                         ret |-> "none"]]
    /\ UNCHANGED <<cacheData, changed, authCache, everHash>>

\* Under RLock: c.authCache[username]; a hit whose salted hash matches the
\* password returns the user read by AuthLookup, anything else falls
\* through to bcrypt.
AuthCheckCache(a) ==
    LET au == authCache[auth[a].user] IN
    /\ auth[a].pc = "cache"
    /\ auth' = [auth EXCEPT ![a] =
                  IF au # NoEntry /\ au.pw = auth[a].pw
                  THEN [@ EXCEPT !.pc = "idle", !.ret = "ok"]
                  ELSE [@ EXCEPT !.pc = "bcrypt"]]
    /\ UNCHANGED <<cacheData, changed, authCache, everHash>>

\* Mutant: the cache is filled before bcrypt has accepted the password.
AuthBcryptCachesFirst(a) ==
    LET st == auth[a] IN
    /\ st.pc = "bcrypt"
    /\ authCache' = [authCache EXCEPT ![st.user] =
                       [bhash |-> st.info.hash, pw |-> st.pw]]
    /\ auth' = [auth EXCEPT ![a].pc = "idle",
                            ![a].ret = IF st.info.hash = st.pw THEN "ok" ELSE "err"]
    /\ UNCHANGED <<cacheData, changed, everHash>>

\* No lock: bcrypt against the hash of the user read by AuthLookup; on a
\* match, saltedHash (whose crypto/rand read may fail) and, under Lock,
\* c.authCache[username] = {salt, hash, bhash}.
AuthBcrypt(a) ==
    LET st == auth[a] IN
    /\ st.pc = "bcrypt"
    /\ \/ /\ st.info.hash # st.pw
          /\ auth' = [auth EXCEPT ![a].pc = "idle", ![a].ret = "err"]
          /\ UNCHANGED authCache
       \/ /\ st.info.hash = st.pw
          /\ auth' = [auth EXCEPT ![a].pc = "idle", ![a].ret = "err"]
          /\ UNCHANGED authCache
       \/ /\ st.info.hash = st.pw
          /\ authCache' = [authCache EXCEPT ![st.user] =
                             [bhash |-> st.info.hash, pw |-> st.pw]]
          /\ auth' = [auth EXCEPT ![a].pc = "idle", ![a].ret = "ok"]
    /\ UNCHANGED <<cacheData, changed, everHash>>

-----------------------------------------------------------------------------

Next ==
    \/ \E u \in Users, h \in Passwords, adm \in BOOLEAN : CreateUser(u, h, adm)
    \/ \E u \in Users, h \in Passwords : UpdateUser(u, h)
    \/ \E u \in Users : DropUser(u)
    \/ \E u \in Users, adm \in BOOLEAN : SetAdminPrivilege(u, adm)
    \/ \E a \in Authenticators : AuthLookup(a) \/ AuthCheckCache(a) \/ AuthBcrypt(a)

Spec == Init /\ [][Next]_vars

-----------------------------------------------------------------------------
(* Properties                                                              *)

\* The cache only ever admits a password that bcrypt accepted for that user
\* name at some point: a successful Authenticate presented a password that
\* was one of the user name's hashes.
AuthAdmitsOnlyOnceValidPasswords ==
    \A a \in Authenticators :
        auth[a].ret = "ok" => auth[a].pw \in everHash[auth[a].user]

\* Spec I4 and scenario 8: Authenticate's answer does not depend on the
\* cache, so a success returns a user whose bcrypt hash matches the
\* password; after UpdateUser the old password no longer authenticates.
AuthenticateSound ==
    \A a \in Authenticators :
        auth[a].ret = "ok" => auth[a].info.hash = auth[a].pw

=============================================================================
