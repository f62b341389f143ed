----------------------------- MODULE MetaSchema -----------------------------
(***************************************************************************)
(* The meta Client's databases, retention policies, continuous queries,   *)
(* subscriptions and user privileges (store.go).  Each of these methods    *)
(* runs under c.mu.Lock(): it clones cacheData, applies Data operations    *)
(* and commits, or returns an error and leaves everything as it was, so    *)
(* each call is one step.  A database is a record keyed by name; a         *)
(* retention policy is its duration (what RetentionPolicySpec.Matches and  *)
(* the duration check look at) and its subscriptions.  The users exist     *)
(* throughout (MetaAuth models their life cycle).  ret is the result the   *)
(* last call returned, for the properties that relate a call's answer to   *)
(* the snapshot it ran on.                                                 *)
(***************************************************************************)
EXTENDS Naturals

CONSTANTS DBNames,             \* database names
          RPNames,             \* retention policy names
          Autogen,             \* the name of meta.DefaultRetentionPolicyInfo()
          Durations,           \* RP durations; 0 is infinite
          MinDuration,         \* meta.MinRetentionPolicyDuration
          CQNames,             \* continuous query names
          SubNames,            \* subscription names
          Users,               \* existing user names
          Privileges,          \* influxql privileges other than none
          RetentionAutoCreate, \* config.RetentionAutoCreate
          MaxCommits,          \* bound: highest commit index
          NoDB, NoRP, NoPriv   \* model values: absent database, policy, privilege

ASSUME Autogen \in RPNames /\ 0 \in Durations

VARIABLES cacheData, \* c.cacheData: [index, dbs, privs]
          changed,   \* generation of c.changed (closed and replaced per commit)
          ret        \* the last call: [op, db, spec, err]

vars == <<cacheData, changed, ret>>

RPInfo == [duration : Durations, subs : SUBSET SubNames]
DBInfo == [default : RPNames \cup {NoRP}, rps : [RPNames -> RPInfo \cup {NoRP}],
           cqs : SUBSET CQNames]
\* A *meta.RetentionPolicySpec with its Name and Duration set.
RPSpec == [name : RPNames, duration : Durations]
\* meta.DefaultRetentionPolicyInfo(): "autogen", infinite duration.
AutogenSpec == [name |-> Autogen, duration |-> 0]

TypeOK ==
    /\ cacheData \in [index : 1..MaxCommits, dbs : [DBNames -> DBInfo \cup {NoDB}],
                      privs : [Users -> [DBNames -> Privileges \cup {NoPriv}]]]
    /\ changed \in Nat
    /\ ret \in [op : STRING, db : DBNames, spec : RPSpec, err : STRING]

\* NewClient: Index 1 and nothing else.
Init ==
    /\ cacheData = [index |-> 1, dbs |-> [n \in DBNames |-> NoDB],
                    privs |-> [u \in Users |-> [n \in DBNames |-> NoPriv]]]
    /\ changed = 0
    /\ ret = [op |-> "none", db |-> CHOOSE n \in DBNames : TRUE,
              spec |-> AutogenSpec, err |-> "none"]

-----------------------------------------------------------------------------
(* Data operations (services/meta Data, not part of this repository), on a *)
(* clone; each returns [err, d].                                           *)

Ok(d) == [err |-> "none", d |-> d]
Fail(e, d) == [err |-> e, d |-> d]

EmptyDB == [default |-> NoRP, rps |-> [r \in RPNames |-> NoRP], cqs |-> {}]

\* RetentionPolicySpec.NewRetentionPolicyInfo and RetentionPolicySpec.Matches.
NewRPInfo(s) == [duration |-> s.duration, subs |-> {}]
Matches(s, rpi) == rpi # NoRP /\ rpi.duration = s.duration

\* Duration below meta.MinRetentionPolicyDuration and not infinite.
TooLow(dur) == dur # 0 /\ dur < MinDuration

HasNoRPs(db) == \A r \in RPNames : db.rps[r] = NoRP

DataCreateDatabase(d, name) == [d EXCEPT !.dbs[name] = EmptyDB]

\* Stale privilege entries of the dropped database may be kept (spec 3.1).
DataDropDatabase(d, name, keepPrivs) ==
    IF d.dbs[name] = NoDB THEN Fail("ErrDatabaseNotFound", d)
    ELSE Ok([d EXCEPT !.dbs[name] = NoDB,
                      !.privs = IF keepPrivs THEN @
                                ELSE [u \in Users |-> [@[u] EXCEPT ![name] = NoPriv]]])

\* An existing policy with the same parameters is the idempotent case.
DataCreateRetentionPolicy(d, db, s, makeDefault) ==
    IF d.dbs[db] = NoDB THEN Fail("ErrDatabaseNotFound", d)
    ELSE LET old == d.dbs[db].rps[s.name] IN
         IF old # NoRP /\ ~Matches(s, old) THEN Fail("ErrRetentionPolicyExists", d)
         ELSE Ok([d EXCEPT !.dbs[db].rps[s.name] = IF old = NoRP THEN NewRPInfo(s) ELSE old,
                           !.dbs[db].default = IF makeDefault THEN s.name ELSE @])

\* Dropping the default policy leaves the database without a default.
DataDropRetentionPolicy(d, db, rp) ==
    IF d.dbs[db] = NoDB THEN Fail("ErrDatabaseNotFound", d)
    ELSE IF d.dbs[db].rps[rp] = NoRP THEN Fail("ErrRetentionPolicyNotFound", d)
    ELSE Ok([d EXCEPT !.dbs[db].rps[rp] = NoRP,
                      !.dbs[db].default = IF @ = rp THEN NoRP ELSE @])

\* u is the RetentionPolicyUpdate: the new name (rp itself for none) and
\* duration.  A renamed default policy stays the default.
DataUpdateRetentionPolicy(d, db, rp, u, makeDefault) ==
    IF d.dbs[db] = NoDB THEN Fail("ErrDatabaseNotFound", d)
    ELSE LET rps == d.dbs[db].rps IN
    IF rps[rp] = NoRP THEN Fail("ErrRetentionPolicyNotFound", d)
    ELSE IF u.name # rp /\ rps[u.name] # NoRP THEN Fail("ErrRetentionPolicyNameExists", d)
    ELSE IF TooLow(u.duration) THEN Fail("ErrRetentionPolicyDurationTooLow", d)
    ELSE Ok([d EXCEPT !.dbs[db].rps = [rps EXCEPT ![rp] = NoRP,
                                      ![u.name] = [rps[rp] EXCEPT !.duration = u.duration]],
                   !.dbs[db].default = IF makeDefault \/ @ = rp THEN u.name ELSE @])

\* Create (adding) or drop a continuous query.
DataSetContinuousQuery(d, db, q, adding) ==
    IF d.dbs[db] = NoDB THEN Fail("ErrDatabaseNotFound", d)
    ELSE IF adding /\ q \in d.dbs[db].cqs THEN Fail("ErrContinuousQueryExists", d)
    ELSE IF ~adding /\ q \notin d.dbs[db].cqs THEN Fail("ErrContinuousQueryNotFound", d)
    ELSE Ok([d EXCEPT !.dbs[db].cqs = IF adding THEN @ \cup {q} ELSE @ \ {q}])

\* Create (adding) or drop a subscription of a retention policy.
DataSetSubscription(d, db, rp, s, adding) ==
    IF d.dbs[db] = NoDB THEN Fail("ErrDatabaseNotFound", d)
    ELSE IF d.dbs[db].rps[rp] = NoRP THEN Fail("ErrRetentionPolicyNotFound", d)
    ELSE IF adding /\ s \in d.dbs[db].rps[rp].subs THEN Fail("ErrSubscriptionExists", d)
    ELSE IF ~adding /\ s \notin d.dbs[db].rps[rp].subs THEN Fail("ErrSubscriptionNotFound", d)
    ELSE Ok([d EXCEPT !.dbs[db].rps[rp].subs = IF adding THEN @ \cup {s} ELSE @ \ {s}])

DataSetPrivilege(d, user, db, p) ==
    IF d.dbs[db] = NoDB THEN Fail("ErrDatabaseNotFound", d)
    ELSE Ok([d EXCEPT !.privs[user][db] = p])

-----------------------------------------------------------------------------
(* Client methods, each under c.mu.Lock()                                  *)

CanCommit == cacheData.index < MaxCommits

\* commit(data): data.Index++, snapshot (a no-op that never fails), swap the
\* snapshot in, close c.changed and make a new one.
Commit(d) ==
    /\ cacheData' = [d EXCEPT !.index = @ + 1]
    /\ changed' = changed + 1

Return(op, db, s, e) == ret' = [op |-> op, db |-> db, spec |-> s, err |-> e]

\* The body every method shares: the Data operation on the clone, then
\* commit, or the error returned with nothing changed.  Calls without a
\* retention policy spec record AutogenSpec as theirs.
Mutate(op, db, s, r) ==
    \/ /\ r.err # "none"
       /\ Return(op, db, s, r.err)
       /\ UNCHANGED <<cacheData, changed>>
    \/ /\ r.err = "none"
       /\ CanCommit
       /\ Commit(r.d)
       /\ Return(op, db, s, "none")

\* The clone of CreateDatabase: the database and, with RetentionAutoCreate,
\* the "autogen" policy as its default.
NewDatabase(name) ==
    LET d == DataCreateDatabase(cacheData, name) IN
    IF RetentionAutoCreate THEN DataCreateRetentionPolicy(d, name, AutogenSpec, TRUE)
    ELSE Ok(d)

\* Mutant: the existence check is left out and the database made again.
CreateDatabaseNoExistCheck(name) ==
    Mutate("CreateDatabase", name, AutogenSpec, NewDatabase(name))

\* CreateDatabase: an existing database is returned without a commit.
CreateDatabase(name) ==
    \/ /\ cacheData.dbs[name] # NoDB
       /\ Return("CreateDatabase", name, AutogenSpec, "none")
       /\ UNCHANGED <<cacheData, changed>>
    \/ /\ cacheData.dbs[name] = NoDB
       /\ Mutate("CreateDatabase", name, AutogenSpec, NewDatabase(name))

\* Mutant: the default is read from the database as it was before the
\* policy was created (a copy instead of the pointer into the clone).
CreateWithRPStaleDefault(d0, name, s) ==
    LET d  == IF d0.dbs[name] = NoDB THEN DataCreateDatabase(d0, name) ELSE d0
        db == d.dbs[name]
        r  == IF HasNoRPs(db) THEN DataCreateRetentionPolicy(d, name, s, TRUE)
              ELSE IF Matches(s, db.rps[s.name]) THEN Ok(d)
              ELSE Fail("ErrRetentionPolicyConflict", d)
    IN IF r.err # "none" THEN r
       ELSE IF db.default # s.name THEN Fail("ErrRetentionPolicyConflict", r.d)
       ELSE r

\* CreateDatabaseWithRetentionPolicy after the duration check: the database
\* is created if missing; one without policies gets s as its default, in
\* one with policies s must match the policy of its name; then the
\* database's default (db points into the clone, so it sees a policy just
\* made default) must be s.Name.
CreateWithRP(d0, name, s) ==
    LET d  == IF d0.dbs[name] = NoDB THEN DataCreateDatabase(d0, name) ELSE d0
        db == d.dbs[name]
        r  == IF HasNoRPs(db) THEN DataCreateRetentionPolicy(d, name, s, TRUE)
              ELSE IF Matches(s, db.rps[s.name]) THEN Ok(d)
              ELSE Fail("ErrRetentionPolicyConflict", d)
    IN IF r.err # "none" THEN r
       ELSE IF r.d.dbs[name].default # s.name THEN Fail("ErrRetentionPolicyConflict", r.d)
       ELSE r

\* A nil spec returns an error before the lock is taken: no step.
CreateDatabaseWithRetentionPolicy(name, s) ==
    Mutate("CreateDatabaseWithRetentionPolicy", name, s,
           IF TooLow(s.duration) THEN Fail("ErrRetentionPolicyDurationTooLow", cacheData)
           ELSE CreateWithRP(cacheData, name, s))

DropDatabase(name) ==
    \E keep \in BOOLEAN :
        Mutate("DropDatabase", name, AutogenSpec, DataDropDatabase(cacheData, name, keep))

CreateRetentionPolicy(db, s, makeDefault) ==
    Mutate("CreateRetentionPolicy", db, s,
           IF TooLow(s.duration) THEN Fail("ErrRetentionPolicyDurationTooLow", cacheData)
           ELSE DataCreateRetentionPolicy(cacheData, db, s, makeDefault))

DropRetentionPolicy(db, rp) ==
    Mutate("DropRetentionPolicy", db, AutogenSpec, DataDropRetentionPolicy(cacheData, db, rp))

UpdateRetentionPolicy(db, rp, u, makeDefault) ==
    Mutate("UpdateRetentionPolicy", db, u,
           DataUpdateRetentionPolicy(cacheData, db, rp, u, makeDefault))

SetPrivilege(user, db, p) ==
    Mutate("SetPrivilege", db, AutogenSpec, DataSetPrivilege(cacheData, user, db, p))

CreateContinuousQuery(db, q) ==
    Mutate("CreateContinuousQuery", db, AutogenSpec, DataSetContinuousQuery(cacheData, db, q, TRUE))

DropContinuousQuery(db, q) ==
    Mutate("DropContinuousQuery", db, AutogenSpec, DataSetContinuousQuery(cacheData, db, q, FALSE))

CreateSubscription(db, rp, sub) ==
    Mutate("CreateSubscription", db, AutogenSpec,
           DataSetSubscription(cacheData, db, rp, sub, TRUE))

DropSubscription(db, rp, sub) ==
    Mutate("DropSubscription", db, AutogenSpec,
           DataSetSubscription(cacheData, db, rp, sub, FALSE))

-----------------------------------------------------------------------------

Next ==
    \E n \in DBNames :
        \/ CreateDatabase(n) \/ DropDatabase(n)
        \/ \E s \in RPSpec : CreateDatabaseWithRetentionPolicy(n, s)
        \/ \E s \in RPSpec, mk \in BOOLEAN : CreateRetentionPolicy(n, s, mk)
        \/ \E rp \in RPNames : DropRetentionPolicy(n, rp)
        \/ \E rp \in RPNames, u \in RPSpec, mk \in BOOLEAN : UpdateRetentionPolicy(n, rp, u, mk)
        \/ \E u \in Users, p \in Privileges : SetPrivilege(u, n, p)
        \/ \E q \in CQNames : CreateContinuousQuery(n, q) \/ DropContinuousQuery(n, q)
        \/ \E rp \in RPNames, sub \in SubNames :
              CreateSubscription(n, rp, sub) \/ DropSubscription(n, rp, sub)

Spec == Init /\ [][Next]_vars

-----------------------------------------------------------------------------
(* Properties                                                              *)

\* What the doc comment of CreateDatabaseWithRetentionPolicy promises: the
\* call succeeds exactly when the duration is allowed and the database is
\* missing, has no policy yet, or already has a policy matching the spec
\* as its default.
CDWRPAllowed(d, name, s) ==
    /\ ~TooLow(s.duration)
    /\ \/ d.dbs[name] = NoDB
       \/ HasNoRPs(d.dbs[name])
       \/ d.dbs[name].default = s.name /\ Matches(s, d.dbs[name].rps[s.name])

\* CreateDatabaseWithRetentionPolicy returns success exactly in the cases
\* its doc comment allows, and after a success the database's default
\* policy is one matching the caller's spec.
CreateDatabaseWithRetentionPolicyContract ==
    [][ret'.op = "CreateDatabaseWithRetentionPolicy" =>
         /\ (ret'.err = "none") = CDWRPAllowed(cacheData, ret'.db, ret'.spec)
         /\ ret'.err = "none" =>
              LET db == cacheData'.dbs[ret'.db] IN
              db.default = ret'.spec.name /\ Matches(ret'.spec, db.rps[ret'.spec.name])]_vars

\* Spec scenarios 1 and 2: CreateDatabase of an existing database returns
\* it and commits nothing (Index and c.changed stay); of a new one it
\* commits once, and with RetentionAutoCreate the new database's default
\* is "autogen" with an infinite duration.
CreateDatabaseContract ==
    [][ret'.op = "CreateDatabase" =>
         IF cacheData.dbs[ret'.db] # NoDB
         THEN UNCHANGED <<cacheData, changed>>
         ELSE /\ cacheData'.index = cacheData.index + 1
              /\ RetentionAutoCreate =>
                   /\ cacheData'.dbs[ret'.db].default = Autogen
                   /\ Matches(AutogenSpec, cacheData'.dbs[ret'.db].rps[Autogen])]_vars

=============================================================================
