-------------------------- MODULE MetaShardGroups --------------------------
(***************************************************************************)
(* The meta Client's shard-group, retention-policy and data-node           *)
(* operations (store.go).  Every mutation runs under c.mu.Lock(), clones   *)
(* cacheData, applies a Data operation and commits; CreateShardGroup first *)
(* looks under c.mu.RLock() and only then takes the write lock, so its two *)
(* phases are separate steps.  One database is modelled; its retention     *)
(* policies are RPOrder, in the order the code iterates them.  Time is a   *)
(* natural number of nanoseconds, 0 meaning the zero time.                 *)
(*                                                                         *)
(* cacheData.gen names the shard arrays of the snapshot: a Clone makes new *)
(* ones, CreateDataNode's in-place commit and ReplaceData keep the ones    *)
(* they are given.  It is what a *ShardInfo pointer into the snapshot      *)
(* tells apart.                                                            *)
(***************************************************************************)
EXTENDS Naturals, Sequences, SequencesExt, FiniteSets

CONSTANTS RPOrder,            \* retention policies of the database, in order
          InitialRPs,         \* policies present after CreateDatabase
          InitialNodes,       \* data nodes created before CreateDatabase
          NodeIds,            \* data node ids (and their TCP addresses)
          Creators,           \* goroutines calling CreateShardGroup
          Timestamps,         \* timestamps passed to CreateShardGroup
          Times,              \* times passed to Delete/Prune/Truncate
          PrecreateWindows,   \* <<from, to>> pairs passed to PrecreateShardGroups
          ShardGroupDuration, \* every policy's ShardGroupDuration
          ReplicaN,           \* every policy's ReplicaN
          MaxCommits,         \* bound: times c.changed is closed
          Sources,            \* policies of the measurements ShardsByTimeRange reads
                              \* (<<>>: no ShardsByTimeRange caller)
          QueryWindow,        \* its <<tmin, tmax>>
          Waiting,            \* whether a WaitForDataChanged caller runs
          AllowRestore        \* whether SetData / ReplaceData are called

RPs == ToSet(RPOrder)

VARIABLES cacheData, \* c.cacheData
          changed,   \* generation of c.changed (closed and replaced per commit)
          clones,    \* number of shard-array generations made so far
          creator,   \* the CreateShardGroup calls in progress
          reader,    \* a ShardsByTimeRange call in progress
          waiter,    \* a DataIndex / WaitForDataChanged / DataIndex caller
          saved      \* a snapshot a caller got from Data() and may restore

vars == <<cacheData, changed, clones, creator, reader, waiter, saved>>
store == <<cacheData, changed, clones, saved>>

Shard == [id : Nat, owners : SUBSET NodeIds]
Group == [id : Nat, start : Nat, end : Nat, deletedAt : Nat,
          truncatedAt : Nat, shards : SUBSET Shard]
DataT == [index : Nat, gen : Nat, nodes : [NodeIds -> {"none", "live", "frozen"}],
          rps : SUBSET RPs, groups : [RPs -> Seq(Group)],
          maxGroupId : Nat, maxShardId : Nat]
CreatorT == [pc : {"idle", "lock"}, rp : RPs, ts : Timestamps, ret : Nat]
\* A result element: which snapshot's shard array it points into, and where.
ShardRef == [gen : Nat, gid : Nat, sid : Nat]
ReaderT == [pc : 0..Len(Sources) + 1, tmin : Nat, tmax : Nat,
            res : SUBSET ShardRef, err : BOOLEAN]
WaiterT == [pc : {"idle", "chan", "wait"}, idx : Nat, ch : Nat,
            ver : Nat \X Nat, seen : Nat]

\* The Data value after NewClient, a CreateDataNode of each initial node
\* (each an in-place commit) and CreateDatabase of the one database.
InitData ==
    [index |-> 2 + Cardinality(InitialNodes), gen |-> 0,
     nodes |-> [n \in NodeIds |-> IF n \in InitialNodes THEN "live" ELSE "none"],
     rps |-> InitialRPs, groups |-> [r \in RPs |-> <<>>],
     maxGroupId |-> 0, maxShardId |-> 0]

TypeOK ==
    /\ cacheData \in DataT
    /\ changed \in Nat
    /\ clones \in Nat
    /\ creator \in [Creators -> CreatorT]
    /\ reader \in ReaderT
    /\ waiter \in WaiterT
    /\ saved \in [has : BOOLEAN, d : DataT]

Init ==
    /\ cacheData = InitData
    /\ changed = 0
    /\ clones = 0
    /\ creator = [c \in Creators |->
                    [pc |-> "idle", rp |-> Head(RPOrder),
                     ts |-> CHOOSE t \in Timestamps : TRUE, ret |-> 0]]
    /\ reader = [pc |-> 0, tmin |-> QueryWindow[1], tmax |-> QueryWindow[2],
                 res |-> {}, err |-> FALSE]
    /\ waiter = [pc |-> "idle", idx |-> 0, ch |-> 0, ver |-> <<0, 0>>, seen |-> 0]
    /\ saved = [has |-> FALSE, d |-> InitData]

-----------------------------------------------------------------------------
(* Data operations (services/meta Data, not part of this repository), on a *)
(* clone; each returns [err, d].                                           *)

Ok(d) == [err |-> "none", d |-> d]
Fail(e, d) == [err |-> e, d |-> d]

\* ShardGroupInfo.Deleted / Contains: a live group holding ts.
Covers(g, ts) == g.deletedAt = 0 /\ g.start <= ts /\ ts < g.end

\* Data.ShardGroupByTimestamp: the positions of live groups holding ts.
GroupsAt(d, rp, ts) == {i \in DOMAIN d.groups[rp] : Covers(d.groups[rp][i], ts)}

\* Round robin over the non-frozen nodes, lowest id first.
Owners(free) == {n \in free : Cardinality({m \in free : m < n}) < ReplicaN}

\* Mutant: the start is the timestamp minus one duration, not truncated to it.
DataCreateShardGroupUnaligned(d, rp, ts) ==
    LET free  == {n \in NodeIds : d.nodes[n] = "live"}
        start == ts - ShardGroupDuration
        g     == [id |-> d.maxGroupId + 1, start |-> start,
                  end |-> start + ShardGroupDuration, deletedAt |-> 0,
                  truncatedAt |-> 0,
                  shards |-> {[id |-> d.maxShardId + 1, owners |-> Owners(free)]}]
        pos   == 1 + Cardinality({i \in DOMAIN d.groups[rp] :
                                    d.groups[rp][i].start <= start})
    IN CASE rp \notin d.rps        -> Fail("ErrRetentionPolicyNotFound", d)
         [] GroupsAt(d, rp, ts) # {} -> Fail("ErrShardGroupExists", d)
         [] free = {}              -> Fail("ErrNodesRequired", d)
         [] OTHER -> Ok([d EXCEPT !.groups[rp] = InsertAt(@, pos, g),
                                  !.maxGroupId = @ + 1, !.maxShardId = @ + 1])

DataCreateShardGroup(d, rp, ts) ==
    LET free  == {n \in NodeIds : d.nodes[n] = "live"}
        start == ts - (ts % ShardGroupDuration)
        g     == [id |-> d.maxGroupId + 1, start |-> start,
                  end |-> start + ShardGroupDuration, deletedAt |-> 0,
                  truncatedAt |-> 0,
                  shards |-> {[id |-> d.maxShardId + 1, owners |-> Owners(free)]}]
        pos   == 1 + Cardinality({i \in DOMAIN d.groups[rp] :
                                    d.groups[rp][i].start <= start})
    IN CASE rp \notin d.rps        -> Fail("ErrRetentionPolicyNotFound", d)
         [] GroupsAt(d, rp, ts) # {} -> Fail("ErrShardGroupExists", d)
         [] free = {}              -> Fail("ErrNodesRequired", d)
         [] OTHER -> Ok([d EXCEPT !.groups[rp] = InsertAt(@, pos, g),
                                  !.maxGroupId = @ + 1, !.maxShardId = @ + 1])

DataDeleteShardGroup(d, rp, id, t) ==
    LET hit == {i \in DOMAIN d.groups[rp] : d.groups[rp][i].id = id} IN
    IF rp \notin d.rps \/ hit = {} THEN Fail("ErrShardGroupNotFound", d)
    ELSE Ok([d EXCEPT !.groups[rp] =
               [i \in DOMAIN @ |-> IF i \in hit THEN [@[i] EXCEPT !.deletedAt = t]
                                   ELSE @[i]]])

\* Groups with StartTime < t < EndTime get TruncatedAt = t.
DataTruncateShardGroups(d, t) ==
    [d EXCEPT !.groups = [r \in RPs |-> [i \in DOMAIN @[r] |->
        IF @[r][i].start < t /\ t < @[r][i].end
        THEN [@[r][i] EXCEPT !.truncatedAt = t] ELSE @[r][i]]]]

DataDropShard(d, id) ==
    [d EXCEPT !.groups = [r \in RPs |-> [i \in DOMAIN @[r] |->
        [@[r][i] EXCEPT !.shards = {s \in @ : s.id # id}]]]]

\* Adds nid to, or removes it from, the owners of shard sid.
ChangeOwners(d, sid, nid, adding) ==
    [d EXCEPT !.groups = [r \in RPs |-> [i \in DOMAIN @[r] |->
        [@[r][i] EXCEPT !.shards =
            {IF s.id # sid THEN s
             ELSE [s EXCEPT !.owners = IF adding THEN @ \cup {nid} ELSE @ \ {nid}]
             : s \in @}]]]]

DataAddShardOwner(d, sid, nid) == ChangeOwners(d, sid, nid, TRUE)

DataRemoveShardOwner(d, sid, nid) == ChangeOwners(d, sid, nid, FALSE)

DataCreateRetentionPolicy(d, rp) ==
    IF rp \in d.rps THEN Fail("ErrRetentionPolicyExists", d)
    ELSE Ok([d EXCEPT !.rps = @ \cup {rp}])

DataDropRetentionPolicy(d, rp) ==
    IF rp \notin d.rps THEN Fail("ErrRetentionPolicyNotFound", d)
    ELSE Ok([d EXCEPT !.rps = @ \ {rp}, !.groups[rp] = <<>>])

\* Node operations: CreateDataNode fails on a known address, the others on
\* an unknown id.
DataSetNode(d, n, from, to, e) ==
    IF d.nodes[n] \notin from THEN Fail(e, d)
    ELSE Ok([d EXCEPT !.nodes[n] = to])

-----------------------------------------------------------------------------
(* Client: commit and the lock-holding mutations                           *)

CanCommit == changed < MaxCommits

\* commit(data) of a clone taken under the lock: data.Index++, snapshot (a
\* no-op that never fails), swap, close c.changed and make a new one.
Commit(d) ==
    /\ cacheData' = [d EXCEPT !.index = @ + 1, !.gen = clones + 1]
    /\ clones' = clones + 1
    /\ changed' = changed + 1
    /\ UNCHANGED <<saved, reader, waiter>>

\* The caller's snapshot, when c.cacheData is that very object (after
\* ReplaceData), changes with every in-place write to c.cacheData.
Aliased(new) ==
    saved' = IF saved.has /\ saved.d.gen = cacheData.gen
             THEN [saved EXCEPT !.d = new] ELSE saved

\* commit(c.data()) of the live snapshot itself: its arrays are kept.
CommitInPlace(d) ==
    /\ cacheData' = [d EXCEPT !.index = @ + 1]
    /\ changed' = changed + 1
    /\ Aliased(cacheData')
    /\ UNCHANGED <<clones, reader, waiter>>

\* A Client mutation whose Data operation succeeded; on an error it returns
\* before commit and no state changes.
Mutate(r) ==
    /\ CanCommit
    /\ r.err = "none"
    /\ Commit(r.d)
    /\ UNCHANGED creator

\* The group ShardGroupByTimestamp returns: the first live one holding ts.
FirstAt(d, rp, ts) == d.groups[rp][Min(GroupsAt(d, rp, ts))]

\* createShardGroup: ErrShardGroupExists if a group holds ts, else
\* data.CreateShardGroup and the group now holding ts (nil, 0, if none).  (The "retention
\* policy deleted after shard group created" branch cannot be reached.)
createShardGroup(d, rp, ts) ==
    LET r == DataCreateShardGroup(d, rp, ts) IN
    IF GroupsAt(d, rp, ts) # {} THEN [err |-> "ErrShardGroupExists", d |-> d, sgi |-> 0]
    ELSE IF r.err # "none" THEN [err |-> r.err, d |-> d, sgi |-> 0]
    ELSE [err |-> "none", d |-> r.d,
          sgi |-> IF GroupsAt(r.d, rp, ts) = {} THEN 0 ELSE FirstAt(r.d, rp, ts).id]

\* CreateShardGroup, under RLock: return a group holding ts if there is one,
\* otherwise release the read lock and go on to the write lock.
CreateShardGroupRead(c) ==
    /\ creator[c].pc = "idle"
    /\ \E rp \in RPs, ts \in Timestamps :
         \/ /\ GroupsAt(cacheData, rp, ts) # {}
            /\ creator' = [creator EXCEPT ![c] = [pc |-> "idle", rp |-> rp, ts |-> ts,
                                                  ret |-> FirstAt(cacheData, rp, ts).id]]
         \/ /\ GroupsAt(cacheData, rp, ts) = {}
            /\ creator' = [creator EXCEPT ![c] = [pc |-> "lock", rp |-> rp, ts |-> ts,
                                                  ret |-> 0]]
    /\ UNCHANGED <<store, reader, waiter>>

\* CreateShardGroup, under Lock: check again on a fresh clone, then
\* createShardGroup and commit.
CreateShardGroupWrite(c) ==
    LET st == creator[c]
        r  == createShardGroup(cacheData, st.rp, st.ts)
    IN /\ st.pc = "lock"
       /\ \/ /\ GroupsAt(cacheData, st.rp, st.ts) # {}
             /\ creator' = [creator EXCEPT ![c].pc = "idle",
                              ![c].ret = FirstAt(cacheData, st.rp, st.ts).id]
             /\ UNCHANGED <<store, reader, waiter>>
          \/ /\ GroupsAt(cacheData, st.rp, st.ts) = {}
             /\ r.err # "none"
             /\ creator' = [creator EXCEPT ![c].pc = "idle", ![c].ret = 0]
             /\ UNCHANGED <<store, reader, waiter>>
          \/ /\ r.err = "none"
             /\ CanCommit
             /\ Commit(r.d)
             /\ creator' = [creator EXCEPT ![c].pc = "idle", ![c].ret = r.sgi]

\* One retention policy of PrecreateShardGroups: only its last group is
\* looked at; a live last group ending strictly inside (from, to) gets a
\* successor at EndTime + 1ns unless one exists; a failure is logged.
PrecreateRP(d, rp, from, to) ==
    LET gs == d.groups[rp]
        g  == Last(gs)
        r  == createShardGroup(d, rp, g.end + 1)
    IN IF rp \notin d.rps \/ gs = <<>> THEN d
       ELSE IF ~(g.deletedAt = 0 /\ g.end < to /\ g.end > from) THEN d
       ELSE IF GroupsAt(d, rp, g.end + 1) # {} THEN d
       ELSE IF r.err # "none" THEN d
       ELSE r.d

\* PrecreateShardGroups: one commit if any policy got a new group.
PrecreateShardGroups ==
    \E w \in PrecreateWindows :
        LET d == FoldLeft(LAMBDA acc, rp : PrecreateRP(acc, rp, w[1], w[2]),
                          cacheData, RPOrder)
        IN /\ d # cacheData
           /\ Mutate(Ok(d))

\* Mutant: the IsZero test is dropped, so live groups count as expired.
PruneKeepNoZeroCheck(g, expiration) == ~(expiration > g.deletedAt)

\* PruneShardGroups keeps a group that is live or whose DeletedAt is not
\* before the expiration.
PruneKeep(g, expiration) == g.deletedAt = 0 \/ ~(expiration > g.deletedAt)

\* PruneShardGroups: one commit if any group was removed.
PruneShardGroups ==
    \E exp \in Times :
        LET d == [cacheData EXCEPT !.groups = [r \in RPs |->
                    SelectSeq(@[r], LAMBDA g : PruneKeep(g, exp))]]
        IN /\ d # cacheData
           /\ Mutate(Ok(d))

DeleteShardGroup ==
    \E rp \in RPs, id \in 1..cacheData.maxGroupId, t \in Times :
        Mutate(DataDeleteShardGroup(cacheData, rp, id, t))

\* Truncate, DropShard and the owner operations commit unconditionally.
TruncateShardGroups ==
    \E t \in Times : Mutate(Ok(DataTruncateShardGroups(cacheData, t)))

DropShard ==
    \E id \in 1..cacheData.maxShardId : Mutate(Ok(DataDropShard(cacheData, id)))

AddShardOwner ==
    \E id \in 1..cacheData.maxShardId, n \in NodeIds :
        Mutate(Ok(DataAddShardOwner(cacheData, id, n)))

RemoveShardOwner ==
    \E id \in 1..cacheData.maxShardId, n \in NodeIds :
        Mutate(Ok(DataRemoveShardOwner(cacheData, id, n)))

CreateRetentionPolicy ==
    \E rp \in RPs : Mutate(DataCreateRetentionPolicy(cacheData, rp))

DropRetentionPolicy ==
    \E rp \in RPs : Mutate(DataDropRetentionPolicy(cacheData, rp))

\* CreateDataNode changes c.data() in place and commits it without a clone.
CreateDataNode ==
    \E n \in NodeIds :
        LET r == DataSetNode(cacheData, n, {"none"}, "live", "ErrNodeExists") IN
        /\ CanCommit
        /\ r.err = "none"
        /\ CommitInPlace(r.d)
        /\ UNCHANGED creator

DeleteDataNode ==
    \E n \in NodeIds :
        Mutate(DataSetNode(cacheData, n, {"live", "frozen"}, "none", "ErrNodeNotFound"))

FreezeDataNode ==
    \E n \in NodeIds :
        Mutate(DataSetNode(cacheData, n, {"live", "frozen"}, "frozen", "ErrNodeNotFound"))

UnfreezeDataNode ==
    \E n \in NodeIds :
        Mutate(DataSetNode(cacheData, n, {"live", "frozen"}, "live", "ErrNodeNotFound"))

-----------------------------------------------------------------------------
(* Readers                                                                 *)

\* ShardGroupsByTimeRange: the live groups of rp with StartTime < tmax and
\* EndTime > tmin.
ShardGroupsByTimeRange(d, rp, tmin, tmax) ==
    {g \in ToSet(d.groups[rp]) : g.deletedAt = 0 /\ g.start < tmax /\ g.end > tmin}

ShardsByTimeRangeStart ==
    /\ Sources # <<>>
    /\ reader.pc \in {0, Len(Sources) + 1}
    /\ reader' = [pc |-> 1, tmin |-> QueryWindow[1], tmax |-> QueryWindow[2],
                  res |-> {}, err |-> FALSE]
    /\ UNCHANGED <<store, creator, waiter>>

\* One measurement of ShardsByTimeRange: ShardGroupsByTimeRange under its
\* own RLock, then &g.Shards[i] of every group into the map, which is keyed
\* by pointer.  A missing policy returns the error.
ShardsByTimeRangeRead ==
    LET rp == Sources[reader.pc]
        gs == ShardGroupsByTimeRange(cacheData, rp, reader.tmin, reader.tmax)
    IN /\ reader.pc \in 1..Len(Sources)
       /\ \/ /\ rp \notin cacheData.rps
             /\ reader' = [reader EXCEPT !.pc = Len(Sources) + 1, !.res = {}, !.err = TRUE]
          \/ /\ rp \in cacheData.rps
             /\ reader' = [reader EXCEPT !.pc = @ + 1, !.res = @ \cup
                  UNION {{[gen |-> cacheData.gen, gid |-> g.id, sid |-> sh.id] :
                           sh \in g.shards} : g \in gs}]
       /\ UNCHANGED <<store, creator, waiter>>

\* DataIndex() under RLock.
WaitDataIndex ==
    /\ Waiting
    /\ waiter.pc = "idle"
    /\ waiter' = [waiter EXCEPT !.pc = "chan", !.idx = cacheData.index, !.seen = 0]
    /\ UNCHANGED <<store, creator, reader>>

\* WaitForDataChanged() under RLock: the current c.changed.
WaitForDataChanged ==
    /\ waiter.pc = "chan"
    /\ waiter' = [waiter EXCEPT !.pc = "wait", !.ch = changed,
                                !.ver = <<cacheData.index, cacheData.gen>>]
    /\ UNCHANGED <<store, creator, reader>>

\* The channel is closed: the receive returns and DataIndex() is read.
WaitWake ==
    /\ waiter.pc = "wait"
    /\ changed # waiter.ch
    /\ waiter' = [waiter EXCEPT !.pc = "idle", !.seen = cacheData.index]
    /\ UNCHANGED <<store, creator, reader>>

-----------------------------------------------------------------------------
(* Data(), SetData and ReplaceData                                         *)

\* Data(): a clone of the current snapshot, kept by the caller.
DataSnapshot ==
    /\ AllowRestore
    /\ ~saved.has
    /\ saved' = [has |-> TRUE, d |-> [cacheData EXCEPT !.gen = clones + 1]]
    /\ clones' = clones + 1
    /\ UNCHANGED <<cacheData, changed, creator, reader, waiter>>

\* SetData: c.cacheData.Index = 0 on the live snapshot (which is the
\* caller's own value after a ReplaceData of it), then commit(data.Clone()).
SetData ==
    LET src == IF saved.d.gen = cacheData.gen THEN [saved.d EXCEPT !.index = 0]
               ELSE saved.d
    IN /\ AllowRestore
       /\ saved.has
       /\ CanCommit
       /\ saved' = [saved EXCEPT !.d = src]
       /\ cacheData' = [src EXCEPT !.index = @ + 1, !.gen = clones + 1]
       /\ clones' = clones + 1
       /\ changed' = changed + 1
       /\ UNCHANGED <<creator, reader, waiter>>

\* Mutant: the new snapshot is swapped in but c.changed is not closed.
ReplaceDataNoClose ==
    /\ AllowRestore
    /\ saved.has
    /\ CanCommit
    /\ cacheData' = saved.d
    /\ UNCHANGED <<changed, clones, saved, creator, reader, waiter>>

\* ReplaceData: snapshot (no-op), c.cacheData = data without a clone or an
\* Index change, close c.changed and make a new one.
ReplaceData ==
    /\ AllowRestore
    /\ saved.has
    /\ CanCommit
    /\ cacheData' = saved.d
    /\ changed' = changed + 1
    /\ UNCHANGED <<clones, saved, creator, reader, waiter>>

-----------------------------------------------------------------------------

Next ==
    \/ \E c \in Creators : CreateShardGroupRead(c) \/ CreateShardGroupWrite(c)
    \/ PrecreateShardGroups \/ PruneShardGroups \/ DeleteShardGroup
    \/ TruncateShardGroups \/ DropShard \/ AddShardOwner \/ RemoveShardOwner
    \/ CreateRetentionPolicy \/ DropRetentionPolicy
    \/ CreateDataNode \/ DeleteDataNode \/ FreezeDataNode \/ UnfreezeDataNode
    \/ ShardsByTimeRangeStart \/ ShardsByTimeRangeRead
    \/ WaitDataIndex \/ WaitForDataChanged \/ WaitWake
    \/ DataSnapshot \/ SetData \/ ReplaceData

Spec == Init /\ [][Next]_vars

-----------------------------------------------------------------------------
(* Properties                                                              *)

GroupIds(seq) == {seq[i].id : i \in DOMAIN seq}

\* A live shard group is never lost: across any step that keeps its
\* retention policy, a group with a zero DeletedAt is still there.  Only
\* PruneShardGroups removes groups, and only deleted ones; every other
\* operation (Precreate's fold over the policies, the ordered insert of
\* CreateShardGroup) must keep them.
GroupsVanishOnlyWhenDeleted ==
    [][\A rp \in cacheData.rps \cap cacheData'.rps :
          \A i \in DOMAIN cacheData.groups[rp] :
             cacheData.groups[rp][i].deletedAt = 0 =>
                cacheData.groups[rp][i].id \in GroupIds(cacheData'.groups[rp])]_cacheData

\* Every change of the snapshot wakes the waiters: while the channel a
\* caller got from WaitForDataChanged is still open, c.cacheData is the
\* snapshot (Index and arrays) it was when the channel was taken.
NoMissedChange ==
    waiter.pc = "wait" /\ waiter.ch = changed =>
        waiter.ver = <<cacheData.index, cacheData.gen>>

\* A snapshot a caller holds from Data() is the caller's: no Client call
\* changes it behind the caller's back.
SavedSnapshotUnchanged ==
    [][saved.has => saved'.d = saved.d]_saved

\* Spec 4.2: ShardsByTimeRange's result is de-duplicated by shard ID.
ShardsByTimeRangeDistinct ==
    reader.pc = Len(Sources) + 1 /\ ~reader.err =>
        Cardinality(reader.res) = Cardinality({r.sid : r \in reader.res})

=============================================================================
