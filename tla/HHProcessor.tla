---------------------------- MODULE HHProcessor ----------------------------
(***************************************************************************)
(* Hinted-handoff node processors (package hh, NodeProcessor), one per     *)
(* remote node, sharing the process-wide concurrency gate                  *)
(* activeProcessorCount.  Each processor has a lifecycle (Open / Close /   *)
(* Purge), accepts WriteShard calls under its read lock, and runs a        *)
(* background goroutine (run) that selects between done, the purge timer   *)
(* and the sending timer.  Timers are abstracted away: either case may be  *)
(* picked whenever the loop is in its select, which is what Go's select    *)
(* does once a timer has fired.  A frame is the byte string marshalWrite   *)
(* made (HHCodec), tagged with its id (the order of its WriteShard call)   *)
(* and the arguments of that call, which SendWrite decodes again.          *)
(* The remote writer, the queue's Advance and Open's directory and queue   *)
(* set-up may fail; a process crash loses everything but the on-disk      *)
(* queue.                                                                  *)
(***************************************************************************)
EXTENDS Naturals, Sequences, SequencesExt, FiniteSets, HHCodec

CONSTANTS Nodes,            \* remote nodes, one NodeProcessor each
          MaxActive,        \* maxActiveProcessorCount as set at start-up (0: no gate)
          MaxActiveSettings,\* values later SetMaxActiveProcessorCount calls pass
          MaxResizes,       \* bound: SetMaxActiveProcessorCount calls
          RetryInterval,    \* NodeProcessor.RetryInterval
          RetryMaxInterval, \* NodeProcessor.RetryMaxInterval
          QueueCap,         \* frames the queue holds before Append fails (MaxSize)
          ShardIDs,         \* shard ids WriteShard is called with
          PointSlices,      \* point slices of a call, each point its text
          MaxWrites,        \* bound: WriteShard calls accepted per node
          MaxFaults,        \* bound: injected remote / Advance / Open failures
          MaxCrashes,       \* bound: process crashes
          AdvanceCanFail,   \* whether queue.Advance may return an error
          OpenCanFail       \* whether MkdirAll / newQueue / queue.Open may fail

ASSUME /\ MaxActive \in Nat /\ MaxActiveSettings \subseteq Nat
       /\ MaxResizes \in Nat
       /\ RetryInterval \in Nat \ {0} /\ RetryMaxInterval \in Nat \ {0}
       /\ QueueCap \in Nat \ {0} /\ MaxWrites \in Nat
       /\ ShardIDs \subseteq Nat
       /\ AdvanceCanFail \in BOOLEAN /\ OpenCanFail \in BOOLEAN

VARIABLES
    done,        \* done[n]: "nil" | "open" | "closed"  (n.done channel)
    closer,      \* closer[n]: Close holds n.mu and waits in wg.Wait()
    queueOpen,   \* queueOpen[n]: n.queue was opened by the last Open
    queueSet,    \* queueSet[n]: n.queue is not nil (an Open got that far)
    runner,      \* runner[n]: where the run goroutine is, "none" if not running
    waitTime,    \* waitTime[n]: the run loop's current sending delay
    active,      \* activeProcessorCount, shared by all processors
    maxActive,   \* maxActiveProcessorCount, read without synchronisation
    release,     \* release[n]: sendingLoop deferred the counter's decrement
    resizes,     \* SetMaxActiveProcessorCount calls so far
    queue,       \* queue[n]: frames on disk, oldest first
    written,     \* written[n]: WriteShard calls accepted so far (frame ids)
    stats,       \* stats[n]: the NodeProcessorStatistics counters
    nodes,       \* data nodes the meta client knows (n.meta.DataNode)
    delivered,   \* history: ids passed to writer.WriteShard, in order
    dropped,     \* history: ids discarded by a documented policy
    faults,      \* injected failures so far
    crashes      \* process crashes so far

vars == <<done, closer, queueOpen, queueSet, runner, waitTime, active, maxActive,
          release, resizes, queue, written, stats, nodes, delivered, dropped,
          faults, crashes>>

RunnerStates == {"none", "select", "allow", "gate", "undo", "send", "ack"}
\* shard and points are the WriteShard arguments, bytes what the queue holds.
Frame == [id : 1..MaxWrites, shard : ShardIDs, points : PointSlices,
          bytes : Seq(0..255)]
Stats == [shardReqPoints : Nat, nodeReqFail : Nat, nodeReqPoints : Nat]
NoStats == [shardReqPoints |-> 0, nodeReqFail |-> 0, nodeReqPoints |-> 0]

Ids(s) == {s[i].id : i \in DOMAIN s}

\* A frame the queue gives back damaged, cut inside its 8-byte header: the
\* decode failure of unmarshalWrite that needs no point syntax.
Torn(b) == SubSeq(b, 1, 7)

\* SendWrite's unmarshalWrite of the frame at the head of the queue.
Decoded(f) == unmarshalWrite(f.bytes)
MinDelay == IF RetryInterval > RetryMaxInterval THEN RetryMaxInterval
                                                ELSE RetryInterval

TypeOK ==
    /\ done \in [Nodes -> {"nil", "open", "closed"}]
    /\ closer \in [Nodes -> BOOLEAN]
    /\ queueOpen \in [Nodes -> BOOLEAN]
    /\ queueSet \in [Nodes -> BOOLEAN]
    /\ runner \in [Nodes -> RunnerStates]
    /\ waitTime \in [Nodes -> 1..(RetryInterval + RetryMaxInterval)]
    /\ active \in -MaxResizes..Cardinality(Nodes)
    /\ maxActive \in {MaxActive} \cup MaxActiveSettings
    /\ release \in [Nodes -> BOOLEAN]
    /\ resizes \in 0..MaxResizes
    /\ queue \in [Nodes -> Seq(Frame)]
    /\ written \in [Nodes -> 0..MaxWrites]
    /\ stats \in [Nodes -> Stats]
    /\ nodes \in SUBSET Nodes
    /\ delivered \in [Nodes -> Seq(1..MaxWrites)]
    /\ dropped \in [Nodes -> SUBSET (1..MaxWrites)]
    /\ faults \in 0..MaxFaults /\ crashes \in 0..MaxCrashes

Init ==
    /\ done = [n \in Nodes |-> "nil"]
    /\ closer = [n \in Nodes |-> FALSE]
    /\ queueOpen = [n \in Nodes |-> FALSE]
    /\ queueSet = [n \in Nodes |-> FALSE]
    /\ runner = [n \in Nodes |-> "none"]
    /\ waitTime = [n \in Nodes |-> MinDelay]
    /\ active = 0
    /\ maxActive = MaxActive
    /\ release = [n \in Nodes |-> FALSE]
    /\ resizes = 0
    /\ queue = [n \in Nodes |-> <<>>]
    /\ written = [n \in Nodes |-> 0]
    /\ stats = [n \in Nodes |-> NoStats]
    /\ nodes = Nodes
    /\ delivered = [n \in Nodes |-> <<>>]
    /\ dropped = [n \in Nodes |-> {}]
    /\ faults = 0 /\ crashes = 0

\* n.mu.RLock is available when Close does not hold the write lock; n.mu.Lock
\* also needs the run goroutine to be outside SendWrite, whose read lock is
\* held from the remote write to the queue's Advance ("ack").
RLockFree(n) == ~closer[n]
LockFree(n) == ~closer[n] /\ runner[n] # "ack"

CanFault == faults < MaxFaults
Fault == faults' = faults + 1

\* What survives a process restart (a crash or a panic): only the on-disk
\* queues; NewNodeProcessor and the package variables start afresh.
Restart ==
    /\ done' = [n \in Nodes |-> "nil"]
    /\ closer' = [n \in Nodes |-> FALSE]
    /\ queueOpen' = [n \in Nodes |-> FALSE]
    /\ queueSet' = [n \in Nodes |-> FALSE]
    /\ runner' = [n \in Nodes |-> "none"]
    /\ waitTime' = [n \in Nodes |-> MinDelay]
    /\ active' = 0
    /\ maxActive' = MaxActive
    /\ release' = [n \in Nodes |-> FALSE]
    /\ stats' = [n \in Nodes |-> NoStats]

-----------------------------------------------------------------------------
(* Lifecycle                                                               *)

\* Open: done is set first; the directory and queue set-up may then fail,
\* leaving done non-nil with no queue and no run goroutine.
Open(n) ==
    /\ LockFree(n)
    /\ done[n] = "nil"
    /\ done' = [done EXCEPT ![n] = "open"]
    /\ \/ /\ queueOpen' = [queueOpen EXCEPT ![n] = TRUE]
          /\ queueSet' = [queueSet EXCEPT ![n] = TRUE]
          /\ runner' = [runner EXCEPT ![n] = "select"]
          /\ waitTime' = [waitTime EXCEPT ![n] = MinDelay]
          /\ UNCHANGED faults
       \/ /\ OpenCanFail /\ CanFault /\ Fault
          /\ UNCHANGED <<queueOpen, queueSet, runner, waitTime>>
    /\ UNCHANGED <<closer, active, queue, written, stats, nodes, delivered,
                   dropped, crashes, maxActive, release, resizes>>

\* Close, first half: take n.mu, close(n.done), then block in wg.Wait().
Close(n) ==
    /\ LockFree(n)
    /\ done[n] = "open"
    /\ done' = [done EXCEPT ![n] = "closed"]
    /\ closer' = [closer EXCEPT ![n] = TRUE]
    /\ UNCHANGED <<queueOpen, queueSet, runner, waitTime, active, queue, written, stats,
                   nodes, delivered, dropped, faults, crashes, maxActive, release, resizes>>

\* Close, second half: the run goroutine has exited; n.done = nil,
\* n.queue.Close(), and n.mu is released.
CloseFinish(n) ==
    /\ closer[n]
    /\ runner[n] = "none"
    /\ queueSet[n]
    /\ done' = [done EXCEPT ![n] = "nil"]
    /\ queueOpen' = [queueOpen EXCEPT ![n] = FALSE]
    /\ closer' = [closer EXCEPT ![n] = FALSE]
    /\ UNCHANGED <<queueSet, runner, waitTime, active, queue, written, stats,
                   nodes, delivered, dropped, faults, crashes, maxActive,
                   release, resizes>>

\* Close after an Open that failed before n.queue was set: wg.Wait returns
\* at once and n.queue.Close() dereferences nil; the panic ends the process.
CloseFinishNilQueue(n) ==
    /\ closer[n]
    /\ runner[n] = "none"
    /\ ~queueSet[n]
    /\ Restart
    /\ UNCHANGED <<queue, written, nodes, delivered, dropped, faults, crashes,
                   resizes>>

\* Purge: only when closed; removes the queue directory.
Purge(n) ==
    /\ LockFree(n)
    /\ done[n] = "nil"
    /\ queue[n] # <<>>
    /\ queue' = [queue EXCEPT ![n] = <<>>]
    /\ dropped' = [dropped EXCEPT ![n] = @ \cup Ids(queue[n])]
    /\ UNCHANGED <<done, closer, queueOpen, queueSet, runner, waitTime, active, written,
                   stats, nodes, delivered, faults, crashes, maxActive, release, resizes>>

\* WriteShard: rejected when closed; otherwise the counters are bumped and
\* marshalWrite's frame appended, which fails when the queue is full or was
\* never opened.  The frame may come back from the disk damaged (~intact).
WriteShard(n) ==
    /\ RLockFree(n)
    /\ done[n] # "nil"
    /\ queueSet[n]
    /\ written[n] < MaxWrites
    /\ \E s \in ShardIDs, ps \in PointSlices, intact \in BOOLEAN :
        LET b == marshalWrite(s, ps)
            f == [id |-> written[n] + 1, shard |-> s, points |-> ps,
                  bytes |-> IF intact THEN b ELSE Torn(b)]
        IN
        /\ written' = [written EXCEPT ![n] = f.id]
        /\ stats' = [stats EXCEPT ![n].shardReqPoints = @ + Len(ps)]
        /\ IF queueOpen[n] /\ Len(queue[n]) < QueueCap
              THEN /\ queue' = [queue EXCEPT ![n] = Append(@, f)]
                   /\ UNCHANGED dropped
              ELSE /\ dropped' = [dropped EXCEPT ![n] = @ \cup {f.id}]
                   /\ UNCHANGED queue
    /\ UNCHANGED <<done, closer, queueOpen, queueSet, runner, waitTime, active, nodes,
                   delivered, faults, crashes, maxActive, release, resizes>>

\* WriteShard on a processor whose Open failed before n.queue was set:
\* n.queue.Append dereferences nil and the panic ends the process; the
\* call never returns, so no write is accepted.
WriteShardNilQueue(n) ==
    /\ RLockFree(n)
    /\ done[n] # "nil"
    /\ ~queueSet[n]
    /\ written[n] < MaxWrites
    /\ Restart
    /\ UNCHANGED <<queue, written, nodes, delivered, dropped, faults, crashes,
                   resizes>>

-----------------------------------------------------------------------------
(* The run goroutine                                                       *)

\* select: <-n.done.
RunDone(n) ==
    /\ runner[n] = "select"
    /\ done[n] = "closed"
    /\ runner' = [runner EXCEPT ![n] = "none"]
    /\ UNCHANGED <<done, closer, queueOpen, queueSet, waitTime, active, queue, written,
                   stats, nodes, delivered, dropped, faults, crashes, maxActive, release, resizes>>

\* select: <-purgeTimer.C; PurgeOlderThan(now - MaxAge) drops the frames
\* older than MaxAge, which, appended in time order, are a prefix.
RunPurge(n) ==
    /\ runner[n] = "select"
    /\ \E k \in 1..Len(queue[n]) :
        /\ queue' = [queue EXCEPT ![n] = SubSeq(@, k + 1, Len(@))]
        /\ dropped' = [dropped EXCEPT ![n] = @ \cup Ids(SubSeq(queue[n], 1, k))]
    /\ UNCHANGED <<done, closer, queueOpen, queueSet, runner, waitTime, active, written,
                   stats, nodes, delivered, faults, crashes, maxActive, release, resizes>>

\* select: <-sendingTimer.C enters sendingLoop, which goes through
\* concurrencyAllow only when it reads maxActiveProcessorCount > 0.
RunSend(n) ==
    /\ runner[n] = "select"
    /\ runner' = [runner EXCEPT ![n] = IF maxActive > 0 THEN "allow" ELSE "send"]
    /\ UNCHANGED <<done, closer, queueOpen, queueSet, waitTime, active, queue, written,
                   stats, nodes, delivered, dropped, faults, crashes, maxActive,
                   release, resizes>>

\* concurrencyAllow reads maxActiveProcessorCount again: below 1 it returns
\* true at once, and sendingLoop still defers the decrement of a counter
\* it never incremented.
ConcurrencyAllowUnlimited(n) ==
    /\ runner[n] = "allow"
    /\ maxActive < 1
    /\ runner' = [runner EXCEPT ![n] = "send"]
    /\ release' = [release EXCEPT ![n] = TRUE]
    /\ UNCHANGED active
    /\ UNCHANGED <<done, closer, queueOpen, queueSet, waitTime, queue, written, stats,
                   nodes, delivered, dropped, faults, crashes, maxActive,
                   resizes>>

\* concurrencyAllow: a cap of at least 1 starts the one-second loop.
ConcurrencyAllowEnter(n) ==
    /\ runner[n] = "allow"
    /\ maxActive >= 1
    /\ runner' = [runner EXCEPT ![n] = "gate"]
    /\ UNCHANGED <<active, release>>
    /\ UNCHANGED <<done, closer, queueOpen, queueSet, waitTime, queue, written, stats,
                   nodes, delivered, dropped, faults, crashes, maxActive,
                   resizes>>

\* The cap as the atomic add of concurrencyAllow compares against it.
GateAdmits(count) == count <= maxActive

\* Mutant: the counter is compared before it is incremented.
ConcurrencyAllowTryLoadFirst(n) ==
    /\ runner[n] = "gate"
    /\ active' = active + 1
    /\ runner' = [runner EXCEPT ![n] = IF GateAdmits(active) THEN "send" ELSE "undo"]
    /\ release' = [release EXCEPT ![n] = GateAdmits(active)]
    /\ UNCHANGED <<done, closer, queueOpen, queueSet, waitTime, queue, written, stats,
                   nodes, delivered, dropped, faults, crashes, maxActive,
                   resizes>>

\* concurrencyAllow: atomic.AddInt32(&activeProcessorCount, 1) <= max; on
\* success sendingLoop defers the decrement.
ConcurrencyAllowTry(n) ==
    /\ runner[n] = "gate"
    /\ active' = active + 1
    /\ runner' = [runner EXCEPT ![n] = IF GateAdmits(active + 1) THEN "send" ELSE "undo"]
    /\ release' = [release EXCEPT ![n] = GateAdmits(active + 1)]
    /\ UNCHANGED <<done, closer, queueOpen, queueSet, waitTime, queue, written, stats,
                   nodes, delivered, dropped, faults, crashes, maxActive,
                   resizes>>

\* concurrencyAllow: restore & next.
ConcurrencyAllowRestore(n) ==
    /\ runner[n] = "undo"
    /\ active' = active - 1
    /\ runner' = [runner EXCEPT ![n] = "gate"]
    /\ UNCHANGED release
    /\ UNCHANGED <<done, closer, queueOpen, queueSet, waitTime, queue, written, stats,
                   nodes, delivered, dropped, faults, crashes, maxActive,
                   resizes>>

\* Mutant: the deferred release is registered before the gate is passed,
\* so a timed-out attempt also decrements the counter.
ConcurrencyAllowTimeoutReleases(n) ==
    /\ runner[n] = "gate"
    /\ runner' = [runner EXCEPT ![n] = "select"]
    /\ waitTime' = [waitTime EXCEPT ![n] = RetryInterval]
    /\ active' = active - 1
    /\ UNCHANGED <<done, closer, queueOpen, queueSet, queue, written, stats,
                   nodes, delivered, dropped, faults, crashes, maxActive,
                   release, resizes>>

\* concurrencyAllow times out after a second; sendingLoop skips this round
\* and returns RetryInterval.
ConcurrencyAllowTimeout(n) ==
    /\ runner[n] = "gate"
    /\ runner' = [runner EXCEPT ![n] = "select"]
    /\ waitTime' = [waitTime EXCEPT ![n] = RetryInterval]
    /\ UNCHANGED <<done, closer, queueOpen, queueSet, active, queue, written, stats,
                   nodes, delivered, dropped, faults, crashes, maxActive,
                   release, resizes>>

\* sendingLoop returns nextDelay: the deferred gate release, if one was
\* registered, runs and the loop goes back to its select.
SendingLoopReturn(n, nextDelay) ==
    /\ runner' = [runner EXCEPT ![n] = "select"]
    /\ waitTime' = [waitTime EXCEPT ![n] = nextDelay]
    /\ active' = IF release[n] THEN active - 1 ELSE active
    /\ release' = [release EXCEPT ![n] = FALSE]

\* Exponential backoff of sendingLoop after an error other than io.EOF.
Backoff(n) == IF 2 * waitTime[n] > RetryMaxInterval THEN RetryMaxInterval
                                                     ELSE 2 * waitTime[n]

\* queue.Advance, which may fail (logged and ignored).
Advance(n) ==
    \/ /\ queue' = [queue EXCEPT ![n] = Tail(@)]
       /\ UNCHANGED faults
    \/ /\ AdvanceCanFail /\ CanFault /\ Fault
       /\ UNCHANGED queue

\* NodeProcessor.Active: the meta client's DataNode(nodeID) finds the node.
\* With this repository's Client as n.meta, DataNode fails only with
\* ErrNodeNotFound, which Active reads as inactive, so SendWrite's return
\* of Active's error is unreachable.
Active(n) == n \in nodes

\* SendWrite, io.EOF: the node is not known (Active) or the queue is empty.
SendEOF(n) ==
    /\ ~Active(n) \/ queue[n] = <<>>
    /\ SendingLoopReturn(n, RetryInterval)
    /\ UNCHANGED <<queue, stats, delivered, dropped, faults>>

SendPoison(n, f) ==
    /\ ~Decoded(f).ok
    /\ Advance(n)
    /\ dropped' = IF queue'[n] = queue[n] THEN dropped
                  ELSE [dropped EXCEPT ![n] = @ \cup {f.id}]
    /\ SendingLoopReturn(n, Backoff(n))
    /\ UNCHANGED <<stats, delivered>>

\* Mutant: the frame is advanced past even though the remote write failed.
SendRemoteErrorAdvances(n, f) ==
    /\ Decoded(f).ok /\ CanFault /\ Fault
    /\ stats' = [stats EXCEPT ![n].nodeReqFail = @ + 1]
    /\ queue' = [queue EXCEPT ![n] = Tail(@)]
    /\ SendingLoopReturn(n, Backoff(n))
    /\ UNCHANGED <<delivered, dropped>>

\* SendWrite, writer.WriteShard fails: WriteNodeReqFail is counted, the
\* frame stays at the head and sendingLoop backs off.
SendRemoteError(n, f) ==
    /\ Decoded(f).ok /\ CanFault /\ Fault
    /\ stats' = [stats EXCEPT ![n].nodeReqFail = @ + 1]
    /\ SendingLoopReturn(n, Backoff(n))
    /\ UNCHANGED <<queue, delivered, dropped>>

\* SendWrite, writer.WriteShard succeeds: WriteNodeReqPoints is counted;
\* the read lock is still held until the frame is acknowledged (SendAck).
SendRemoteOK(n, f) ==
    /\ Decoded(f).ok
    /\ delivered' = [delivered EXCEPT ![n] = Append(@, f.id)]
    /\ stats' = [stats EXCEPT ![n].nodeReqPoints = @ + Len(Decoded(f).points)]
    /\ runner' = [runner EXCEPT ![n] = "ack"]
    /\ UNCHANGED <<queue, dropped, faults, waitTime, active, maxActive, release, resizes>>

\* SendWrite, called from sendingLoop, runs under n.mu.RLock.
SendWrite(n) ==
    /\ runner[n] = "send"
    /\ RLockFree(n)
    /\ IF ~Active(n) \/ queue[n] = <<>>
          THEN SendEOF(n)
          ELSE LET f == Head(queue[n]) IN
               SendPoison(n, f) \/ SendRemoteError(n, f) \/ SendRemoteOK(n, f)
    /\ UNCHANGED <<done, closer, queueOpen, queueSet, written, nodes, crashes,
                   maxActive, resizes>>

\* The rest of a successful SendWrite: queue.Advance, return len(buf), nil.
SendAck(n) ==
    /\ runner[n] = "ack"
    /\ Advance(n)
    /\ SendingLoopReturn(n, RetryInterval)
    /\ UNCHANGED <<done, closer, queueOpen, queueSet, written, stats, nodes, delivered,
                   dropped, crashes, maxActive, resizes>>

-----------------------------------------------------------------------------
(* Environment                                                             *)

\* The meta client learns or forgets the data node (CreateDataNode /
\* DeleteDataNode), which is what Active() asks through DataNode(id).
NodeJoin(n) ==
    /\ n \notin nodes
    /\ nodes' = nodes \cup {n}
    /\ UNCHANGED <<done, closer, queueOpen, queueSet, runner, waitTime, active, queue,
                   written, stats, delivered, dropped, faults, crashes, maxActive, release, resizes>>

NodeLeave(n) ==
    /\ n \in nodes
    /\ nodes' = nodes \ {n}
    /\ UNCHANGED <<done, closer, queueOpen, queueSet, runner, waitTime, active, queue,
                   written, stats, delivered, dropped, faults, crashes, maxActive, release, resizes>>

\* SetMaxActiveProcessorCount: a plain store to the package variable, which
\* processors between their two reads of it may see either side of.
SetMaxActiveProcessorCount ==
    /\ resizes < MaxResizes
    /\ \E v \in MaxActiveSettings :
        /\ maxActive' = v
        /\ resizes' = resizes + 1
    /\ UNCHANGED <<done, closer, queueOpen, queueSet, runner, waitTime, active, release,
                   queue, written, stats, nodes, delivered, dropped, faults,
                   crashes>>

\* The process dies: goroutines, locks, counters and the gate are lost; the
\* on-disk queues survive and new processors start closed.
Crash ==
    /\ crashes < MaxCrashes
    /\ crashes' = crashes + 1
    /\ Restart
    /\ UNCHANGED <<queue, written, nodes, delivered, dropped, faults, resizes>>

-----------------------------------------------------------------------------

Next ==
    \/ \E n \in Nodes :
        \/ Open(n) \/ Close(n) \/ CloseFinish(n) \/ CloseFinishNilQueue(n)
        \/ Purge(n) \/ WriteShard(n) \/ WriteShardNilQueue(n)
        \/ RunDone(n) \/ RunPurge(n) \/ RunSend(n)
        \/ ConcurrencyAllowUnlimited(n) \/ ConcurrencyAllowEnter(n)
        \/ ConcurrencyAllowTry(n) \/ ConcurrencyAllowRestore(n)
        \/ ConcurrencyAllowTimeout(n)
        \/ SendWrite(n) \/ SendAck(n)
        \/ NodeJoin(n) \/ NodeLeave(n)
    \/ SetMaxActiveProcessorCount
    \/ Crash

\* Each goroutine keeps running while it can: the run loop, Close's
\* wait, and the gate (whose timeout is always available).  A spinning
\* concurrencyAllow runs its default branch (the atomic add) on its first
\* iteration and then between every check of the one-second timer, so a
\* processor that keeps entering the gate keeps trying the counter: strong
\* fairness on the try, which is enabled only at the top of the loop.  One
\* that keeps finding the counter at the cap is spinning, and the timer
\* fires within a second of it: strong fairness on the timeout taken
\* while the gate is full.
Fairness ==
    \A n \in Nodes :
        /\ WF_vars(CloseFinish(n) \/ CloseFinishNilQueue(n))
        /\ WF_vars(RunDone(n))
        /\ WF_vars(RunSend(n))
        /\ WF_vars(ConcurrencyAllowUnlimited(n) \/ ConcurrencyAllowEnter(n))
        /\ WF_vars(ConcurrencyAllowTry(n) \/ ConcurrencyAllowTimeout(n))
        /\ SF_vars(ConcurrencyAllowTry(n))
        /\ SF_vars(ConcurrencyAllowTimeout(n) /\ ~GateAdmits(active + 1))
        /\ WF_vars(ConcurrencyAllowRestore(n))
        /\ WF_vars(SendWrite(n))
        /\ WF_vars(SendAck(n))

Spec == Init /\ [][Next]_vars
FairSpec == Spec /\ Fairness

-----------------------------------------------------------------------------
(* Properties                                                              *)

Senders == {n \in Nodes : runner[n] \in {"send", "ack"}}
CapValues == {MaxActive} \cup MaxActiveSettings

\* The concurrency gate (spec 4.5): while maxActiveProcessorCount is only
\* ever set to positive values, no more processors are inside SendWrite at
\* once than the largest of them, although concurrencyAllow lets the
\* counter overshoot before restoring it and the cap may shrink meanwhile.
GateBound ==
    0 \notin CapValues =>
        Cardinality(Senders) <= Max(CapValues)

\* activeProcessorCount covers every processor whose sendingLoop has
\* deferred its decrement (spec 4.5: release pairs with acquire): the
\* sendingLoop check and the one in concurrencyAllow must agree on the cap.
GateCountsHolders ==
    Cardinality({n \in Nodes : release[n]}) <= active

\* Per node, the processor implements the abstract delivery specification:
\* frames reach the remote writer in WriteShard order, and leave the queue
\* only after delivery or through a documented drop (queue full, poison
\* frame, age purge, Purge).
Delivery == INSTANCE HHDelivery
    WITH q <- [n \in Nodes |-> [i \in DOMAIN queue[n] |-> queue[n][i].id]],
         issued <- written
DeliverySpec == Delivery!Spec

\* Spec R1: every frame SendWrite can decode hands writer.WriteShard the
\* shard id and the points of the WriteShard call that queued it, whatever
\* bytes the id's big-endian header holds (a '\n' among them included).
FramesDecodeToTheirWrite ==
    \A n \in Nodes : \A i \in DOMAIN queue[n] :
        LET f == queue[n][i] IN
        Decoded(f).ok => Decoded(f).shard = f.shard /\ Decoded(f).points = f.points

\* Spec I5: a processor never reports more points written to the node
\* (WriteNodeReqPoints) than points it accepted (WriteShardReqPoints).
NodePointsWithinShardPoints ==
    \A n \in Nodes : stats[n].nodeReqPoints <= stats[n].shardReqPoints

\* Spec 4.4: an open processor (n.done set) has an open queue and a running
\* run goroutine.
OpenedProcessorRuns ==
    \A n \in Nodes : done[n] = "open" => queueOpen[n] /\ runner[n] # "none"

\* A processor whose Open succeeded, kept open for a node the meta client
\* keeps knowing, keeps coming back to an empty queue (spec 7: transport
\* errors are retried with backoff until delivered or purged): remote
\* errors and failed Advances are retried, a poison frame is skipped, and
\* the gate is passed or timed out of, whatever resize comes in between,
\* so no frame stays queued forever.
Serving(n) == done[n] = "open" /\ queueOpen[n] /\ ~closer[n] /\ Active(n)
CloseCompletes == \A n \in Nodes : closer[n] ~> ~closer[n]

=============================================================================
