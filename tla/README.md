# Verification of lan-link

lan-link manages machines over a LAN: a daemon (`lan-linkd`) executes commands and
receives files for a client (`lan-linkctl`), and a VPN crate adds a mesh with an elected
registry, sessions, routing and a chunk store.  This directory holds TLA+ modules
translated from the source, TLC configurations that check them on small instances, and
TLAPS proofs that hold for every value of the constants.

    tlc -workers 2 -config MCRegistry_registry.cfg MCRegistry   # a run
    tlapm RegistryProofs.tla                                    # the proofs of a module

`PROJECT.json` lists components, runs, mutants (for each property a plausible bug that
violates it), the source lines behind each definition, findings, hazards and theorems.

## 1. Inventory

| Component | State | Operations | Talks to | What is hard | What makes it correct |
|---|---|---|---|---|---|
| Registry election, `vpn/src/registry/election.rs` | status, term, voted_for, votes_received, registry, missed heartbeats; all in memory | start_election, six message handlers, request_sync, heartbeat counter | other managers by broadcast; the owner by callbacks | requests, votes and results of different terms in any order; no candidate timeout; state changes outside the vote (sync) | one leader per term backed by a majority; stale messages change nothing; an election ends |
| File push, `ctl/src/main.rs` `cmd_push`, `daemon/src/main.rs` | client: offset, retry; daemon: FILE_TRANSFERS, the file | FilePush, FileChunk, FileAck, timeouts | UDP or TCP | loss, duplication, late acknowledgements, retries against the daemon's own quota | success means the file is complete; failure has a cause |
| Streaming execution, `shell/src/lib.rs`, `daemon/src/main.rs` `run_exec_task`, `ctl` `drain_exec` | exec_map, child slot behind a mutex, four channels | Exec, NativeSpawn, ExecStdin, ExecSignal, deadline | child process, client | five threads and a task per exec; blocking calls inside the task; ids shared by clients | output in order and complete; one true ExecDone; a signal stops the child; nobody else's child dies |
| Reliable layer, `protocol/src/reliable.rs` | send window, out-of-order buffer | send, on_ack, poll_retransmit, deliver, ack_info | its callers (none in the repository yet) | loss, duplication, reordering, 32-bit wrap-around | in-order, exactly-once delivery; what is acknowledged was delivered; the window moves on |
| Daemon connections, `daemon/src/main.rs`, `connection.rs` | two connection tables, two rate limiters, last_hb | SYN, data, heartbeat, RST, tick, gc | clients over UDP and TCP | the loop awaits handlers; ids reused by other peers; windows that restart | the limits hold (they do not as documented: `conn_quota`); a connection keeps its peer; idle ones go |
| TCP serving, `daemon/src/main.rs` | tcp_conns, one mutex per stream, locks on tables | handle_tcp_client, tcp_send | clients, exec tasks | locks held across awaits | replies get out; one client does not stop another |
| Registry centre, `vpn/src/registry/center.rs` | names, reverse, dirty flag, file | register, upsert, heartbeat, save, load; client cache | managers, disk | two maps under two locks; saves race with updates and with each other; failed saves and crashes | the maps agree; what is not marked dirty is on disk; no deadlock |
| Sessions and handshake, `vpn/src/vpn/session.rs`, `handshake.rs`, `identity.rs` | session table, keys, counters; phase and used timestamps | get_or_create, update, close, expire, erase; Hello, HelloAck, Data | peers | callers work on copies; late and repeated messages; a restart forgets the timestamps | a live session is not set back; only fresh data establishes |
| Heartbeat and self-healing, `heartbeat.rs`, `selfheal.rs` | missed beats per node; offline flag and failed attempts per node, pongs, a file | check of beats, handle_heartbeat, on_node_offline, on_node_recovered, healing loop, heal messages | each other by callback, the routing table, the DHT | two views of a node changed by three threads; reads and writes in separate critical sections; restored states | both views agree; silence and life are noticed; no path through a dead node stays in use |
| Forwarding, `multihop.rs`, `multipath.rs`, `vpn_router.rs` | routes with candidates and expiry; paths, weights, a reorder buffer; listeners and pings | discover, switch, invalidate, refresh, evict; send over paths, insert, skip; send, ping, receive loop | the DHT, self-healing, the LAN router, the relay | several threads change routes; skips against late fragments; two receive loops after a restart | one route per target; dead paths are not used; fragments in order and once; a node is known for a reason |
| DHT, `dht.rs`, `bootstrap.rs` | buckets, stored values; entry nodes | update, remove, refresh, process_message, store, expire; load a configuration | peers | full buckets; a refresh that looks first and removes later | a node is filed once, in its bucket; nodes that were heard of stay (they do not: `dht_refresh`) |
| Hole punching and relays, `hole_punch.rs`, `relay.rs` | active and punched peers, a socket; connection pool, relay table | punch_hole, keep_alive, remove; get, return, clean up, send, serve | peers | calls share a socket; a pool at its limit, slots freed by others, connections closed by the server | no punch is left behind or counted unheard; the count of the pool is true |
| Mesh commands, `command.rs` | the two storage files | backup, restore, increment, prune, gc, stats | the storage crate, `VpnRouter` | commands are processes that share files without a lock | commands end (a prune does not: `storage_prune`); snapshots survive |
| Statistics, `stats.rs`; addresses and routes, `address.rs`, `lan_router.rs`, `router.rs` | totals, samples, token bucket; two caches, a static map, nodes on the LAN | record, check, wait_for, reset; resolve, remap, announce, send | the mesh | locks taken one after the other; stale cache entries; thread life against the running flag | the rate holds; what is used was once true |
| Chunk store, `storage/*.rs` | chunks, manifests, versions, metadata | chunk, compare, upload, download, increment, prune, exchange entries | disk, peers | chunks fetched while others replace them; files rewritten by several processes; writes cut short | files are never mixtures; snapshots stay; the newest entry wins (it does not: `metadata_newest`) |
| Native commands, discovery, TUI, video, encryption | none worth modelling | system calls, stubs, library calls | | | |

`PROJECT.json` lists the hazards behind the column "what is hard" at their lines.

## 2. Plan

Order by how much of the system's behaviour depends on the part:

1. *done* `Election` (+ proofs), `FilePush` (+ proof), `StreamExec`, `ReliableStream`
   refining `SlidingWindow`, `DaemonConn`, `RegistryStore`, `SelfHeal` over `Multihop`.
2. *done* `TcpServe` (locks of the TCP tasks), beside `DaemonConn` in `Daemon`.
3. *done* `Handshake` and `Session`.
4. *done* `Bootstrap`, `Dht`, `Relay`, `HolePunch`, `Address`, `LanRouter`, `VpnRouter`,
   `RouteTable`, `Multipath`, `Traffic`, put together in `Mesh`.
5. *done* `ChunkDiff`, `IncrementalSync`, `Backup`, `MetadataSync`, put together in
   `Storage`.
6. *done* Proofs of every safety property that a passing run checks, and of the
   refinement of `SlidingWindow` by `ReliableStream` (section 4).
7. *done* Where the code does less than its own documents say, a run that states what they
   say and is violated (section 5).
8. Left to model: restarts and lock-level interleaving in `Election`, the client and the
   cache of the registry centre, listeners of SelfHealManager that call back.

## 3. The modules

### Election

`status`, `term`, `voted_for`, `votes_received`, `registry_id`, `registry_addr`, `missed`
are the fields of `ElectionManager` per node; `serving` is what the last call of the
registry-control callback said.  `msgs` holds every message ever sent: a handler may run
for any of them again, so delay, reordering, duplication and loss (a message that is
never taken) need no actions.  Each handler is one action (`HandleElectionRequest` ...
`HandleSyncResponse`); `SetRegistry`, `RecordMissedHeartbeat`, `ResetHeartbeatMonitor`
and `StartElection` are what an owner calls.  The hash that decides a vote
(`compute_candidate_hash`) is the constant `Prefer`: any relation between candidate, term
and voter.  `Known` is each node's table, constant.  Handlers are atomic.

| Run | Checks | Instance |
|---|---|---|
| `registry` | `ResultNeedsMajority`, `DoubleVoteNeedsResult`, `LeaderYieldsToTerm` | three nodes, two terms, split preferences, one node that knows itself too (so that RegistryChange is broadcast), synchronisation from n1 to n2 |
| `election_live` | `ElectionSettles`, `LeaderBecomesKnown` | three nodes, one term, the registry asks `n2` for its data |

`registry` also has the registry's store (below): `MCRegistry` lets either run for itself.
Two terms are what stale messages, re-elections and the return of an old leader need;
a threshold of one missed heartbeat only shortens the way to an election.
`election_live` assumes weak fairness of delivery per receiver, type, sender and term
(the transport retransmits for ever); nothing is assumed of owners.  It shows that a
candidate may also stay one for ever: refused by too many, it has no election timeout.
`DoubleVoteNeedsResult` says when a node votes twice in a term: `become_follower` clears
`voted_for` on a result of the current term, so a late request of the same term gets a
second vote, and only then.

### FilePush

`pc`, `offset`, `retry`, `pushNow` are `cmd_push`; `entry`, `written` the daemon's
transfer and file; `cmd_count`, `win_start` the client's entry in `cmd_counts`; `net` a
bag of datagrams.  Time passes only in `Timeout`, whose waits are the code's 1, 3, 5 and 7
s. `truncated` is history: chunks that a repeated FilePush erased.  `trouble` records what
happened to the push: an I/O error, the quota, a time-out while something was still in
flight ("early").

`daemon` (`MCDaemon`, which lets the push, the reliable layer or the connections run) has
two chunks, the first and the last; up to three losses, one duplicate of any datagram, any
delay, a quota of five commands, I/O errors.  It checks `DoneMeansComplete` (the daemon
wrote every chunk of a push that reports success; what is missing then, a second FilePush
erased; that nothing is missing if there is none is proved only), `FailureJustified` (a
failure has one of the recorded causes) and, with weak fairness of the client's loop and
of the daemon's receive loop, `PushEnds`.  Three losses are enough to lose all but one
attempt; four attempts at one chunk and the quota of five bring the push to its quota.

### StreamExec

Per exec: the client in `drain_exec`, the child (external), the two reader threads, the
wait thread with the child's mutex, the two bridge threads and `run_exec_task`, whose
`task` names the await or the blocking call it is in.  `exec_map` is keyed by id as in
the code; `id`, chosen in `ExecInit`, is the id each client uses: lan-linkctl always says 1,
other clients of the protocol may choose.  The network between daemon and client is left
out (`wire` is what the daemon sent).  `Deadline` is that of
`drain_exec`, which sends two signals; `DeadlineInteractive` that of
`drain_exec_interactive`, the client that sends input, which sends one or none.

`exec` (`MCStreamExec`; `running` says which execs take part): one interactive exec with two
chunks on stdout, one on stderr and two inputs, enough for reordering within and between
streams and for a full stdin pipe; or two at once, with equal or distinct ids.  It checks
`StreamsInOrder`, `DoneIsFinal`, `KilledForCause`, `AbandonedOnlyIfReplaced`, and
`ExitReported` and `ClientReturns` under weak fairness of the handler, of the threads of an
exec, of its task, and of the client, whose deadline passes; nothing is assumed of the
child.  `exec_signal` is a violation: `kill` waits for the mutex that the wait thread holds
until the child ends.

### ReliableStream and SlidingWindow

Sender and receiver fields as in the code, sequence numbers modulo `SeqSpace` (2^32 in a
release build; a debug build panics at the wrap instead).  The callers are external:
as in docs/architecture.md every packet is answered with `ack_info()`.  `Lifetime` keeps
a packet from outliving the reuse of its number (`Lifetime + WINDOW_SIZE < SeqSpace`),
which 2^32 numbers justify.  `SlidingWindow` states what the two users see: payloads
handed over in order, none missing and none twice, and released only when handed over.

`daemon` checks that the module implements it (`ImplementsWindow`, refinement mapping in
`Window`) over eight numbers, a window of three and twelve payloads, past the wrap-around,
with copies and one loss.  Packets that were overtaken stay in
`ooo_buffer` for ever; the run shows that they do no harm there, because the slot of a
packet that was overtaken is not acknowledged and the window does not go around past it.

### DaemonConn and TcpServe

`DaemonConn`: a behaviour is that of the UDP loop or of the TCP tasks (`transport`,
chosen in `Init`): each has a connection table and a rate limiter of its own in the
code.  Time is counted in heartbeat intervals of 5 s.  `LoopReceive` is one turn of the
UDP loop, with the heartbeat tick at its end when one is due; a native command splits it
(`busy`) because its result is awaited.  `HandlePacketTcp` is a frame handled by a TCP
task.

`TcpServe` is about the locks under those tasks: one mutex per stream for both
directions, `tcp_conns`, and the limiter and the connections (one lock here, since they
are taken together).  `tcp_task` says where each reader and each exec task is,
`tcp_client` how far the client's `Ctx` got: SYN, request, waiting, signal, gone.  A lock
whose holder waits for nothing else is taken and released in one step.

`Daemon` is their sum (a behaviour belongs to one of them).  `daemon` has two peers behind
one IP, two ids, a table of one place, all packet kinds and three intervals, more than two
windows; it checks `BurstBounded`: what the fixed windows do guarantee, twice the limit of a
limiter in any interval as long as a window (`admitted`, how many passed up to each moment,
is history).  `conn_quota` checks what comments and documents say, that no more than the
limit passes in such an interval (`QuotaHeld`), and is violated.  Two TCP clients, each
with a request or an exec of up to two chunks, which may give up at any time, are the
least in which one waits behind another; `NobodyStuck` says that no set of tasks waits
for locks within itself: the holder at the end of every chain can go on, or its client
has a deadline after which it sends again.  It does not say that nobody waits long: a client
that is silent until its deadline delays the replies to all (section 5), and in the model
writes do not block and the body of a frame arrives with its length.

### RegistryStore

`data` is the pair of maps `names` and `reverse`, `dirty` the atomic flag, `locked` the
holders of the two locks between steps, `file` what is at `db_path`, and `call` the
operation of each thread: `register`, `upsert` or `update_heartbeat`, then
`save_if_dirty` and `save_to_file`.  A step is a block under one lock, an access to
`dirty` or a system call, so that other threads run in between as they do in the code.
`fs::write` is two steps (open and truncate, write); two of them at once leave the later
data or a torn file.  `FailSave` is an I/O error, `CrashAndLoad` a restart with
`load_from_file`.  Queries read one map under its lock and change nothing.

`registry`: two threads, two names, two nodes, three operations, failing saves and one
crash: the least in which two updates of a name, or an update and a save, overlap and a
third operation finds the result.  It checks `ReverseAgrees`,
`CleanMeansSaved` and, with weak fairness of each thread that is inside an operation,
`OperationsReturn` (the deadlock that center.rs:235 says is fixed).  `raced` and `suspect`
are history.  `raced` says that a thread changed the data, or began a save, while another
thread was saving; `suspect` has the names of which an update was cut in two.  Neither looks
at what the properties compare: they say when the deviations of section 5 can happen, and
the properties that nothing else loses data.

### SelfHeal and Multihop

`Multihop` is the routing table of `MultihopManager` as operators: a set of entries, each
with the targets whose entries have a later `last_active` (`newer`), which is all that
eviction asks; each operator is one critical section of `routes`.  `SelfHeal` composes it
with `HeartbeatManager` (`beats`) and `SelfHealManager` (`states`, `heal_pongs`, `file`).
`thread` says where each of three threads is: "heartbeat" is whoever holds the lock on
`HeartbeatManager.nodes` (the checking thread or `handle_heartbeat`; both call back with
that lock held), "loop" the healing loop, "caller" whoever reports a failed path,
refreshes routes or brings a PartitionSync.  A step is one critical section of `states` or
of `routes`.  Time is counted in checks since the last heartbeat: never late at the first,
perhaps at the second, surely at the third.  Peers and the DHT are external; `dht` may
change at any time, heartbeats may arrive late or not at all, heal messages may be old.
`presumed`, `gone` and `extended` are history: peers whose state something other than a
heartbeat has set, the nodes that died since an entry was made, and whether
`refresh_stale_routes` kept it alive.

`heal`: one monitored neighbour, a second that the DHT may know, one target behind them,
a table of one entry (so that it is always full), two events out of deaths, returns,
calls, heal messages, changes of the DHT and restarts.  Two are what the races need: one
to make a path or a state, one to take it away; missed heartbeats, which are free, do
the rest.  It checks `ViewsAgree`, `DeadPathsGone`, and with
weak fairness of each thread and of the beats of live peers, and strong fairness for
those that wait for the lock on `nodes` (the checking thread sleeps between its turns),
`DeadNoticed` and `AliveNoticed`.

### Mesh

The managers of the VPN crate are separate objects that call each other at a few points;
`Mesh` lets each run for itself (`part`, chosen in `MeshInit`), because their product
shows nothing that a part does not show alone.  What one asks of another is open: the
router takes any answer of the relay.  There is no fairness: every property is a safety
property.

| Module | State and steps | Property |
|---|---|---|
| `Bootstrap` | configuration from JSON and YAML (sorting, default ports, ports cut to 16 bits), known and connected nodes | |
| `Dht` | buckets as sequences, values with expiry, messages; a list of nodes is inserted one lock at a time, `refresh` looks at a bucket in one step and removes nodes in later ones; one list at a time | `NodesFiledOnce`: a node is in the table once, in the bucket of its distance, and no bucket outgrows its limit; `RefreshSparesHeard` is what the comment on `refresh` says, and `dht_refresh` violates it |
| `Relay` | pool (sets of connections; the order of a Vec is that in which they were opened), `active_count`, sockets with what is in flight, senders step by step, server | `PoolBalanced`: counter, slots in use and senders with a connection agree until a connection breaks or is thrown away in use |
| `HolePunch` | `punch_hole` of several threads on sockets of their own or a shared one | `PunchesTracked`: who counts as punched sent a packet; an active punch has a running call |
| `Handshake` | phases, used timestamps, a clock per party, a network that keeps everything and may cut a message too short to hold its timestamp, restarts | `EstablishedFresh`: a responder is established only after Data was sent, and if it looked at a timestamp, within the window and the skew |
| `Session` | table and the copies its callers work on, keys erased | `SessionKept`: a live session neither goes back nor loses its keys |
| `Address`, `LanRouter`, `VpnRouter` | static map, two caches, calls step by step; LAN nodes and the receiving thread; known nodes, pings, listeners, receive loops | `RouteJustified`: a known node was mapped, announced or accepted by the relay |
| `RouteTable` | one entry per target | |
| `Multipath` | paths with weights, fragments in flight, reorder buffer, skips | `InOrderOnce`: output is in order, without repetition, and was sent |
| `Traffic` | counters and samples in separate steps, token bucket, threads that sleep in `wait_for`, the two steps of a reset | `RateBounded`: what callers go on with is bounded by capacity, resets and rate, and the waits that others disturbed (`overrun`) |

`mesh` has three ids that share a bucket of two (a full bucket and a newcomer), and the
same instance serves `dht_refresh`; three senders and a pool of two (a pool at its limit);
two punchers and two peers (an answer taken by the other call); two initiators, one
responder and one restart (data of another handshake, a forgotten timestamp), with clocks
one second apart and a window shorter than the time that passes; one user of sessions,
whose copy grows old by its own calls; two callers, two receive loops and four events (a
mapping that changes inside `resolve`); three sequence numbers and a buffer of two (a skip
over a gap, late fragments and a full buffer); two users of a bucket of two tokens (one
sleeps while the other takes them or resets).

### Storage

`ChunkDiff` holds the pure part: cutting, putting together and comparing, with SHA-256 as
an injective digest.  The components above it share no state at run time, so `Storage`
lets each run for itself.

* `IncrementalSync`: `sync_file`, `download_file`, backup and restore of several callers,
  a step per message; the receiving node is external.  `fs::write` empties the file in one
  step and writes from its start in another, which may be cut short.  `FileWhole`: what a
  download leaves is a file that a user made or an upload found, never a mixture, unless a
  write was cut short or overlapped (`torn`).  `RemoteWhole`: a node's chunks belong to its
  manifest unless an upload to it lost a message, broke off or overlapped (`damaged`).
* `Backup`: the storage commands as processes over the version file and the metadata
  file; load, `fs::write` (truncate, then write), sends that fail, kills.
  `SnapshotsSurvive`; `lossy` is history and says that two rewrites overlapped or one was
  cut short, `pruned` that a prune was started.  The property allows for what a prune is
  meant to do: with a `PruneAllVersions` that goes on to save (the repair of the deadlock
  below) it holds too, on the same instance.  `CommandsEnd`, that every command ends, is
  violated (`storage_prune`).
* `MetadataSync`: edits and exchanged entries, each with the time `made` at which its
  contents were edited (history).  `NewestWins`, what metadata.rs says of conflicts, is
  violated (`metadata_newest`).

`storage`: two callers, two nodes and contents of one and of two chunks none of whose
mixtures is a content, four calls; two processes, three commands, one file with a
history of two versions and `keep` one, so that prune has work; three stores (a third
passes an old entry on), two digests, two edits, a clock of four with a window of one.
Weak fairness of every step of a command (a process goes on by itself; `Kill` stays
possible) is used for `CommandsEnd`; the caller that exchanges entries is not in the
repository, and nothing is assumed of it.

All runs but `election_live` switch deadlock checking off: transfers, execs, payloads,
operations and time end in the instances.

## 4. What is proved

Every theorem holds for any sets of nodes, peers, threads, processes or clients and any
value of the limits and bounds; the named assumptions of the modules are all that is
assumed (a special value such as `None` or `NoEntry` is none of the ordinary ones; limits
are numbers, positive where the code has a positive constant; a set that is counted is
finite).  TLC evaluates them on every run.  A theorem is of the form `Spec => []P` (or of
an action property), from an inductive invariant; what the invariant has to add to `P` is
named below.

`RegistryProofs`, of `Election` (over `Spec`) and of `RegistryStore` (over `StoreSpec`),
which share no state:

* `TypeCorrect`: `TypeOK` always holds.
* `OneVoteUntilResult`: `DoubleVoteNeedsResult`.  The invariant `VoteInv` adds that
  nobody sends a term it has not reached (`SentInv`), a grant answers a request
  (`AnswerInv`), a RegistryChange comes with a result (`ChangeInv`) and, until a leader
  of its term is announced, a node's `voted_for` is the candidate it voted for
  (`BallotInv`).  The last is what makes the property inductive: `become_follower`
  clears `voted_for`, but within a term only on an announced result.
* `LeaderYields`: the action property `LeaderYieldsToTerm`, from `VoteInv`.
* `MajorityElects`: `ResultNeedsMajority`, from `VoteInv` and `CountInv` (a candidate
  of its current term counts only votes of that term).

* `StoreTypeCorrect`: `StoreTypeOK`, with `StoreInv`: only threads that copy hold a lock
  between steps.
* `CleanIsSaved`: `CleanMeansSaved`.  `SavedInv`: as long as nothing changed and no save
  began during another, one thread at most saves, with the mark set, and what it copied is
  still the data; with the mark clear the file has the data, unless a thread that changed
  it has yet to set the mark.
* `MapsAgree`: `ReverseAgrees`.  `AgreeInv`: the maps agree but for updates that are half
  done or were cut in two, in memory, in the copies and in the file.

`FilePushProofs`:

* `PushComplete`: for every number of chunks, every quota and every number of losses and
  duplicates, those of FilePush included, `PushTypeOK` and `DoneMeansComplete` hold.
  `PushInv` ties each acknowledgement in flight to a chunk that was written (and perhaps
  erased by a second FilePush), and the client's offset to a prefix of such chunks; if
  FilePush is not duplicated there is at most one of it, and nothing is erased.
* `FailuresAreJustified`: `FailureJustified`, whatever may be duplicated.  No datagram is
  of a chunk the client has not reached (`NoneAhead`); unless there is an excuse, the
  daemon has the transfer, will have it or has acknowledged its end (`Registered`), and
  every round spent on the current chunk from the second on has lost a datagram of it
  (`RoundsLost`; the first may have overtaken FilePush).

`StreamExecProofs`: `DoneStaysFinal`, `KillsHaveCause` and `AbandonsHaveCause` come from
`StreamInv`, which says of each exec (`Sound`) what the places of its client, child, wait
thread and task allow of the others: a result is reported only after the child exited, a
signal is queued only for a client that gave up, an entry in `exec_map` is lost only to a
later exec.  `OutputInOrder` (`StreamsInOrder`) needs that the wire, the bridge's channel
and the reader's channel, one after the other, hold consecutive chunks of a stream up to
what was read (`Ordered`).

`DaemonProofs`, over `DaemonSpec`:

* `BurstsAreBounded`: `BurstBounded`, with `QuotasOK`, which bounds what passed since any
  moment by the limit, or twice the limit, according to where the moment lies against the
  window that the table has for the address, if it has one.
* `NoTaskIsStuck`: `NobodyStuck`.  `Holders` says at which places a task has which lock;
  the rest of `ServeInv` that who sends has something to send, who reads a body has a
  frame, and an exec is under way only for a client that asked for one and waits or is
  gone.  The property is about every set of tasks; the locks are waited for in the order
  tables, `tcp_conns`, stream.

`ReliableStreamProofs`: `StreamTypeCorrect`, and `StreamImplementsWindow`, that
`ReliableStream` implements `SlidingWindow` (`ImplementsWindow`) for every window, number
space and lifetime with `Lifetime + WINDOW_SIZE < SeqSpace` and any number of payloads,
copies and losses.  `SenderInv` and `ReceiverInv` tie the fields modulo `SeqSpace` to the
payloads they stand for: `Base` is how many the sender forgot, `Done` how many were handed
over, and only a payload that was handed over is acknowledged.  A number that is compared
then decides about the right payload, if the packet behind it is less than `SeqSpace`
away, which for the packets in `ooo_buffer` is not obvious: packets that were overtaken
stay there without bound, and their numbers come around again.  `BufferInv` says why
nobody looks at them.  A packet is put before the first one it comes after, so the later
ones stand in front: either the front is ahead of what is expected and the second close
behind it (`Ahead`), and a drain takes at most the front; or there was such a drain, which
leaves a payload `h` that is not and will not be acknowledged (`Hole`), the window cannot
move past `h`, and all that may still be drained lies within a window of it (`Near`), or
is blocked by a packet that was handed over (`Stuck`).

`SelfHealProofs`:

* `ManagersAgree`: `ViewsAgree`.  `AgreeInv` extends it to the moments at which the lock on
  `nodes` is held: the managers agree but for the nodes that the heartbeat thread has yet
  to report, and those it has in hand are offline, or online, in `beats`.  Steps of other
  threads only make `states` milder, and add what they touch to `presumed`.
* `NoDeadPathStays`: `DeadPathsGone`.  `DeadInv` says that a dead path has the node that
  the heartbeat thread deals with for its next hop, and after the look at the table its
  target is among those still to be invalidated.  What every operation on the table does,
  evictions included, is one relation, `Improves`: no dead path appears that was not there.

`MeshProofs`, over `MeshSpec`: `RateHolds` (`TrafficInv`: the tokens in the bucket are
paid for, and a wait that nobody disturbs finds its tokens at the end of its sleep),
`FreshEstablishes` (`HsInv`: no Data on its way has a timestamp later than the last one
sent by more than the skew), `SessionsKept` (types suffice), `PunchesAreTracked`
(`PunchInv`: punch packets that wait were heard, and a call whose punch is recorded is on
its way to `EndPunch`), `FragmentsInOrder` (`MpInv`: everything put out is below the
expected number, which never passes what was sent), `RoutesAreJustified` (`RouterInv`: an
id that a cache or a call holds for a name is one that the name was mapped to, and a call
writes to the LAN or waits for a PONG only with its reason), `PoolStaysBalanced`
(`PoolInv`: per address as many slots are in use as senders have a connection to it, and
no socket is known to be reset; so a sender that returns its connection finds a slot to
free, its own or another's, and the counter does not wrap; the sets that are counted stay
finite even when the pool is spoiled), `TableStaysSound` (`TableOK`: every bucket is a
sequence of entries of distinct nodes of its distance, no longer than the limit;
insertions, touches and removals keep it so, whichever step of a refresh or of a list they
fall between).

`StorageProofs`, over `StorageSpec`: `FilesStayWhole` (`LocalInv`: every manifest, and all
that a caller is about to write, is of a file that an upload read; the local file is whole,
or empty and in the hands of one call, or torn), `RemoteStaysWhole` (`RemoteInv`:
of a node that nothing happened to, at most one upload has its manifest, and that has yet to
send every chunk of its data that the node lacks) and `SnapshotsStay` (`BackupInv`: while
nothing overlapped, one command at most has the version file in hand, and has every
snapshot that was reported, or was told to keep no more than it has).

Only model-checked, besides what the operators without a property compute (sorting and
parsing in `Bootstrap`, `FindNearest`, folds: induction over data):

* liveness, which needs fairness and ENABLED: `ElectionSettles`, `LeaderBecomesKnown`,
  `PushEnds`, `ExitReported`, `ClientReturns`, `OperationsReturn`, `DeadNoticed`,
  `AliveNoticed`;
* the violations: `exec_signal`, `conn_quota`, `dht_refresh`, `storage_prune`,
  `metadata_newest`.

## 5. Deviations noticed while modelling

Five contradict what a comment or a document says of the code, and have a run that states
it and is violated:

* `exec_signal` (`SignalStops`): `kill` waits for the mutex that the wait thread holds until
  the child has exited (shell/src/lib.rs:185), so that a signal stops nothing.
* `conn_quota` (`QuotaHeld`): the "sliding window" of RateLimiter (main.rs:79,
  docs/security.md:195) is a fixed one, and twice the limit passes within its length.
* `dht_refresh` (`RefreshSparesHeard`): `refresh` removes all nodes of a bucket, not the one
  that was silent (dht.rs:590).
* `storage_prune` (`CommandsEnd`): a prune that has something to prune waits for the lock it
  holds (version.rs:413, and 395 in `prune_versions`).
* `metadata_newest` (`NewestWins`): a take-over restamps an entry (metadata.rs:488), so that
  older contents may replace a later edit; three stores may so hand contents round for ever
  while time goes on.

The properties of the passing runs are stated so as to admit the others:

* Election: a node may vote twice in a term, as a result of that term clears `voted_for`
  (election.rs:790, against the comment at 1188); term and vote are in memory only, and a
  restarted node begins at term 0 and may vote again (election.rs:407); a leader that
  steps down because of an ElectionRequest of a higher term does not stop its registry
  service (`serving`); a returning registry that gets a synchronisation response takes
  over the term and the registry but stays Leader; a Leader that is asked by a node with a
  higher term takes that node for its registry, which nobody elected; RegistryChange is
  broadcast only by a leader that finds itself in its own table.
* FilePush: a repeated FilePush truncates a file whose chunks were already acknowledged,
  although crypto.rs:1 claims protection from replay (second conjunct of
  `DoneMeansComplete`), and leaves its entry in FILE_TRANSFERS for ever, as does a file
  without chunks; a push of
  more chunks than the command quota can fail without any loss.  Retries do not mask
  the loss of FilePush, which is sent once, nor of the last FileAck: by then the entry is
  gone and repeated chunks are ignored (first two disjuncts of `FailureJustified`).
* StreamExec: ExecStarted may follow output; output that is still in a pipe when the exit
  is reported is dropped; with the shared id 1, the signal of one client reaches the
  exec of another, and a second exec with the id cuts the first one off from its client.
* ReliableStream: the window never reopens after two packets swap places, without any
  loss: an acknowledgement covers one number, and the front packet is answered with the
  later one (reliable.rs:72; line 49 says "Window full, caller should retry").
* TcpServe: the output of an exec waits for its client's next frame, because the reader
  holds the stream (main.rs:316), and meanwhile `tcp_conns` is held, so that the replies to
  all other clients wait too; lan-linkctl reads the TCP SYN-ACK without a timeout, and a
  SYN that the limiter drops makes it hang; replies go to the client that first used a
  connection id.
* DaemonConn: UDP and TCP have a limiter each, so that an IP has its quota twice; TCP
  connections are never reaped, which main.rs:7 says of all; data of any
  peer refreshes a connection; the tick waits for a native command; the limit on
  connections is that of one table, and TCP has none.
* RegistryStore: a `register` that returned Ok may not be saved, because another thread's
  save clears `dirty` after the change was made but before it was copied (center.rs:330;
  the periodic thread, which center.rs:349 says is not needed, only logs); two saves at
  once can tear the file, and a crash between truncation and write loses all of it; two
  updates of one name can leave `reverse` with the loser.
* SelfHeal: the healing loop sends no HealPing; it takes any route that the DHT offers,
  which may lead through other nodes or the dead node itself, for a sign of life.  A dead
  node may so stay "online" to SelfHealManager for ever, as HeartbeatManager reports no
  second change (`DeadNoticed` is about `beats` only).  A rediscovered route may lead
  through the node that just died, and `refresh_stale_routes` makes an entry valid again
  that `mark_invalid` took out of use.  After `max_failed_attempts` a node is not probed
  again.
* Dht, Bootstrap: an insert does not move a known node to the tail, which its comment says,
  so that the front of a bucket need not be the least recently seen;
  bootstrap nodes are entered under one placeholder id, so that one is kept; `bootstrap`
  always ends in AllNodesUnreachable and yet records the node as connected; a port above
  65535 is cut to 16 bits.
* Relay: `return_connection` may free another sender's slot, and then two senders share a
  socket; the server's 30 s read timeout is shorter than the pool's 60 s, so that a write
  into a connection it closed succeeds and is lost; `clear` may make the counter wrap; a
  relayed message loses its payload.
* Handshake, Session: a HelloAck or Data of fewer than eight bytes after its type is
  accepted without a look at any timestamp (handshake.rs:240, 357); data is accepted a
  second time after a restart within the window, and so are timestamps of the future;
  counters advance in copies only, so a nonce may be used again.
* Address, LanRouter, VpnRouter: `resolve` may write an id into the cache after its mapping
  was removed or changed; `with_ttl` ignores its argument; a ping over the LAN
  succeeds without an answer, and nothing in the repository answers a PING; a LanRouter
  that was stopped cannot start again and still sends; datagrams above 4096 bytes are cut
  and dropped; listeners are never removed, and one that registers another deadlocks; a
  stop and a start leave two receive loops.
* Multipath: `skip_lost` can leave a fragment in the buffer for ever, which blocks further
  skips; `send_via_paths` compares weights with absolute sequence numbers.
* Traffic: `wait_for` ignores its second check, so that a caller whose tokens another took
  while it slept goes on all the same (`overrun`); the connection count wraps after a reset;
  the example at stats.rs:281 says the third `check(1024)` is limited, but 3072 tokens
  are left.
* Storage: a load during another command's rewrite sees an empty store; versions of one
  second have one id; `gc` calls blocks removable that were backed up without a version,
  or whose version another command was writing; a backup replaces the metadata of other
  files; `sync_state` is keyed by name only; an upload that broke off is not repaired by the
  next; a download that is cut short leaves a file nobody made; `execute_restore` does not
  say which chunk it wants and does not decrypt.

## 6. Not modelled

Formatting, encryption, the terminal interface, native commands, one-shot execution,
discovery and video are I/O, library calls or stubs.  Key agreement, key derivation and
identities are library calls too.

* Election: restarts (the proofs rest on terms that never decrease), the interleaving of
  handlers at their locks (nothing but tests calls them yet), the monitor thread.
* Registry centre: the client with its cache (center.rs:594 to 770), which no other part
  calls, and the periodic thread.
* SelfHealManager: listeners that call back; they run with `nodes`, or in `load_state`
  with `states`, locked.  Encoding of messages.
* lan-linkctl: the UDP port probe, parsing, batch files.
* Storage: queries, restoring or pruning the versions of one file (no command does), what
  gc and stats count, the download manager (download.rs): its `assign_block`,
  `complete_block` and `fail_block` are private and called by its tests only.

Smaller simplifications:

* `Election.StartElection` has the guard of `should_start_election`, which its only caller,
  the monitor, has tested; `SetRegistry` is called once, by an owner
  that has no registry yet, as at start-up.
* `Address.ClearCache` is one step where the outer resolver takes two locks one after the
  other; a caller that puts an id into the cache by `cache` itself is not modelled, and
  `RouteJustified` is about names that were resolved.
* `ChunkDiff.DiffFiles` leaves out the error for manifests of different chunk sizes: all
  callers use one size.
* `SelfHeal.OnNodeOnline` reads and adds a node in one step; `remove_node` is not modelled.
* `Relay.ConnectFails` happens when nobody serves or the pool is full: the other errors
  of `get_connection` come before anything is changed and lead to the same state.
  `HolePunch.WouldBlock` stands for every error of `recv_from`, which the code handles alike.
* `TcpServe.SendWrites` and `ReadBody` do not block: a client that does not read, or that
  sends a length without a body, holds the stream as one does that is silent, and would have
  to be given up by its peer too.
