-------------------------------- MODULE Dht ---------------------------------
(***************************************************************************)
(* DhtManager (vpn/dht.rs): the routing table of K-buckets, the stored      *)
(* values and the answers to messages.  A node id is a tuple of Bits bits   *)
(* (256 in the code), so that the XOR distance is a tuple too and compared  *)
(* from its first bit on.  Each bucket has a lock of its own; a list of     *)
(* nodes is inserted one lock at a time, refresh takes one to look at a     *)
(* bucket and once more for every node it removes, and other threads run in *)
(* between.                                                                 *)
(***************************************************************************)
EXTENDS Bootstrap, FiniteSets

CONSTANTS
    Bits, Peers, LocalId,     \* Peers: the ids that messages mention
    K_BUCKET_SIZE,
    NODE_TIMEOUT,             \* NODE_TIMEOUT_SECS
    Keys, ValueTTLs,
    MaxDhtTime                \* bound: the clock

ASSUME DhtAssumption == Bits \in Nat \ {0} /\ K_BUCKET_SIZE \in Nat

VARIABLES
    buckets, stored, dhtNow,
    inserting,                \* the nodes of a list that are still to be inserted
    refreshing,               \* where refresh is: the bucket and the nodes still to remove
    reply                     \* what the last step sent, if it was process_message

dhtVars == <<buckets, stored, dhtNow, inserting, refreshing, reply>>

\* A bucket is a sequence of nodes, the least recently seen first.
EmptyBucket == <<>>

NoValue == [created_at |-> 0, ttl |-> 0]
PlaceholderId == [i \in 1..Bits |-> 0]
NoRefresh == [bucket |-> 0, stale |-> <<>>]
BucketEntry(id, addr) == [node_id |-> id, addr |-> addr, last_seen |-> dhtNow]

XorDistance(a, b) == [i \in 1..Bits |-> IF a[i] = b[i] THEN 0 ELSE 1]

\* cmp_xor: the first place where the distances differ decides.
CloserXor(a, b) == \E i \in 1..Bits : a[i] < b[i] /\ \A j \in 1..(i - 1) : a[j] = b[j]

\* bucket_index: the number of leading zeros of the distance, counted from 1 here;
\* the local id itself has the last bucket.
BucketIndex(target) ==
    LET xor == XorDistance(LocalId, target)
        ones == {i \in 1..Bits : xor[i] = 1}
    IN  IF ones = {} THEN Bits ELSE CHOOSE i \in ones : \A j \in ones : i <= j

Position(bucket, id) == {i \in DOMAIN bucket : bucket[i].node_id = id}
FirstPosition(bucket, id) == Min(Position(bucket, id))

\* Mutant of KBucketInsert: a node that is there is entered once more.
KBucketInsertAgain(bucket, id, addr) ==
    IF Len(bucket) < K_BUCKET_SIZE THEN Append(bucket, BucketEntry(id, addr)) ELSE bucket

\* KBucket::insert: a node that is there is updated where it stands; a full bucket
\* refuses the new node.
KBucketInsert(bucket, id, addr) ==
    IF Position(bucket, id) # {}
    THEN [bucket EXCEPT ![FirstPosition(bucket, id)] = BucketEntry(id, addr)]
    ELSE IF Len(bucket) < K_BUCKET_SIZE THEN Append(bucket, BucketEntry(id, addr)) ELSE bucket

KBucketRemove(bucket, id) ==
    IF Position(bucket, id) = {} THEN bucket ELSE RemoveAt(bucket, FirstPosition(bucket, id))

\* KBucket::touch: updated and moved to the tail.
KBucketTouch(bucket, id) ==
    IF Position(bucket, id) = {} THEN bucket
    ELSE Append(KBucketRemove(bucket, id), BucketEntry(id, bucket[FirstPosition(bucket, id)].addr))

\* least_recently_seen: the front, whatever its last_seen is.
LeastRecentlySeen(bucket) == Head(bucket)

\* insert_node, touch_node and remove_node, on a table.
InsertNode(table, id, addr) ==
    IF id = LocalId THEN table
    ELSE [table EXCEPT ![BucketIndex(id)] = KBucketInsert(@, id, addr)]

TouchNode(table, id) ==
    IF id = LocalId THEN table ELSE [table EXCEPT ![BucketIndex(id)] = KBucketTouch(@, id)]

RemoveNode(table, id) ==
    IF id = LocalId THEN table ELSE [table EXCEPT ![BucketIndex(id)] = KBucketRemove(@, id)]

\* all_nodes
AllNodes == FlattenSeq(buckets)

\* find_nearest: every known node, the nearest to target first, cut to count.
FindNearest(target, count) ==
    LET near == SortSeq(AllNodes, LAMBDA a, b : CloserXor(XorDistance(target, a.node_id),
                                                          XorDistance(target, b.node_id)))
    IN  [i \in 1..(IF Len(near) < count THEN Len(near) ELSE count) |-> <<near[i].node_id, near[i].addr>>]

\* find_node
FindNode(target) == FindNearest(target, K_BUCKET_SIZE)

\* The wire form of a node list: the count, then the nodes; decode_node_list stops
\* at the end of the data, or at the count.
EncodeNodeList(nodes) == [count |-> Len(nodes), nodes |-> nodes]
DecodeNodeList(data) ==
    SubSeq(data.nodes, 1, IF data.count < Len(data.nodes) THEN data.count ELSE Len(data.nodes))

IsExpired(v) == dhtNow >= v.created_at + v.ttl

\* put_value and get_value_by_hash; a key stands for its hash.
PutValue(key, ttl) == [stored EXCEPT ![key] = [created_at |-> dhtNow, ttl |-> ttl]]
GetValueByHash(key) == IF IsExpired(stored[key]) THEN NoValue ELSE stored[key]

\* handle_put: a payload that is too short changes nothing.
HandlePut(data) == IF data.whole THEN PutValue(data.key, data.ttl) ELSE stored

CreateDhtMessage(type, data) == [type |-> type, data |-> data]

\* bootstrap_from_nodes: every entry node goes in under the same placeholder id.
BootstrapFromNodes(nodes) == [i \in DOMAIN nodes |-> <<PlaceholderId, NodeAddr(nodes[i])>>]

DhtInit ==
    /\ BootInit
    /\ buckets = [i \in 1..Bits |-> EmptyBucket]
    /\ stored = [k \in Keys |-> NoValue]
    /\ dhtNow = 0
    /\ inserting = <<>>
    /\ refreshing = NoRefresh
    /\ reply = <<>>

\* process_message, one action per message type; Value is ignored.
ProcessPing(sender) ==
    /\ buckets' = TouchNode(buckets, sender)
    /\ reply' = <<CreateDhtMessage("Pong", <<>>)>>
    /\ UNCHANGED <<stored, dhtNow, inserting, refreshing>>

ProcessPong(sender) ==
    /\ buckets' = TouchNode(buckets, sender)
    /\ reply' = <<>>
    /\ UNCHANGED <<stored, dhtNow, inserting, refreshing>>

\* A short payload is answered with an empty list.
ProcessFindNode(target, short) ==
    /\ reply' = <<CreateDhtMessage("Nodes", EncodeNodeList(IF short THEN <<>> ELSE FindNode(target)))>>
    /\ UNCHANGED <<buckets, stored, dhtNow, inserting, refreshing>>

ProcessNodes(data) ==
    /\ inserting = <<>>
    /\ inserting' = DecodeNodeList(data)
    /\ reply' = <<>>
    /\ UNCHANGED <<buckets, stored, dhtNow, refreshing>>

\* The next node of the list, under the lock of its bucket.
InsertNext ==
    /\ inserting # <<>>
    /\ buckets' = InsertNode(buckets, inserting[1][1], inserting[1][2])
    /\ inserting' = Tail(inserting)
    /\ reply' = <<>>
    /\ UNCHANGED <<stored, dhtNow, refreshing>>

ProcessPut(data) ==
    /\ stored' = HandlePut(data)
    /\ reply' = <<>>
    /\ UNCHANGED <<buckets, dhtNow, inserting, refreshing>>

ProcessGet(key) ==
    /\ reply' = IF GetValueByHash(key) = NoValue THEN <<>> ELSE <<CreateDhtMessage("Value", key)>>
    /\ UNCHANGED <<buckets, stored, dhtNow, inserting, refreshing>>

CleanupValues ==
    /\ stored' = [k \in Keys |-> IF IsExpired(stored[k]) THEN NoValue ELSE stored[k]]
    /\ reply' = <<>>
    /\ UNCHANGED <<buckets, dhtNow, inserting, refreshing>>

\* remove_node, called for a node that does not answer.
DropNode(id) ==
    /\ buckets' = RemoveNode(buckets, id)
    /\ reply' = <<>>
    /\ UNCHANGED <<stored, dhtNow, inserting, refreshing>>

\* The manager starts from the entry nodes of a configuration.
StartFromBootstrap(nodes) ==
    /\ AllNodes = <<>> /\ inserting = <<>>
    /\ inserting' = BootstrapFromNodes(nodes)
    /\ reply' = <<>>
    /\ UNCHANGED <<buckets, stored, dhtNow, refreshing>>

\* refresh looks at the next bucket: if its front has been silent for more than half
\* the timeout, all of its nodes are to go.
RefreshScan ==
    LET b == refreshing.bucket + 1
        silent == buckets[b] # <<>> /\ dhtNow - LeastRecentlySeen(buckets[b]).last_seen > NODE_TIMEOUT \div 2
    IN  /\ refreshing.stale = <<>> /\ refreshing.bucket < Bits
        /\ refreshing' = [bucket |-> b, stale |-> IF silent THEN buckets[b] ELSE <<>>]
        /\ reply' = <<>>
        /\ UNCHANGED <<buckets, stored, dhtNow, inserting>>

\* ... and go, one locked removal at a time, whatever was heard from them since.
RefreshRemove ==
    /\ refreshing.stale # <<>>
    /\ buckets' = [buckets EXCEPT ![refreshing.bucket] = KBucketRemove(@, Head(refreshing.stale).node_id)]
    /\ refreshing' = [refreshing EXCEPT !.stale = Tail(@)]
    /\ reply' = <<>>
    /\ UNCHANGED <<stored, dhtNow, inserting>>

RefreshEnd ==
    /\ refreshing.stale = <<>> /\ refreshing.bucket = Bits
    /\ refreshing' = NoRefresh
    /\ reply' = <<>>
    /\ UNCHANGED <<buckets, stored, dhtNow, inserting>>

DhtTick ==
    /\ dhtNow < MaxDhtTime
    /\ dhtNow' = dhtNow + 1
    /\ reply' = <<>>
    /\ UNCHANGED <<buckets, stored, inserting, refreshing>>

DhtNext ==
    \/ \E nodes \in ConfigNodes : StartFromBootstrap(nodes)
    \/ \E s \in Peers : ProcessPing(s) \/ ProcessPong(s) \/ DropNode(s)
    \/ \E t \in Peers, short \in BOOLEAN : ProcessFindNode(t, short)
    \/ \E n \in Peers, cut \in {0, 1} : ProcessNodes([count |-> 1 + cut, nodes |-> <<<<n, "addr">>>>])
    \/ \E k \in Keys, ttl \in ValueTTLs, w \in BOOLEAN : ProcessPut([whole |-> w, key |-> k, ttl |-> ttl])
    \/ \E k \in Keys : ProcessGet(k)
    \/ InsertNext \/ CleanupValues \/ RefreshScan \/ RefreshRemove \/ RefreshEnd \/ DhtTick

\* However messages, lists, removals and the two phases of refresh mix: every node is
\* in the table at most once, in the bucket of its distance, the local id never, and
\* no bucket outgrows its limit.
NodesFiledOnce ==
    \A b \in 1..Bits :
        /\ Len(buckets[b]) <= K_BUCKET_SIZE
        /\ \A i, j \in DOMAIN buckets[b] :
              /\ BucketIndex(buckets[b][i].node_id) = b /\ buckets[b][i].node_id # LocalId
              /\ buckets[b][i].node_id = buckets[b][j].node_id => i = j

\* What the comment on refresh says it does ("PING the node of each bucket that was
\* not contacted for longest; if it does not answer, remove it"): a node that it is
\* about to remove was silent for the time that makes refresh ping.
RefreshSparesHeard ==
    \A i \in DOMAIN refreshing.stale :
        dhtNow - refreshing.stale[i].last_seen > NODE_TIMEOUT \div 2
=============================================================================
