----------------------------- MODULE Multipath ------------------------------
(***************************************************************************)
(* MultiPathManager and ReorderBuffer (vpn/multipath.rs): data is cut into  *)
(* fragments, each with a sequence number, that are spread over the paths   *)
(* by weight; the receiver puts them in order.  A fragment may be lost,     *)
(* repeated or overtaken.  Latencies are whole milliseconds, scores and     *)
(* weights whole tenths (rounded down); the order of the paths is that of a *)
(* hash map, any order.                                                     *)
(***************************************************************************)
EXTENDS Integers, Sequences, SequencesExt, FiniteSets, FiniteSetsExt

CONSTANTS
    fragment_size, reorder_max_size,
    DegradedAfter, DeadAfter,      \* the numbers of lost packets, 5 and 20
    DataLens, Latencies, HopCounts,
    MaxPaths, MaxSeq               \* bounds

ASSUME MultipathAssumption == fragment_size \in Nat \ {0} /\ DataLens \subseteq Nat

VARIABLES
    mpPaths, next_path_id, next_seq,
    flight,                        \* fragments that were sent: path and number
    reorder, expected_seq,         \* the reorder buffer
    output                         \* history: the numbers that insert returned, in order

mpVars == <<mpPaths, next_path_id, next_seq, flight, reorder, expected_seq, output>>

Clamped(n, lo, hi) == IF n < lo THEN lo ELSE IF n > hi THEN hi ELSE n

\* calculate_score, in tenths: latency * 0.7 + hops * 100 * 0.3.
CalculateScore(latency, hops) == 7 * latency + 300 * hops

\* update_metrics: the weight is 1 / score, between 0.1 and 1.
UpdateMetrics(p) ==
    LET score == CalculateScore(p.latency_ms, p.hop_count)
    IN  [p EXCEPT !.score = score, !.weight = Clamped(100 \div Max({score, 10}), 1, 10)]

\* update_latency: the moving average, 7 parts old to 3 parts new.
UpdateLatency(p, latency) == UpdateMetrics([p EXCEPT !.latency_ms = (7 * @ + 3 * latency) \div 10])

\* record_loss, on a path.
RecordLossOn(p) ==
    [p EXCEPT !.lost_packets = @ + 1,
              !.state = IF p.lost_packets + 1 > DeadAfter THEN "Dead"
                        ELSE IF p.lost_packets + 1 > DegradedAfter THEN "Degraded" ELSE @]

NewPath(hops) ==
    [hop_count |-> hops, latency_ms |-> 50, score |-> CalculateScore(50, hops), weight |-> 10,
     state |-> "Active", lost_packets |-> 0]

\* A fragment is known by its number and its path; an Ack names the same two.
Fragment(seq, path) == [seq |-> seq, path |-> path]

ActivePaths == {id \in DOMAIN mpPaths : mpPaths[id].state # "Dead"}

\* ReorderBuffer::new
ReorderInit == reorder = {} /\ expected_seq = 0

MpInit ==
    /\ mpPaths = <<>> /\ next_path_id = 1 /\ next_seq = 0
    /\ flight = {}
    /\ ReorderInit
    /\ output = <<>>

\* add_path and remove_path.
AddPath(hops) ==
    /\ next_path_id <= MaxPaths
    /\ next_path_id' = next_path_id + 1
    /\ mpPaths' = [id \in DOMAIN mpPaths \cup {next_path_id} |->
                      IF id = next_path_id THEN NewPath(hops) ELSE mpPaths[id]]
    /\ UNCHANGED <<next_seq, flight, reorder, expected_seq, output>>

RemovePath(id) ==
    /\ mpPaths' = [i \in DOMAIN mpPaths \ {id} |-> mpPaths[i]]
    /\ UNCHANGED <<next_path_id, next_seq, flight, reorder, expected_seq, output>>

\* update_path_latency, record_ack (an answer makes any path active again, and leaves
\* its losses counted) and record_loss.
UpdatePathLatency(id, latency) ==
    /\ mpPaths' = [mpPaths EXCEPT ![id] = UpdateLatency(@, latency)]
    /\ UNCHANGED <<next_path_id, next_seq, flight, reorder, expected_seq, output>>

RecordAck(id) ==
    /\ mpPaths' = [mpPaths EXCEPT ![id].state = "Active"]
    /\ UNCHANGED <<next_path_id, next_seq, flight, reorder, expected_seq, output>>

RecordLoss(id) ==
    /\ mpPaths[id].lost_packets <= DeadAfter
    /\ mpPaths' = [mpPaths EXCEPT ![id] = RecordLossOn(@)]
    /\ UNCHANGED <<next_path_id, next_seq, flight, reorder, expected_seq, output>>

\* fragment_data: as many numbers as there are pieces, from next_seq on.
FragmentCount(len) == (len + fragment_size - 1) \div fragment_size

\* The loop of send_via_paths: a path is left when the weights so far are below the
\* number itself, not the fragment's place in the data; the last path takes the rest.
ChosenPath(order, seq) ==
    LET sum(k) == FoldFunctionOnSet(+, 0, [i \in DOMAIN order |-> mpPaths[order[i]].weight], 1..k)
        enough == {k \in DOMAIN order : sum(k) >= 10 * seq}
    IN  order[IF enough = {} THEN Len(order) ELSE Min(enough)]

\* send_via_paths, and the sending of what it returns.
SendViaPaths(len) ==
    /\ ActivePaths # {} /\ next_seq + FragmentCount(len) <= MaxSeq
    /\ \E order \in SetToSeqs(ActivePaths) :
          flight' = flight \cup {Fragment(s, ChosenPath(order, s)) :
                                    s \in next_seq .. next_seq + FragmentCount(len) - 1}
    /\ next_seq' = next_seq + FragmentCount(len)
    /\ UNCHANGED <<mpPaths, next_path_id, reorder, expected_seq, output>>

\* m is the first number after n that is not buffered.
FirstGap(n, m) == m \notin reorder /\ (n + 1) .. (m - 1) \subseteq reorder

\* ReorderBuffer::insert of a fragment that arrives: the one that is expected takes
\* those that follow it without a gap out of the buffer.
InsertFragment(f) ==
    /\ \/ /\ f.seq = expected_seq
          /\ \E m \in (f.seq + 1) .. (f.seq + 1 + Cardinality(reorder)) :
                /\ FirstGap(f.seq, m)
                /\ output' = output \o [i \in 1 .. (m - f.seq) |-> f.seq + i - 1]
                /\ reorder' = reorder \ (f.seq + 1) .. (m - 1)
                /\ expected_seq' = m
       \/ /\ f.seq > expected_seq
          /\ reorder' = IF Cardinality(reorder) < reorder_max_size THEN reorder \cup {f.seq} ELSE reorder
          /\ UNCHANGED <<expected_seq, output>>
    /\ UNCHANGED <<mpPaths, next_path_id, next_seq, flight>>

\* has_timeout: the gap before the buffered fragments is wider than 10.
HasTimeout == reorder # {} /\ Min(reorder) > expected_seq + 10

\* Mutant of SkipLost: the number is set without comparing.
SkipLostBack ==
    /\ reorder # {}
    /\ expected_seq' = Min(reorder)
    /\ UNCHANGED <<mpPaths, next_path_id, next_seq, flight, reorder, output>>

\* skip_lost: on to the first buffered fragment, which stays in the buffer.
SkipLost ==
    /\ \E m \in reorder : /\ \A k \in reorder : m <= k
                        /\ m > expected_seq /\ expected_seq' = m
    /\ UNCHANGED <<mpPaths, next_path_id, next_seq, flight, reorder, output>>

\* ReorderBuffer::clear: a new stream begins.
ClearReorder ==
    /\ reorder' = {} /\ expected_seq' = 0 /\ output' = <<>>
    /\ UNCHANGED <<mpPaths, next_path_id, next_seq, flight>>

LoseFragment(f) ==
    /\ flight' = flight \ {f}
    /\ UNCHANGED <<mpPaths, next_path_id, next_seq, reorder, expected_seq, output>>

MpNext ==
    \/ \E h \in HopCounts : AddPath(h)
    \/ \E id \in DOMAIN mpPaths : RemovePath(id) \/ RecordAck(id) \/ RecordLoss(id)
    \/ \E id \in DOMAIN mpPaths, l \in Latencies : UpdatePathLatency(id, l)
    \/ \E len \in DataLens : SendViaPaths(len)
    \/ \E f \in flight : InsertFragment(f) \/ LoseFragment(f)
    \/ SkipLost \/ ClearReorder

\* What the receiver puts out is in order and without repetition, over any number of
\* paths, losses, repetitions and skips; and nothing is put out that was not sent.
InOrderOnce ==
    /\ \A i, j \in DOMAIN output : i < j => output[i] < output[j]
    /\ \A i \in DOMAIN output : output[i] < expected_seq /\ output[i] < next_seq
=============================================================================
