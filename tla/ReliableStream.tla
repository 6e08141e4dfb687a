--------------------------- MODULE ReliableStream ---------------------------
(***************************************************************************)
(* The reliable layer of crates/protocol/src/reliable.rs: a ReliableSender  *)
(* and a ReliableReceiver of one stream, joined by a network that loses,    *)
(* reorders and duplicates.                                                 *)
(*                                                                         *)
(* Payload n is the n-th payload that send() accepted.  Sequence numbers    *)
(* wrap at SeqSpace (2^32 in the code, built for release).  As in           *)
(* docs/architecture.md, the receiver's caller answers every packet with    *)
(* ack_info(), and the sender's caller passes that to on_ack().             *)
(***************************************************************************)
EXTENDS Integers, FiniteSets, FiniteSetsExt, SequencesExt

CONSTANTS
    SeqSpace,    \* how many sequence numbers there are
    WINDOW_SIZE,
    MAX_RETRIES,
    Lifetime,    \* a packet is not delivered when Lifetime payloads followed it
    MaxStreamLoss, \* bound: packets lost
    MaxSend      \* bound: payloads sent

ASSUME WindowAssumption == WINDOW_SIZE \in Nat \ {0} /\ MAX_RETRIES \in Nat
ASSUME LifetimeAssumption == Lifetime \in Nat /\ SeqSpace \in Nat
                             /\ Lifetime + WINDOW_SIZE < SeqSpace
ASSUME StreamBoundAssumption == MaxStreamLoss \in Nat /\ MaxSend \in Nat

VARIABLES
    sent,          \* payloads accepted by send() so far
    next_seq,      \* ReliableSender
    window_base,
    slots,
    next_expected, \* ReliableReceiver
    ooo_buffer,
    delivered,     \* payloads given to the application, in order
    packets,       \* data packets in flight
    acks,          \* acknowledgements in flight
    streamLost     \* packets lost so far

senderVars == <<sent, next_seq, window_base, slots>>
receiverVars == <<next_expected, ooo_buffer, delivered>>
streamVars == <<senderVars, receiverVars, packets, acks, streamLost>>

StreamStart ==
    /\ sent = 0 /\ next_seq = 0 /\ window_base = 0 /\ slots = <<>>
    /\ next_expected = 0 /\ ooo_buffer = <<>> /\ delivered = <<>>
    /\ packets = {} /\ acks = {} /\ streamLost = 0

\* The distance from b to a, as u32's wrapping_sub gives it.
WrappingSub(a, b) == (a - b) % SeqSpace
WrappingAdd(a, b) == (a + b) % SeqSpace

\* How many elements at the front of a sequence pass a test that the elements at
\* the positions in passing pass.
FrontRun(passing) == Max({k \in 0..Cardinality(passing) : 1..k \subseteq passing})

Drop(s, k) == SubSeq(s, k + 1, Len(s))

PacketOf(slot) == [seq |-> slot.seq, payload |-> slot.payload]

-----------------------------------------------------------------------------
(* The sender.                                                              *)

WindowFull == WrappingSub(next_seq, window_base) >= WINDOW_SIZE

Send ==
    /\ sent < MaxSend
    /\ ~ WindowFull
    /\ LET slot == [seq |-> next_seq, payload |-> sent + 1, retries |-> 0, acked |-> FALSE]
       IN  /\ slots' = Append(slots, slot)
           /\ packets' = packets \cup {PacketOf(slot)}
    /\ sent' = sent + 1
    /\ next_seq' = WrappingAdd(next_seq, 1)
    /\ UNCHANGED <<window_base, receiverVars, acks, streamLost>>

\* Whether the acknowledgement covers the sequence number: the number itself,
\* or one of the WINDOW_SIZE after it whose bit is set.
Covers(ack, seq) ==
    LET dist == WrappingSub(seq, ack.seq)
    IN  dist = 0 \/ (dist <= WINDOW_SIZE /\ dist - 1 \in ack.bitmap)

\* A packet or acknowledgement that left when n payloads had been sent, or that
\* carries payload n, is still around.
Fresh(n) == sent - n < Lifetime

OnAck(ack) ==
    /\ Fresh(ack.upto)
    /\ LET marked == [i \in DOMAIN slots |->
                        [slots[i] EXCEPT !.acked = @ \/ Covers(ack, slots[i].seq)]]
           done == FrontRun({i \in DOMAIN slots : marked[i].acked})
       IN  /\ slots' = Drop(marked, done)
           /\ window_base' = WrappingAdd(window_base, done)
    /\ UNCHANGED <<sent, next_seq, receiverVars, packets, acks, streamLost>>

MayRetry(i) == ~ slots[i].acked /\ slots[i].retries < MAX_RETRIES

\* The slots in due have timed out.
PollRetransmit(due) ==
    /\ due # {}
    /\ \A i \in due : MayRetry(i)
    /\ slots' = [i \in DOMAIN slots |-> IF i \in due THEN [slots[i] EXCEPT !.retries = @ + 1]
                                        ELSE slots[i]]
    /\ packets' = packets \cup {PacketOf(slots[i]) : i \in due}
    /\ UNCHANGED <<sent, next_seq, window_base, receiverVars, acks, streamLost>>

-----------------------------------------------------------------------------
(* The receiver.                                                            *)

\* Mutant of Drained: the whole buffer is handed over.
DrainedAll(expected) == Len(ooo_buffer)

\* How many buffered packets continue the stream, from the front of the buffer.
Drained(expected) ==
    FrontRun({i \in DOMAIN ooo_buffer : ooo_buffer[i].seq = WrappingAdd(expected, i - 1)})

\* Where a packet is inserted: before the first buffered packet that is at most
\* dist - 1 numbers behind it.
InsertPos(seq) ==
    LET dist == WrappingSub(seq, next_expected)
        pos == SelectInSeq(ooo_buffer, LAMBDA p : WrappingSub(seq, p.seq) < dist)
    IN  IF pos = 0 THEN Len(ooo_buffer) + 1 ELSE pos

Buffered(p) ==
    LET pos == InsertPos(p.seq)
    IN  IF pos <= Len(ooo_buffer) /\ ooo_buffer[pos].seq = p.seq
        THEN ooo_buffer
        ELSE InsertAt(ooo_buffer, pos, p)

\* last_ack_bitmap is zero from new() on: no statement assigns it.  upto records
\* how much had been delivered.
AckInfo(expected, n) == [seq |-> WrappingSub(expected, 1), bitmap |-> {}, upto |-> n]

Deliver(p) ==
    LET dist == WrappingSub(p.seq, next_expected)
        count == 1 + Drained(WrappingAdd(next_expected, 1))
    IN  /\ Fresh(p.payload)
        /\ \/ /\ dist = 0
              /\ next_expected' = WrappingAdd(next_expected, count)
              /\ delivered' = delivered \o <<p.payload>>
                              \o [i \in 1..count - 1 |-> ooo_buffer[i].payload]
              /\ ooo_buffer' = Drop(ooo_buffer, count - 1)
           \/ /\ dist \in 1..WINDOW_SIZE
              /\ ooo_buffer' = Buffered(p)
              /\ UNCHANGED <<next_expected, delivered>>
           \/ /\ dist > WINDOW_SIZE
              /\ UNCHANGED receiverVars
        /\ acks' = acks \cup {AckInfo(next_expected', Len(delivered'))}
        /\ UNCHANGED <<senderVars, packets, streamLost>>

-----------------------------------------------------------------------------
(* The network, which delivers what is in flight any number of times.       *)

LosePacket ==
    /\ streamLost < MaxStreamLoss
    /\ \/ \E p \in packets : packets' = packets \ {p} /\ UNCHANGED acks
       \/ \E a \in acks : acks' = acks \ {a} /\ UNCHANGED packets
    /\ streamLost' = streamLost + 1
    /\ UNCHANGED <<senderVars, receiverVars>>

Receive == (\E p \in packets : Deliver(p)) \/ (\E a \in acks : OnAck(a))
Retransmit == \E due \in SUBSET DOMAIN slots : PollRetransmit(due)

StreamNext == Send \/ Retransmit \/ Receive \/ LosePacket

StreamSpec == StreamStart /\ [][StreamNext]_streamVars

-----------------------------------------------------------------------------
(* Properties.                                                              *)

Sequence == 0..SeqSpace - 1
Payload == 1..MaxSend

\* The window never holds more than WINDOW_SIZE packets, and its slots are
\* numbered without a gap from window_base to next_seq.
ReliableTypeOK ==
    /\ sent \in 0..MaxSend
    /\ next_seq \in Sequence /\ window_base \in Sequence /\ next_expected \in Sequence
    /\ slots \in Seq([seq : Sequence, payload : Payload, retries : 0..MAX_RETRIES, acked : BOOLEAN])
    /\ Len(slots) <= WINDOW_SIZE
    /\ WrappingAdd(window_base, Len(slots)) = next_seq
    /\ \A i \in DOMAIN slots : slots[i].seq = WrappingAdd(window_base, i - 1)
    /\ ooo_buffer \in Seq([seq : Sequence, payload : Payload])
    /\ delivered \in Seq(Payload)
    /\ packets \subseteq [seq : Sequence, payload : Payload]
    /\ streamLost \in 0..MaxStreamLoss

Window == INSTANCE SlidingWindow WITH
    Size <- WINDOW_SIZE, accepted <- sent, released <- sent - Len(slots), handed <- delivered

\* Sender, receiver and network together implement the sliding window: every
\* step accepts one payload, hands over the next ones in order, none missing and
\* none twice, releases some that were handed over, or changes nothing that the
\* users see.  So it is across loss, duplication, reordering and wrap-around,
\* and whatever stale packets the buffer keeps.
ImplementsWindow == Window!Spec
=============================================================================
