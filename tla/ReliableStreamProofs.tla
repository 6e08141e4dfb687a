------------------------ MODULE ReliableStreamProofs ------------------------
(***************************************************************************)
(* The reliable layer implements the sliding window, for every window size, *)
(* number of retries, packet lifetime and sequence space that satisfy the   *)
(* assumptions of ReliableStream.                                           *)
(***************************************************************************)
EXTENDS ReliableStream, TLAPS, WellFoundedInduction, NaturalsInduction, FiniteSetTheorems

LEMMA SpaceFacts ==
    /\ SeqSpace \in Nat /\ SeqSpace > 0 /\ WINDOW_SIZE \in Nat /\ WINDOW_SIZE > 0 /\ Lifetime \in Nat
    /\ MAX_RETRIES \in Nat /\ MaxSend \in Nat /\ MaxStreamLoss \in Nat
    /\ Lifetime + WINDOW_SIZE < SeqSpace
BY WindowAssumption, LifetimeAssumption, StreamBoundAssumption

-----------------------------------------------------------------------------
(* Arithmetic modulo the sequence space.                                    *)

LEMMA ModFacts ==
    ASSUME NEW a \in Int
    PROVE  /\ a % SeqSpace \in 0..SeqSpace - 1
           /\ \E q \in Int : a = SeqSpace * q + (a % SeqSpace)
<1>1. PICK S \in Int : S = SeqSpace /\ S > 0
  BY SpaceFacts
<1>2. a = S * (a \div S) + (a % S)
  BY <1>1
<1>3. a \div S \in Int /\ a % S \in 0..S - 1
  BY <1>1
<1> QED BY <1>1, <1>2, <1>3

LEMMA ModIs ==
    ASSUME NEW a \in Int, NEW q \in Int, NEW r \in 0..SeqSpace - 1, a = SeqSpace * q + r
    PROVE  a % SeqSpace = r
<1>1. PICK S \in Int : S = SeqSpace /\ S > 0
  BY SpaceFacts
<1>2. a % S = r
  BY <1>1
<1> QED BY <1>1, <1>2

\* Numbers that are less than a sequence space apart have different residues.
LEMMA ModUnique ==
    ASSUME NEW a \in Int, NEW b \in Int, a % SeqSpace = b % SeqSpace,
           a - b < SeqSpace, b - a < SeqSpace
    PROVE  a = b
<1>1. PICK S \in Int : S = SeqSpace /\ S > 0
  BY SpaceFacts
<1>2. PICK q \in Int : a = S * q + (a % S)
  BY <1>1, ModFacts
<1>3. PICK r \in Int : b = S * r + (b % S)
  BY <1>1, ModFacts
<1>4. a - b = S * (q - r)
  <2>1. a % S \in Int /\ b % S \in Int /\ a % S = b % S
    BY <1>1, ModFacts
  <2>2. S * (q - r) = S * q - S * r
    BY <1>1
  <2> QED BY <1>1, <1>2, <1>3, <2>1, <2>2
<1>5. CASE q - r >= 1
  <2>1. S * (q - r) >= S
    BY <1>1, <1>5
  <2> QED BY <1>1, <1>4, <2>1
<1>6. CASE q - r <= -1
  <2>1. S * (q - r) <= -S
    BY <1>1, <1>6
  <2> QED BY <1>1, <1>4, <2>1
<1>7. CASE q - r = 0
  <2>1. S * (q - r) = 0
    BY <1>1, <1>7
  <2> QED BY <1>1, <1>4, <2>1
<1> QED BY <1>5, <1>6, <1>7

LEMMA ModShift ==
    ASSUME NEW a \in Int, NEW k \in Int
    PROVE  (a + SeqSpace * k) % SeqSpace = a % SeqSpace
<1>1. PICK q \in Int : a = SeqSpace * q + (a % SeqSpace)
  BY ModFacts
<1>2. SeqSpace * k \in Int /\ a + SeqSpace * k = SeqSpace * (q + k) + (a % SeqSpace)
  BY <1>1, SpaceFacts, ModFacts
<1> QED BY <1>2, ModIs, ModFacts

\* wrapping_add and wrapping_sub on residues.
LEMMA WrappingAddMod ==
    ASSUME NEW a \in Int, NEW b \in Int
    PROVE  WrappingAdd(a % SeqSpace, b) = (a + b) % SeqSpace
<1>1. PICK q \in Int : a = SeqSpace * q + (a % SeqSpace)
  BY ModFacts
<1>2. (a % SeqSpace) + b \in Int /\ -q \in Int
  BY ModFacts
<1>3. (a % SeqSpace) + b = (a + b) + SeqSpace * (-q)
  BY <1>1, SpaceFacts, ModFacts
<1> QED BY <1>3, ModShift DEF WrappingAdd

LEMMA WrappingSubMod ==
    ASSUME NEW a \in Int, NEW b \in Int
    PROVE  WrappingSub(a % SeqSpace, b % SeqSpace) = (a - b) % SeqSpace
<1>1. PICK q \in Int : a = SeqSpace * q + (a % SeqSpace)
  BY ModFacts
<1>2. PICK r \in Int : b = SeqSpace * r + (b % SeqSpace)
  BY ModFacts
<1>3. (a % SeqSpace) - (b % SeqSpace) = (a - b) + SeqSpace * (r - q)
  BY <1>1, <1>2, SpaceFacts, ModFacts
<1>4. r - q \in Int /\ a - b \in Int
  OBVIOUS
<1> QED BY <1>3, <1>4, ModShift DEF WrappingSub

LEMMA ModSmall ==
    ASSUME NEW a \in 0..SeqSpace - 1
    PROVE  a % SeqSpace = a
BY SpaceFacts, ModIs

LEMMA ModNegative ==
    ASSUME NEW a \in Int, a < 0, -SeqSpace <= a
    PROVE  a % SeqSpace = a + SeqSpace
<1>1. a = SeqSpace * (-1) + (a + SeqSpace) /\ a + SeqSpace \in 0..SeqSpace - 1
  BY SpaceFacts
<1> QED BY <1>1, ModIs

-----------------------------------------------------------------------------
(* The operators on sequences.                                              *)

LEMMA LeastNat ==
    ASSUME NEW T, T \subseteq Nat, T # {}
    PROVE  \E x \in T : \A y \in T : x <= y
<1>1. \E R : /\ \A x, y \in Nat : y < x => <<y, x>> \in R
             /\ IsWellFoundedOn(R, Nat)
  <2>1. \A x, y \in Nat : y < x => <<y, x>> \in OpToRel(<, Nat)
    BY Zenon DEF OpToRel
  <2> QED BY <2>1, NatLessThanWellFounded, Zenon
<1>2. PICK R : /\ \A x, y \in Nat : y < x => <<y, x>> \in R
               /\ IsWellFoundedOn(R, Nat)
  BY <1>1
<1>3. PICK x \in T : \A y \in T : ~ (<<y, x>> \in R)
  BY <1>2, WFMin
<1>4. ASSUME NEW y \in T PROVE x <= y
  <2>1. x \in Nat /\ y \in Nat
    OBVIOUS
  <2>2. ~ (y < x)
    BY <1>2, <1>3, <2>1
  <2> QED BY <2>1, <2>2
<1> QED BY <1>4

LEMMA GreatestNat ==
    ASSUME NEW n \in Nat, NEW T, T \subseteq 0..n, T # {}
    PROVE  Max(T) \in T /\ \A y \in T : y <= Max(T)
<1> DEFINE U == {k \in Nat : n - k \in T}
<1>1. U # {}
  <2>1. PICK t \in T : TRUE
    OBVIOUS
  <2>2. n - t \in Nat /\ n - (n - t) = t
    BY <2>1
  <2> QED BY <2>1, <2>2
<1>2. PICK k \in U : \A j \in U : k <= j
  BY <1>1, LeastNat
<1>3. n - k \in T /\ k \in Nat
  BY <1>2
<1>4. ASSUME NEW y \in T PROVE n - k >= y
  <2>1. y \in 0..n /\ n - y \in Nat /\ n - (n - y) = y
    OBVIOUS
  <2>2. n - y \in U
    BY <2>1
  <2> QED BY <1>2, <1>3, <2>1, <2>2
<1>5. \E x \in T : \A y \in T : x >= y
  BY <1>3, <1>4
<1>6. Max(T) \in T /\ \A y \in T : Max(T) >= y
  BY <1>5 DEF Max
<1> QED BY <1>6

\* The front run of a set of positions: it lies in the set, and reaches 1 if 1 does.
LEMMA FrontRunFacts ==
    ASSUME NEW n \in Nat, NEW P, P \subseteq 1..n
    PROVE  /\ FrontRun(P) \in 0..n
           /\ \A i \in 1..FrontRun(P) : i \in P
           /\ 1 \in P => FrontRun(P) >= 1
<1> DEFINE T == {k \in 0..Cardinality(P) : 1..k \subseteq P}
<1>1. IsFiniteSet(P) /\ Cardinality(P) \in Nat /\ Cardinality(P) <= n
  <2>1. IsFiniteSet(1..n) /\ Cardinality(1..n) = n
    BY FS_Interval
  <2>2. IsFiniteSet(P) /\ Cardinality(P) <= Cardinality(1..n)
    BY <2>1, FS_Subset
  <2> QED BY <2>1, <2>2, FS_CardinalityType
<1>2. 0 \in T /\ T \subseteq 0..Cardinality(P)
  BY <1>1
<1>3. Max(T) \in T /\ \A y \in T : y <= Max(T)
  <2> HIDE DEF T
  <2> QED BY <1>1, <1>2, GreatestNat
<1>4. FrontRun(P) = Max(T)
  BY DEF FrontRun
<1>5. ASSUME 1 \in P PROVE 1 \in T
  <2>1. Cardinality(P) # 0
    BY <1>1, <1>5, FS_EmptySet
  <2>2. 1..1 \subseteq P
    BY <1>5
  <2> QED BY <1>1, <2>1, <2>2
<1>6. FrontRun(P) \in 0..n /\ 1..FrontRun(P) \subseteq P
  BY <1>1, <1>3, <1>4
<1>7. 1 \in P => FrontRun(P) >= 1
  BY <1>3, <1>4, <1>5, <1>6
<1> QED BY <1>6, <1>7

LEMMA DropFacts ==
    ASSUME NEW X, NEW s \in Seq(X), NEW k \in 0..Len(s)
    PROVE  /\ Drop(s, k) \in Seq(X) /\ Len(Drop(s, k)) = Len(s) - k
           /\ \A i \in 1..Len(s) - k : Drop(s, k)[i] = s[i + k]
BY DEF Drop

LEMMA InsertFacts ==
    ASSUME NEW X, NEW s \in Seq(X), NEW k \in 1..Len(s) + 1, NEW e \in X
    PROVE  /\ InsertAt(s, k, e) \in Seq(X) /\ Len(InsertAt(s, k, e)) = Len(s) + 1
           /\ \A i \in 1..k - 1 : InsertAt(s, k, e)[i] = s[i]
           /\ InsertAt(s, k, e)[k] = e
           /\ \A i \in k + 1..Len(s) + 1 : InsertAt(s, k, e)[i] = s[i - 1]
<1> DEFINE a == SubSeq(s, 1, k - 1)
           b == SubSeq(s, k, Len(s))
<1>1. a \in Seq(X) /\ Len(a) = k - 1 /\ \A i \in 1..k - 1 : a[i] = s[i]
  OBVIOUS
<1>2. b \in Seq(X) /\ Len(b) = Len(s) + 1 - k /\ \A i \in 1..Len(s) + 1 - k : b[i] = s[i + k - 1]
  OBVIOUS
<1>3. InsertAt(s, k, e) = a \o <<e>> \o b
  BY DEF InsertAt
<1> HIDE DEF a, b
<1>4. PICK c : c = a \o <<e>>
  OBVIOUS
<1>5. c \in Seq(X) /\ Len(c) = k /\ c[k] = e /\ \A i \in 1..k - 1 : c[i] = s[i]
  BY <1>1, <1>4
<1>6. PICK d : d = c \o b
  OBVIOUS
<1>7. /\ d \in Seq(X) /\ Len(d) = Len(s) + 1
      /\ \A i \in 1..k : d[i] = c[i]
      /\ \A i \in k + 1..Len(s) + 1 : d[i] = b[i - k]
  BY <1>2, <1>5, <1>6
<1>8. ASSUME NEW i \in k + 1..Len(s) + 1 PROVE d[i] = s[i - 1]
  <2>1. i - k \in 1..Len(s) + 1 - k /\ (i - k) + k - 1 = i - 1
    OBVIOUS
  <2> QED BY <1>2, <1>7, <2>1
<1>9. InsertAt(s, k, e) = d
  BY <1>3, <1>4, <1>6
<1> QED BY <1>5, <1>7, <1>8, <1>9

LEMMA AppendFacts ==
    ASSUME NEW X, NEW s \in Seq(X), NEW e \in X
    PROVE  /\ Append(s, e) \in Seq(X) /\ Len(Append(s, e)) = Len(s) + 1
           /\ \A i \in 1..Len(s) : Append(s, e)[i] = s[i]
           /\ Append(s, e)[Len(s) + 1] = e
OBVIOUS

LEMMA MapSeq ==
    ASSUME NEW X, NEW n \in Nat, NEW f, f \in [1..n -> X]
    PROVE  f \in Seq(X) /\ Len(f) = n /\ DOMAIN f = 1..n
OBVIOUS

-----------------------------------------------------------------------------
(* The inductive invariant.                                                 *)

Slot == [seq : Sequence, payload : Payload, retries : 0..MAX_RETRIES, acked : BOOLEAN]
Datagram == [seq : Sequence, payload : Payload]

\* The types, without what TypeOK says of the sequence numbers.
StreamTypes ==
    /\ sent \in 0..MaxSend
    /\ slots \in Seq(Slot) /\ Len(slots) <= WINDOW_SIZE
    /\ ooo_buffer \in Seq(Datagram)
    /\ delivered \in Seq(Payload)
    /\ packets \subseteq Datagram
    /\ streamLost \in 0..MaxStreamLoss

\* What the sender forgot, and what the application has.
Base == sent - Len(slots)
Done == Len(delivered)

\* Packet and payload number belong together.
Numbered(p) == p.payload \in 1..sent /\ p.seq = (p.payload - 1) % SeqSpace

\* The slots hold the payloads after Base; only a delivered one is acknowledged.
SenderInv ==
    /\ Len(slots) <= sent
    /\ next_seq = sent % SeqSpace /\ window_base = Base % SeqSpace
    /\ \A i \in DOMAIN slots : /\ slots[i].payload = Base + i
                               /\ slots[i].seq = (slots[i].payload - 1) % SeqSpace
                               /\ slots[i].acked => Base + i <= Done

\* The application has the first Done payloads, among them all the sender forgot.
ReceiverInv ==
    /\ Base <= Done /\ Done <= sent
    /\ \A i \in 1..Done : delivered[i] = i
    /\ next_expected = Done % SeqSpace
    /\ \A p \in packets : Numbered(p)
    /\ \A i \in DOMAIN ooo_buffer : Numbered(ooo_buffer[i])
    /\ \A a \in acks : a.upto \in 0..Done /\ a.seq = (a.upto - 1) % SeqSpace /\ a.bitmap = {}

Held(i) == ooo_buffer[i].payload

\* The buffer is empty, or its first packet is yet to be awaited and the second, which
\* it was put before or after, is not far behind it.
Ahead ==
    \/ Len(ooo_buffer) = 0
    \/ /\ Held(1) >= Done + 2
       /\ Len(ooo_buffer) >= 2 => Held(2) < Held(1) /\ (Held(2) >= Done + 1 \/ Held(1) - Held(2) < Lifetime)

\* Payload h was handed over together with the next one: no acknowledgement of it
\* was or will be sent, and the window cannot go past it.
Hole(h) ==
    /\ Base < h /\ h < Done
    /\ ~ slots[h - Base].acked
    /\ \A a \in acks : a.upto # h

\* A delivered packet is at the front of the buffer for good, ...
Stuck(h) == Len(ooo_buffer) > 0 /\ Held(1) <= Done /\ Held(1) > h + 1 - Lifetime

\* ... or all that is buffered is in the window after h.
Near(h) == \A i \in DOMAIN ooo_buffer : Held(i) \in h + 1..h + WINDOW_SIZE

BufferInv == Ahead \/ \E h \in Nat : Hole(h) /\ (Stuck(h) \/ Near(h))

StreamInv == StreamTypes /\ SenderInv /\ ReceiverInv /\ BufferInv

LEMMA StreamFacts ==
    ASSUME StreamTypes, SenderInv, ReceiverInv
    PROVE  /\ sent \in Nat /\ sent <= MaxSend
           /\ slots \in Seq(Slot) /\ Len(slots) \in Nat /\ DOMAIN slots = 1..Len(slots) /\ Len(slots) <= WINDOW_SIZE
           /\ Base \in Nat /\ Base + Len(slots) = sent
           /\ ooo_buffer \in Seq(Datagram) /\ Len(ooo_buffer) \in Nat /\ DOMAIN ooo_buffer = 1..Len(ooo_buffer)
           /\ delivered \in Seq(Payload) /\ Done \in Nat /\ DOMAIN delivered = 1..Done
           /\ Base <= Done /\ Done <= sent /\ sent <= Base + WINDOW_SIZE
           /\ \A i \in 1..Len(ooo_buffer) :
                /\ ooo_buffer[i] \in Datagram
                /\ Held(i) \in Nat /\ Held(i) \in 1..sent /\ ooo_buffer[i].seq = (Held(i) - 1) % SeqSpace
           /\ \A i \in 1..Len(slots) : slots[i] \in Slot
<1>1. sent \in Nat /\ sent <= MaxSend /\ Len(slots) <= WINDOW_SIZE /\ Len(slots) <= sent
  BY SpaceFacts DEF StreamTypes, SenderInv
<1>2. slots \in Seq(Slot) /\ ooo_buffer \in Seq(Datagram) /\ delivered \in Seq(Payload)
  BY DEF StreamTypes
<1>3. Len(slots) \in Nat /\ DOMAIN slots = 1..Len(slots) /\ \A i \in 1..Len(slots) : slots[i] \in Slot
  BY <1>2
<1>4. /\ Len(ooo_buffer) \in Nat /\ DOMAIN ooo_buffer = 1..Len(ooo_buffer)
      /\ \A i \in 1..Len(ooo_buffer) : ooo_buffer[i] \in Datagram
  BY <1>2
<1>5. Done \in Nat /\ DOMAIN delivered = 1..Done
  BY <1>2 DEF Done
<1>6. Base \in Nat /\ Base + Len(slots) = sent /\ sent <= Base + WINDOW_SIZE
  BY <1>1, <1>3, SpaceFacts DEF Base
<1>7. Base <= Done /\ Done <= sent /\ \A i \in 1..Len(ooo_buffer) : Numbered(ooo_buffer[i])
  BY <1>4 DEF ReceiverInv
<1>8. \A i \in 1..Len(ooo_buffer) :
         Held(i) \in Nat /\ Held(i) \in 1..sent /\ ooo_buffer[i].seq = (Held(i) - 1) % SeqSpace
  BY <1>1, <1>7 DEF Numbered, Held
<1> QED BY <1>1, <1>2, <1>3, <1>4, <1>5, <1>6, <1>7, <1>8

-----------------------------------------------------------------------------
(* The sender's steps.                                                      *)

LEMMA StreamInit == StreamStart => StreamInv
<1> SUFFICES ASSUME StreamStart PROVE StreamInv
  OBVIOUS
<1>1. StreamTypes
  BY SpaceFacts DEF StreamStart, StreamTypes
<1>2. sent = 0 /\ Len(slots) = 0 /\ Len(delivered) = 0 /\ Len(ooo_buffer) = 0
  BY DEF StreamStart
<1>3. Base = 0 /\ Done = 0
  BY <1>2 DEF Base, Done
<1>4. 0 % SeqSpace = 0
  BY SpaceFacts, ModSmall
<1> QED BY <1>1, <1>2, <1>3, <1>4 DEF StreamStart, StreamInv, SenderInv, ReceiverInv, BufferInv, Ahead

LEMMA NumberedLater ==
    ASSUME NEW p, Numbered(p), sent \in Nat, sent' \in Nat, sent <= sent'
    PROVE  Numbered(p)'
BY DEF Numbered

LEMMA WindowIsFull ==
    ASSUME StreamTypes, SenderInv, ReceiverInv
    PROVE  WindowFull <=> Len(slots) = WINDOW_SIZE
<1>1. WrappingSub(next_seq, window_base) = (sent - Base) % SeqSpace
  BY StreamFacts, WrappingSubMod DEF SenderInv
<1>2. sent - Base = Len(slots) /\ Len(slots) \in 0..SeqSpace - 1
  BY StreamFacts, SpaceFacts
<1>3. WrappingSub(next_seq, window_base) = Len(slots)
  BY <1>1, <1>2, ModSmall
<1> QED BY <1>3, StreamFacts, SpaceFacts DEF WindowFull

LEMMA SendStep ==
    ASSUME StreamInv, Send
    PROVE  /\ StreamInv'
           /\ sent' = sent + 1 /\ Base' = Base /\ delivered' = delivered
           /\ Base + WINDOW_SIZE > sent
<1> USE DEF StreamInv
<1>0. ~ WindowFull
  BY DEF Send
<1>1. Len(slots) < WINDOW_SIZE
  <2>1. Len(slots) # WINDOW_SIZE
    BY <1>0, WindowIsFull
  <2>2. Len(slots) \in Nat /\ Len(slots) <= WINDOW_SIZE /\ WINDOW_SIZE \in Nat
    BY StreamFacts, SpaceFacts
  <2> QED BY <2>1, <2>2
<1>2. PICK slot : /\ slot = [seq |-> next_seq, payload |-> sent + 1, retries |-> 0, acked |-> FALSE]
                  /\ slots' = Append(slots, slot)
                  /\ packets' = packets \cup {PacketOf(slot)}
  BY DEF Send
<1>3. /\ sent' = sent + 1 /\ sent < MaxSend /\ next_seq' = WrappingAdd(next_seq, 1)
      /\ UNCHANGED <<window_base, next_expected, ooo_buffer, delivered, acks, streamLost>>
  BY DEF Send, receiverVars
<1>4. next_seq' = (sent + 1) % SeqSpace /\ next_seq = sent % SeqSpace
  BY <1>3, StreamFacts, WrappingAddMod DEF SenderInv
<1>5. sent % SeqSpace \in Sequence
  BY StreamFacts, ModFacts DEF Sequence
<1>6. slot \in Slot /\ PacketOf(slot) \in Datagram /\ PacketOf(slot).payload = sent + 1 /\ PacketOf(slot).seq = sent % SeqSpace
  <2>1. sent + 1 \in Payload
    BY <1>3, StreamFacts, SpaceFacts DEF Payload
  <2>2. slot \in Slot
    BY <1>2, <1>4, <1>5, <2>1, SpaceFacts DEF Slot
  <2>3. PacketOf(slot) = [seq |-> sent % SeqSpace, payload |-> sent + 1]
    BY <1>2, <1>4 DEF PacketOf
  <2> QED BY <1>5, <2>1, <2>2, <2>3 DEF Datagram
<1>7. /\ slots' \in Seq(Slot) /\ Len(slots') = Len(slots) + 1 /\ DOMAIN slots' = 1..Len(slots) + 1
      /\ \A i \in 1..Len(slots) : slots'[i] = slots[i]
      /\ slots'[Len(slots) + 1] = slot
  BY <1>2, <1>6, StreamFacts, AppendFacts
<1>8. Base' = Base /\ Base' \in Nat /\ Done' = Done /\ Base + Len(slots) = sent
  BY <1>3, <1>7, StreamFacts DEF Base, Done
<1>9. StreamTypes'
  <2>1. sent' \in 0..MaxSend /\ Len(slots') <= WINDOW_SIZE
    BY <1>1, <1>3, <1>7, StreamFacts, SpaceFacts
  <2>2. packets' \subseteq Datagram
    BY <1>2, <1>6 DEF StreamTypes
  <2> QED BY <1>3, <1>7, <2>1, <2>2 DEF StreamTypes
<1>10. SenderInv'
  <2>1. ASSUME NEW i \in DOMAIN slots'
        PROVE  /\ slots'[i].payload = Base + i
               /\ slots'[i].seq = (slots'[i].payload - 1) % SeqSpace
               /\ slots'[i].acked => Base + i <= Done
    <3>1. CASE i \in 1..Len(slots)
      BY <3>1, <1>7, StreamFacts DEF SenderInv
    <3>2. CASE i = Len(slots) + 1
      <4>1. Base + i = sent + 1 /\ (sent + 1) - 1 = sent
        BY <3>2, <1>8, StreamFacts
      <4>2. slot.payload = sent + 1 /\ slot.seq = sent % SeqSpace /\ ~ slot.acked
        BY <1>2, <1>4
      <4> QED BY <3>2, <4>1, <4>2, <1>7
    <3> QED BY <3>1, <3>2, <1>7, StreamFacts
  <2>2. Len(slots') <= sent'
    BY <1>3, <1>7, StreamFacts DEF SenderInv
  <2>3. next_seq' = sent' % SeqSpace /\ window_base' = Base' % SeqSpace
    BY <1>3, <1>4, <1>8 DEF SenderInv
  <2> QED BY <2>1, <2>2, <2>3, <1>8 DEF SenderInv
<1>11. ReceiverInv'
  <2>1. sent \in Nat /\ sent' \in Nat /\ sent <= sent'
    BY <1>3, StreamFacts
  <2>2. ASSUME NEW p \in packets' PROVE Numbered(p)'
    <3>1. CASE p \in packets
      BY <3>1, <2>1, NumberedLater DEF ReceiverInv
    <3>2. CASE p = PacketOf(slot)
      BY <3>2, <1>3, <1>6, <2>1 DEF Numbered
    <3> QED BY <3>1, <3>2, <1>2
  <2>3. \A i \in DOMAIN ooo_buffer : Numbered(ooo_buffer[i])'
    BY <2>1, <1>3, NumberedLater DEF ReceiverInv
  <2>4. Base' <= Done' /\ Done' <= sent'
    BY <1>3, <1>8, StreamFacts
  <2> QED BY <2>2, <2>3, <2>4, <1>3, <1>8 DEF ReceiverInv
<1>12. BufferInv'
  <2>1. Ahead' <=> Ahead
    BY <1>3, <1>8 DEF Ahead, Held
  <2>2. ASSUME NEW h \in Nat, Hole(h) PROVE Hole(h)'
    <3>1. h - Base \in 1..Len(slots)
      BY <2>2, StreamFacts DEF Hole
    <3> QED BY <2>2, <3>1, <1>3, <1>7, <1>8 DEF Hole
  <2>3. \A h \in Nat : (Stuck(h)' <=> Stuck(h)) /\ (Near(h)' <=> Near(h))
    BY <1>3, <1>8 DEF Stuck, Near, Held
  <2> QED BY <2>1, <2>2, <2>3 DEF BufferInv
<1>13. Base + WINDOW_SIZE > sent
  BY <1>1, <1>8, StreamFacts, SpaceFacts
<1> QED BY <1>3, <1>8, <1>9, <1>10, <1>11, <1>12, <1>13

LEMMA PollStep ==
    ASSUME StreamInv, NEW due \in SUBSET DOMAIN slots, PollRetransmit(due)
    PROVE  StreamInv' /\ sent' = sent /\ Base' = Base /\ delivered' = delivered
<1> USE DEF StreamInv
<1>1. /\ UNCHANGED <<sent, next_seq, window_base, next_expected, ooo_buffer, delivered, acks, streamLost>>
      /\ \A i \in due : slots[i].retries < MAX_RETRIES
      /\ slots' = [i \in DOMAIN slots |-> IF i \in due THEN [slots[i] EXCEPT !.retries = @ + 1] ELSE slots[i]]
      /\ packets' = packets \cup {PacketOf(slots[i]) : i \in due}
  BY DEF PollRetransmit, MayRetry, receiverVars
<1>2. ASSUME NEW i \in 1..Len(slots)
      PROVE  /\ slots'[i] \in Slot /\ slots'[i].payload = slots[i].payload
             /\ slots'[i].seq = slots[i].seq /\ slots'[i].acked = slots[i].acked
  <2>1. CASE i \in due
    <3>1. PICK x : x = slots[i]
      OBVIOUS
    <3>2. x \in Slot /\ x.retries < MAX_RETRIES
      BY <1>1, <2>1, <3>1, StreamFacts
    <3>3. slots'[i] = [x EXCEPT !.retries = @ + 1]
      BY <1>1, <2>1, <3>1, StreamFacts
    <3>4. x.retries + 1 \in 0..MAX_RETRIES
      BY <3>2, SpaceFacts DEF Slot
    <3> QED BY <3>1, <3>2, <3>3, <3>4 DEF Slot
  <2>2. CASE i \notin due
    BY <2>2, <1>1, StreamFacts
  <2> QED BY <2>1, <2>2
<1>3. slots' \in Seq(Slot) /\ Len(slots') = Len(slots) /\ DOMAIN slots' = 1..Len(slots)
  <2>1. slots' \in [1..Len(slots) -> Slot]
    BY <1>1, <1>2, StreamFacts
  <2> QED BY <2>1, MapSeq, StreamFacts
<1>4. Base' = Base /\ Done' = Done
  BY <1>1, <1>3 DEF Base, Done
<1>5. ASSUME NEW p \in packets' PROVE p \in Datagram /\ Numbered(p)
  <2>1. CASE p \in packets
    BY <2>1 DEF StreamTypes, ReceiverInv
  <2>2. CASE p \in {PacketOf(slots[i]) : i \in due}
    <3>1. PICK i \in 1..Len(slots) : p = PacketOf(slots[i])
      BY <2>2, StreamFacts
    <3>2. /\ slots[i] \in Slot /\ slots[i].payload = Base + i
          /\ slots[i].seq = (slots[i].payload - 1) % SeqSpace
      BY StreamFacts DEF SenderInv
    <3>3. p = [seq |-> slots[i].seq, payload |-> slots[i].payload]
      BY <3>1 DEF PacketOf
    <3>4. p \in Datagram /\ p.payload = slots[i].payload /\ p.seq = slots[i].seq
      BY <3>2, <3>3 DEF Slot, Datagram
    <3>5. Base + i \in 1..sent
      BY StreamFacts
    <3> QED BY <3>2, <3>4, <3>5 DEF Numbered
  <2>3. p \in packets \cup {PacketOf(slots[i]) : i \in due}
    BY <1>1
  <2> QED BY <2>1, <2>2, <2>3
<1>6. StreamTypes'
  BY <1>1, <1>3, <1>5 DEF StreamTypes
<1>7. SenderInv'
  BY <1>1, <1>2, <1>3, <1>4, StreamFacts DEF SenderInv
<1>8. ReceiverInv'
  <2>1. \A p : Numbered(p)' <=> Numbered(p)
    BY <1>1 DEF Numbered
  <2> QED BY <1>1, <1>4, <1>5, <2>1 DEF ReceiverInv
<1>9. BufferInv'
  <2>1. Ahead' <=> Ahead
    BY <1>1, <1>4 DEF Ahead, Held
  <2>2. ASSUME NEW h \in Nat, Hole(h) PROVE Hole(h)'
    <3>1. h - Base \in 1..Len(slots)
      BY <2>2, StreamFacts DEF Hole
    <3> QED BY <2>2, <3>1, <1>1, <1>2, <1>4 DEF Hole
  <2>3. \A h \in Nat : (Stuck(h)' <=> Stuck(h)) /\ (Near(h)' <=> Near(h))
    BY <1>1, <1>4 DEF Stuck, Near, Held
  <2> QED BY <2>1, <2>2, <2>3 DEF BufferInv
<1> QED BY <1>1, <1>4, <1>6, <1>7, <1>8, <1>9

\* An acknowledgement that is still around covers the slot of the payload it was sent
\* for and no other.
LEMMA CoversOne ==
    ASSUME StreamInv, NEW ack \in acks, Fresh(ack.upto), NEW i \in 1..Len(slots),
           Covers(ack, slots[i].seq)
    PROVE  Base + i = ack.upto
<1> USE DEF StreamInv
<1>1. slots[i].seq = (slots[i].payload - 1) % SeqSpace /\ slots[i].payload = Base + i
  BY StreamFacts DEF SenderInv
<1>2. ack.upto \in 0..Done /\ ack.seq = (ack.upto - 1) % SeqSpace /\ ack.bitmap = {}
  BY DEF ReceiverInv
<1>3. PICK b \in Nat, u \in Nat : b = slots[i].payload /\ b = Base + i /\ u = ack.upto
  <2>1. slots[i].payload \in Nat /\ ack.upto \in Nat
    BY <1>1, <1>2, StreamFacts
  <2> QED BY <1>1, <2>1
<1>4. b <= sent /\ sent - b < WINDOW_SIZE /\ u <= sent /\ sent - u < Lifetime /\ sent \in Nat
  <2>1. sent - u < Lifetime
    BY <1>3 DEF Fresh
  <2>2. /\ sent \in Nat /\ Len(slots) \in Nat /\ Base \in Nat /\ Done \in Nat
        /\ Base + Len(slots) = sent /\ Len(slots) <= WINDOW_SIZE /\ Done <= sent
    BY StreamFacts
  <2> QED BY <1>2, <1>3, <2>1, <2>2, SpaceFacts
<1>5. WrappingSub((b - 1) % SeqSpace, (u - 1) % SeqSpace) = 0
  <2>1. WrappingSub(slots[i].seq, ack.seq) = 0
    BY <1>2 DEF Covers
  <2>2. slots[i].seq = (b - 1) % SeqSpace /\ ack.seq = (u - 1) % SeqSpace
    BY <1>1, <1>2, <1>3
  <2> QED BY <2>1, <2>2
<1>6. (b - u) % SeqSpace = 0
  <2>1. b - 1 \in Int /\ u - 1 \in Int /\ (b - 1) - (u - 1) = b - u
    BY <1>3
  <2> QED BY <1>5, <2>1, WrappingSubMod
<1>7. b - u \in Int /\ b - u < SeqSpace /\ u - b < SeqSpace
  BY <1>3, <1>4, SpaceFacts
<1>8. 0 % SeqSpace = 0
  BY SpaceFacts, ModSmall
<1>9. b - u = 0
  <2>1. PICK x \in Int : x = b - u
    BY <1>7
  <2>2. x % SeqSpace = 0 % SeqSpace /\ x - 0 < SeqSpace /\ 0 - x < SeqSpace /\ 0 \in Int
    BY <1>3, <1>6, <1>7, <1>8, <2>1
  <2> QED BY <2>1, <2>2, ModUnique
<1> QED BY <1>3, <1>9

LEMMA AckStep ==
    ASSUME StreamInv, NEW ack \in acks, OnAck(ack)
    PROVE  /\ StreamInv'
           /\ sent' = sent /\ delivered' = delivered
           /\ Base' \in Nat /\ Base <= Base' /\ Base' <= Done
<1> USE DEF StreamInv
<1> DEFINE mark(i) == [slots[i] EXCEPT !.acked = @ \/ Covers(ack, slots[i].seq)]
<1>1. PICK marked, n : /\ marked = [i \in DOMAIN slots |-> mark(i)]
                       /\ n = FrontRun({i \in DOMAIN slots : marked[i].acked})
                       /\ slots' = Drop(marked, n)
                       /\ window_base' = WrappingAdd(window_base, n)
  BY DEF OnAck
<1>2. Fresh(ack.upto) /\ UNCHANGED <<sent, next_seq, next_expected, ooo_buffer, delivered, packets, acks, streamLost>>
  BY DEF OnAck, receiverVars
<1>3. ASSUME NEW i \in 1..Len(slots)
      PROVE  /\ marked[i] \in Slot /\ marked[i].payload = slots[i].payload /\ marked[i].seq = slots[i].seq
             /\ marked[i].acked <=> slots[i].acked \/ Covers(ack, slots[i].seq)
  <2>1. PICK x : x = slots[i]
    OBVIOUS
  <2>2. PICK c \in BOOLEAN : c <=> Covers(ack, slots[i].seq)
    OBVIOUS
  <2>3. x \in Slot
    BY <2>1, StreamFacts
  <2>4. marked[i] = [x EXCEPT !.acked = @ \/ Covers(ack, slots[i].seq)]
    BY <1>1, <2>1, StreamFacts
  <2> QED BY <2>1, <2>2, <2>3, <2>4 DEF Slot
<1>4. marked \in Seq(Slot) /\ Len(marked) = Len(slots) /\ DOMAIN marked = 1..Len(slots)
  <2>1. marked \in [1..Len(slots) -> Slot]
    BY <1>1, <1>3, StreamFacts
  <2> QED BY <2>1, MapSeq, StreamFacts
<1>5. ASSUME NEW i \in 1..Len(slots), marked[i].acked
      PROVE  Base + i <= Done /\ (slots[i].acked \/ Base + i = ack.upto)
  <2>1. CASE slots[i].acked
    BY <2>1, StreamFacts DEF SenderInv
  <2>2. CASE Covers(ack, slots[i].seq)
    <3>1. Base + i = ack.upto
      BY <2>2, <1>2, CoversOne
    <3>2. ack.upto \in 0..Done
      BY DEF ReceiverInv
    <3> QED BY <3>1, <3>2, StreamFacts
  <2> QED BY <1>3, <1>5, <2>1, <2>2
<1>6. n \in 0..Len(slots) /\ \A i \in 1..n : marked[i].acked
  <2>1. PICK P : P = {i \in DOMAIN slots : marked[i].acked}
    OBVIOUS
  <2>2. P \subseteq 1..Len(slots) /\ n = FrontRun(P)
    BY <1>1, <2>1, StreamFacts
  <2>3. n \in 0..Len(slots) /\ \A i \in 1..n : i \in P
    BY <2>2, FrontRunFacts, StreamFacts
  <2> QED BY <2>1, <2>3
<1>7. /\ slots' \in Seq(Slot) /\ Len(slots') = Len(slots) - n /\ DOMAIN slots' = 1..Len(slots) - n
      /\ \A i \in 1..Len(slots) - n : slots'[i] = marked[i + n]
  <2>1. n \in 0..Len(marked)
    BY <1>4, <1>6
  <2>2. /\ slots' \in Seq(Slot) /\ Len(slots') = Len(marked) - n
        /\ \A i \in 1..Len(marked) - n : slots'[i] = marked[i + n]
    <3>1. marked \in Seq(Slot)
      BY <1>4
    <3>2. slots' = Drop(marked, n)
      BY <1>1
    <3> HIDE <1>1, <1>3, <1>4
    <3> QED BY <2>1, <3>1, <3>2, DropFacts
  <2> QED BY <1>4, <2>2
<1>8. Base' = Base + n /\ Done' = Done /\ Base' \in Nat
  BY <1>2, <1>6, <1>7, StreamFacts DEF Base, Done
<1>9. Base' <= Done
  <2>1. CASE n = 0
    BY <2>1, <1>8, StreamFacts
  <2>2. CASE n # 0
    <3>1. n \in 1..Len(slots) /\ marked[n].acked
      BY <2>2, <1>6, StreamFacts
    <3> QED BY <3>1, <1>5, <1>8
  <2> QED BY <2>1, <2>2
<1>10. StreamTypes'
  BY <1>2, <1>6, <1>7, StreamFacts, SpaceFacts DEF StreamTypes
<1>11. SenderInv'
  <2>1. ASSUME NEW i \in 1..Len(slots) - n
        PROVE  /\ slots'[i].payload = Base' + i
               /\ slots'[i].seq = (slots'[i].payload - 1) % SeqSpace
               /\ slots'[i].acked => Base' + i <= Done
    <3>1. i + n \in 1..Len(slots) /\ Base' + i = Base + (i + n)
      BY <1>6, <1>8, StreamFacts
    <3>2. slots[i + n].payload = Base + (i + n) /\ slots[i + n].seq = (slots[i + n].payload - 1) % SeqSpace
      BY <3>1, StreamFacts DEF SenderInv
    <3>3. slots'[i] = marked[i + n]
      BY <1>7
    <3>4. marked[i + n].payload = Base' + i /\ marked[i + n].seq = (marked[i + n].payload - 1) % SeqSpace
      BY <3>1, <3>2, <1>3
    <3>5. marked[i + n].acked => Base' + i <= Done
      BY <3>1, <1>5
    <3> QED BY <3>3, <3>4, <3>5
  <2>2. window_base' = Base' % SeqSpace
    <3>1. Base \in Int /\ n \in Int
      BY <1>6, StreamFacts
    <3> QED BY <3>1, <1>1, <1>8, WrappingAddMod DEF SenderInv
  <2>3. Len(slots') <= sent'
    BY <1>2, <1>6, <1>7, StreamFacts
  <2> QED BY <2>1, <2>2, <2>3, <1>2, <1>7, <1>8 DEF SenderInv
<1>12. ReceiverInv'
  <2>1. \A p : Numbered(p)' <=> Numbered(p)
    BY <1>2 DEF Numbered
  <2> QED BY <1>2, <1>8, <1>9, <2>1 DEF ReceiverInv
<1>13. BufferInv'
  <2>1. Ahead' <=> Ahead
    BY <1>2, <1>8 DEF Ahead, Held
  <2>2. ASSUME NEW h \in Nat, Hole(h) PROVE Hole(h)'
    <3>1. h - Base \in 1..Len(slots) /\ Base + (h - Base) = h
      BY <2>2, StreamFacts DEF Hole
    <3>2. ~ marked[h - Base].acked
      BY <2>2, <3>1, <1>5 DEF Hole
    <3>3. h - Base > n
      BY <3>1, <3>2, <1>6, StreamFacts
    <3>4. h - Base' \in 1..Len(slots) - n /\ h - Base' + n = h - Base /\ Base' < h
      BY <3>1, <3>3, <1>6, <1>8, StreamFacts
    <3>5. ~ slots'[h - Base'].acked
      BY <3>2, <3>4, <1>7
    <3> QED BY <2>2, <3>4, <3>5, <1>2, <1>8 DEF Hole
  <2>3. \A h \in Nat : (Stuck(h)' <=> Stuck(h)) /\ (Near(h)' <=> Near(h))
    BY <1>2, <1>8 DEF Stuck, Near, Held
  <2> QED BY <2>1, <2>2, <2>3 DEF BufferInv
<1>14. Base <= Base'
  BY <1>6, <1>8, StreamFacts
<1> QED BY <1>2, <1>8, <1>9, <1>10, <1>11, <1>12, <1>13, <1>14

-----------------------------------------------------------------------------
(* The receiver's steps.                                                    *)

\* The distance of a packet that is still around tells what is awaited, what is to be
\* buffered and what was delivered.
LEMMA PacketDistance ==
    ASSUME StreamInv, NEW p \in packets, Fresh(p.payload)
    PROVE  /\ p \in Datagram /\ p.payload \in 1..sent /\ p.seq = (p.payload - 1) % SeqSpace
           /\ p.payload > Done => WrappingSub(p.seq, next_expected) = p.payload - 1 - Done
           /\ p.payload <= Done => WrappingSub(p.seq, next_expected) > WINDOW_SIZE
<1> USE DEF StreamInv
<1>1. p \in Datagram /\ p.payload \in 1..sent /\ p.seq = (p.payload - 1) % SeqSpace
  BY DEF StreamTypes, ReceiverInv, Numbered
<1>2. PICK x \in Nat : x = p.payload /\ x <= sent /\ sent - x < Lifetime
  BY <1>1, StreamFacts DEF Fresh
<1>3. PICK d \in Nat : d = Done /\ next_expected = d % SeqSpace /\ d <= sent /\ sent <= d + WINDOW_SIZE
  BY StreamFacts, SpaceFacts DEF ReceiverInv
<1>4. PICK y \in Int : y = (x - 1) - d
  OBVIOUS
<1>5. WrappingSub(p.seq, next_expected) = y % SeqSpace
  <2>1. x - 1 \in Int /\ d \in Int
    OBVIOUS
  <2> QED BY <1>1, <1>2, <1>3, <1>4, <2>1, WrappingSubMod
<1>6. sent \in Nat
  BY StreamFacts
<1>7. CASE x > d
  <2>1. y \in 0..SeqSpace - 1
    BY <1>2, <1>3, <1>4, <1>6, <1>7, SpaceFacts
  <2> QED BY <1>1, <1>2, <1>3, <1>4, <1>5, <1>7, <2>1, ModSmall
<1>8. CASE x <= d
  <2>1. y < 0 /\ -SeqSpace <= y /\ y + SeqSpace > WINDOW_SIZE
    BY <1>2, <1>3, <1>4, <1>6, <1>8, SpaceFacts
  <2> QED BY <1>1, <1>2, <1>3, <1>4, <1>5, <1>8, <2>1, ModNegative
<1> QED BY <1>2, <1>3, <1>7, <1>8

\* Where the buffer's i-th packet is awaited.
LEMMA MatchFacts ==
    ASSUME StreamInv, NEW i \in 1..Len(ooo_buffer), NEW d \in Nat, d = Done
    PROVE  (ooo_buffer[i].seq = WrappingAdd(WrappingAdd(next_expected, 1), i - 1))
              <=> ((Held(i) - 1) % SeqSpace = (d + i) % SeqSpace)
<1> USE DEF StreamInv
<1>1. next_expected = d % SeqSpace
  BY DEF ReceiverInv
<1>2. i \in Int /\ i - 1 \in Int /\ d \in Int /\ d + 1 \in Int
  BY StreamFacts
<1>3. WrappingAdd(next_expected, 1) = (d + 1) % SeqSpace
  BY <1>1, <1>2, WrappingAddMod
<1>4. WrappingAdd(WrappingAdd(next_expected, 1), i - 1) = ((d + 1) + (i - 1)) % SeqSpace
  BY <1>2, <1>3, WrappingAddMod
<1>5. (d + 1) + (i - 1) = d + i
  BY <1>2
<1> QED BY <1>4, <1>5, StreamFacts

\* When the awaited packet arrives, the packets taken from the buffer are the next ones,
\* and only one as long as there is no hole.
LEMMA RunFacts ==
    ASSUME StreamInv, NEW d \in Nat, d = Done, d + 1 <= sent, sent - (d + 1) < Lifetime,
           NEW k, k = Drained(WrappingAdd(next_expected, 1))
    PROVE  /\ k \in 0..Len(ooo_buffer)
           /\ \A i \in 1..k : Held(i) = d + 1 + i
           /\ Ahead => \/ k = 0 /\ (Len(ooo_buffer) > 0 => Held(1) > d + 2)
                       \/ k = 1 /\ Held(1) = d + 2 /\ (Len(ooo_buffer) >= 2 => Held(2) <= d + 1 /\ d + 2 - Held(2) < Lifetime)
           /\ \A h \in Nat : Hole(h) /\ Stuck(h) => k = 0
<1> USE DEF StreamInv
<1>1. PICK n \in Nat : n = Len(ooo_buffer) /\ DOMAIN ooo_buffer = 1..n
  BY StreamFacts
<1>2. PICK P : P = {i \in DOMAIN ooo_buffer : ooo_buffer[i].seq = WrappingAdd(WrappingAdd(next_expected, 1), i - 1)}
  OBVIOUS
<1>3. /\ P \subseteq 1..n
      /\ \A i \in 1..n : i \in P <=> (Held(i) - 1) % SeqSpace = (d + i) % SeqSpace
  BY <1>1, <1>2, MatchFacts
<1>4. k = FrontRun(P)
  BY <1>2 DEF Drained
<1>5. k \in 0..n /\ (\A i \in 1..k : i \in P) /\ (1 \in P => k >= 1)
  BY <1>3, <1>4, FrontRunFacts
<1>6. /\ sent \in Nat /\ d <= sent /\ sent <= d + WINDOW_SIZE
      /\ \A i \in 1..n : Held(i) \in Nat /\ Held(i) <= sent /\ Held(i) >= 1
  BY <1>1, StreamFacts, SpaceFacts
\* Positions whose payload is less than a sequence space from the one awaited match
\* only when they hold it.
<1>7. ASSUME NEW i \in 1..n, i \in P, Held(i) - (d + 1 + i) < SeqSpace, (d + 1 + i) - Held(i) < SeqSpace
      PROVE  Held(i) = d + 1 + i
  <2>1. PICK a \in Int, b \in Int : a = Held(i) - 1 /\ b = d + i
    BY <1>6
  <2>2. a % SeqSpace = b % SeqSpace
    BY <1>3, <1>7, <2>1
  <2>3. a - b < SeqSpace /\ b - a < SeqSpace
    BY <1>6, <1>7, <2>1, SpaceFacts
  <2>4. a = b
    BY <2>2, <2>3, ModUnique
  <2> QED BY <1>6, <2>1, <2>4
<1>8. ASSUME Ahead
      PROVE  \/ k = 0 /\ (n > 0 => Held(1) > d + 2)
             \/ k = 1 /\ Held(1) = d + 2 /\ (n >= 2 => Held(2) <= d + 1 /\ d + 2 - Held(2) < Lifetime)
  <2>1. CASE n = 0
    BY <2>1, <1>5
  <2>2. CASE n > 0
    <3>1. /\ Held(1) >= d + 2
          /\ n >= 2 => Held(2) < Held(1) /\ (Held(2) >= d + 1 \/ Held(1) - Held(2) < Lifetime)
      BY <1>1, <1>8, <2>2 DEF Ahead
    <3>2. 1 \in 1..n /\ Held(1) \in Nat /\ Held(1) <= sent
      BY <1>6, <2>2
    <3>3. CASE 1 \in P
      <4>1. Held(1) = d + 2
        <5>1. Held(1) - (d + 1 + 1) < SeqSpace /\ (d + 1 + 1) - Held(1) < SeqSpace
          BY <1>6, <3>1, <3>2, SpaceFacts
        <5> QED BY <1>7, <3>2, <3>3, <5>1
      <4>2. ASSUME n >= 2 PROVE Held(2) <= d + 1 /\ d + 2 - Held(2) < Lifetime /\ 2 \notin P
        <5>1. 2 \in 1..n /\ Held(2) \in Nat /\ Held(2) < d + 2
          BY <1>6, <3>1, <4>1, <4>2
        <5>2. Lifetime > 1
          BY <1>6, <3>2, <4>1, SpaceFacts
        <5>3. d + 2 - Held(2) < Lifetime
          BY <3>1, <4>1, <4>2, <5>1, <5>2, SpaceFacts
        <5>4. 2 \notin P
          <6>1. SUFFICES ASSUME 2 \in P PROVE FALSE
            OBVIOUS
          <6>2. Held(2) - (d + 1 + 2) < SeqSpace /\ (d + 1 + 2) - Held(2) < SeqSpace
            BY <5>1, <5>3, SpaceFacts
          <6>3. Held(2) = d + 1 + 2
            BY <1>7, <5>1, <6>1, <6>2
          <6> QED BY <5>1, <6>3
        <5> QED BY <5>1, <5>3, <5>4
      <4>3. k = 1
        <5>1. k < 2
          BY <1>1, <1>3, <1>5, <4>2
        <5> QED BY <1>5, <3>3, <5>1
      <4> QED BY <4>1, <4>2, <4>3
    <3>4. CASE 1 \notin P
      <4>1. k = 0
        BY <1>1, <1>5, <3>4
      <4>2. Held(1) # d + 2
        <5>1. SUFFICES ASSUME Held(1) = d + 2 PROVE FALSE
          OBVIOUS
        <5>2. Held(1) - 1 = d + 1
          BY <5>1
        <5> QED BY <1>3, <3>2, <3>4, <5>2
      <4> QED BY <3>1, <3>2, <4>1, <4>2
    <3> QED BY <3>3, <3>4
  <2> QED BY <1>1, <2>1, <2>2
<1>9. ASSUME NEW h \in Nat, Hole(h), Stuck(h) PROVE k = 0
  <2>1. h < d /\ d < h + WINDOW_SIZE
    BY <1>9, StreamFacts, SpaceFacts DEF Hole
  <2>2. 1 \in 1..n /\ Held(1) <= d /\ Held(1) > h + 1 - Lifetime /\ Held(1) \in Nat
    BY <1>1, <1>6, <1>9 DEF Stuck
  <2>3. 1 \notin P
    <3>1. SUFFICES ASSUME 1 \in P PROVE FALSE
      OBVIOUS
    <3>2. Held(1) - (d + 1 + 1) < SeqSpace /\ (d + 1 + 1) - Held(1) < SeqSpace
      BY <2>1, <2>2, SpaceFacts
    <3>3. Held(1) = d + 1 + 1
      BY <1>7, <2>2, <3>1, <3>2
    <3> QED BY <2>2, <3>3
  <2> QED BY <1>1, <1>5, <2>3
\* In the window after a hole the packets follow each other.
<1>10. ASSUME NEW h \in Nat, Hole(h), Near(h) PROVE \A i \in 1..k : Held(i) = d + 1 + i
  <2>1. h < d /\ d < h + WINDOW_SIZE
    BY <1>10, StreamFacts, SpaceFacts DEF Hole
  <2>2. \A i \in 1..n : Held(i) \in h + 1..h + WINDOW_SIZE
    BY <1>1, <1>10 DEF Near
  <2> DEFINE Bad == {i \in Nat : i \in 1..k /\ Held(i) # d + 1 + i}
  <2>3. SUFFICES ASSUME Bad # {} PROVE FALSE
    BY <1>5
  <2>4. PICK i \in Bad : \A j \in Bad : i <= j
    BY <2>3, LeastNat
  <2>5. i \in 1..n /\ i \in 1..k /\ i \in P /\ i \in Nat /\ Held(i) # d + 1 + i
    BY <1>1, <1>5, <2>4
  <2>6. d + 1 + i <= h + WINDOW_SIZE + 1
    <3>1. CASE i = 1
      BY <2>1, <3>1, SpaceFacts
    <3>2. CASE i # 1
      <4>1. i - 1 \in Nat /\ i - 1 \in 1..k /\ i - 1 \in 1..n /\ i - 1 \notin Bad
        BY <1>1, <1>5, <2>4, <2>5, <3>2
      <4>2. Held(i - 1) = d + i
        BY <4>1, <2>5
      <4>3. Held(i - 1) \in h + 1..h + WINDOW_SIZE
        BY <2>2, <4>1
      <4> QED BY <4>2, <4>3, <2>5, SpaceFacts
    <3> QED BY <3>1, <3>2
  <2>7. Held(i) \in h + 1..h + WINDOW_SIZE
    BY <2>2, <2>5
  <2>8. Held(i) - (d + 1 + i) < SeqSpace /\ (d + 1 + i) - Held(i) < SeqSpace
    BY <2>1, <2>5, <2>6, <2>7, SpaceFacts
  <2> QED BY <1>7, <2>5, <2>8
<1>11. \A i \in 1..k : Held(i) = d + 1 + i
  <2>1. CASE Ahead
    BY <1>8, <2>1
  <2>2. CASE \E h \in Nat : Hole(h) /\ (Stuck(h) \/ Near(h))
    BY <1>9, <1>10, <2>2
  <2> QED BY <2>1, <2>2 DEF BufferInv
<1> QED BY <1>1, <1>5, <1>8, <1>9, <1>11

LEMMA LaterHole ==
    ASSUME StreamInv, UNCHANGED senderVars, Done' \in Nat, Done <= Done',
           \A a \in acks' : a \in acks \/ a.upto = Done',
           NEW h \in Nat, Hole(h)
    PROVE  Hole(h)'
<1> USE DEF StreamInv
<1>1. Base' = Base /\ slots' = slots
  BY DEF Base, senderVars
<1>2. h < Done /\ Done \in Nat
  BY StreamFacts DEF Hole
<1> QED BY <1>1, <1>2 DEF Hole

\* The invariant of the sender and what it says of packets and acknowledgements, after
\* a step of the receiver.
LEMMA ReceiverFrame ==
    ASSUME StreamInv, UNCHANGED <<senderVars, packets, streamLost>>, Done' \in Nat, Done <= Done', Done' <= sent,
           delivered' \in Seq(Payload), \A i \in 1..Done' : delivered'[i] = i,
           next_expected' = Done' % SeqSpace,
           ooo_buffer' \in Seq(Datagram), \A i \in DOMAIN ooo_buffer' : Numbered(ooo_buffer'[i]),
           acks' = acks \cup {AckInfo(next_expected', Len(delivered'))}
    PROVE  /\ StreamTypes' /\ SenderInv' /\ ReceiverInv'
           /\ \A a \in acks' : a \in acks \/ a.upto = Done'
<1> USE DEF StreamInv
<1>1. /\ UNCHANGED <<sent, next_seq, window_base, slots, packets, streamLost>>
      /\ Base' = Base
  BY DEF senderVars, Base
<1>2. StreamTypes'
  BY <1>1 DEF StreamTypes
<1>3. SenderInv'
  <2>1. Done \in Nat /\ Base \in Nat /\ DOMAIN slots = 1..Len(slots) /\ Len(slots) \in Nat
    BY StreamFacts
  <2> QED BY <1>1, <2>1 DEF SenderInv
<1>4. PICK a : a = AckInfo(next_expected', Len(delivered'))
  OBVIOUS
<1>5. a.upto = Done' /\ a.seq = (a.upto - 1) % SeqSpace /\ a.bitmap = {}
  <2>1. PICK d \in Nat : d = Done'
    OBVIOUS
  <2>2. WrappingSub(d % SeqSpace, 1) = (d - 1) % SeqSpace
    <3>1. 1 % SeqSpace = 1
      BY SpaceFacts, ModSmall
    <3>2. WrappingSub(d % SeqSpace, 1 % SeqSpace) = (d - 1) % SeqSpace
      BY WrappingSubMod
    <3> QED BY <3>1, <3>2
  <2> QED BY <1>4, <2>1, <2>2 DEF AckInfo, Done
<1>6. \A b \in acks' : b \in acks \/ b = a
  BY <1>4
<1>7. ReceiverInv'
  <2>1. \A p : Numbered(p)' <=> Numbered(p)
    BY <1>1 DEF Numbered
  <2>2. \A b \in acks' : b.upto \in 0..Done' /\ b.seq = (b.upto - 1) % SeqSpace /\ b.bitmap = {}
    <3>1. SUFFICES ASSUME NEW b \in acks' PROVE b.upto \in 0..Done' /\ b.seq = (b.upto - 1) % SeqSpace /\ b.bitmap = {}
      OBVIOUS
    <3>2. CASE b \in acks
      <4>1. b.upto \in 0..Done /\ b.seq = (b.upto - 1) % SeqSpace /\ b.bitmap = {}
        BY <3>2 DEF ReceiverInv
      <4>2. Done \in Nat
        BY StreamFacts
      <4> QED BY <4>1, <4>2
    <3>3. CASE b = a
      BY <3>3, <1>5
    <3> QED BY <1>6, <3>2, <3>3
  <2>3. Base' <= Done'
    BY <1>1, StreamFacts
  <2> QED BY <1>1, <2>1, <2>2, <2>3 DEF ReceiverInv
<1> QED BY <1>2, <1>3, <1>5, <1>6, <1>7

\* The awaited packet arrives.
LEMMA HandStep ==
    ASSUME StreamInv, NEW p \in packets, Deliver(p), p.payload = Done + 1
    PROVE  StreamInv' /\ UNCHANGED <<sent, Base>> /\ Done' \in Nat /\ Done' > Done /\ Done' <= sent
<1> USE DEF StreamInv
<1>1. PICK d \in Nat : d = Done
  BY StreamFacts
<1>2. Fresh(p.payload) /\ UNCHANGED <<senderVars, packets, streamLost>>
      /\ acks' = acks \cup {AckInfo(next_expected', Len(delivered'))}
  BY DEF Deliver
<1>3. /\ WrappingSub(p.seq, next_expected) = 0 /\ p.payload = d + 1 /\ d + 1 <= sent
      /\ sent - (d + 1) < Lifetime /\ d + 1 \in Payload
  <2>1. p.payload = d + 1 /\ p.payload \in 1..sent /\ sent \in Nat /\ sent <= MaxSend /\ MaxSend \in Nat
    BY <1>1, <1>2, PacketDistance, StreamFacts, SpaceFacts
  <2>2. WrappingSub(p.seq, next_expected) = p.payload - 1 - Done
    BY <1>1, <1>2, <2>1, PacketDistance
  <2>3. sent - p.payload < Lifetime
    BY <1>2 DEF Fresh
  <2>4. p.payload - 1 - Done = 0
    BY <1>1, <2>1
  <2>5. d + 1 <= sent /\ d + 1 \in Payload
    BY <2>1 DEF Payload
  <2> QED BY <2>1, <2>2, <2>3, <2>4, <2>5
<1>4. PICK k : k = Drained(WrappingAdd(next_expected, 1))
  OBVIOUS
<1>5. /\ k \in 0..Len(ooo_buffer)
      /\ \A i \in 1..k : Held(i) = d + 1 + i
      /\ Ahead => \/ k = 0 /\ (Len(ooo_buffer) > 0 => Held(1) > d + 2)
                  \/ k = 1 /\ Held(1) = d + 2 /\ (Len(ooo_buffer) >= 2 => Held(2) <= d + 1 /\ d + 2 - Held(2) < Lifetime)
      /\ \A h \in Nat : Hole(h) /\ Stuck(h) => k = 0
  BY <1>1, <1>3, <1>4, RunFacts
<1>6. PICK n \in Nat : n = Len(ooo_buffer) /\ DOMAIN ooo_buffer = 1..n
  BY StreamFacts
<1>7. /\ next_expected' = WrappingAdd(next_expected, 1 + k)
      /\ delivered' = delivered \o <<p.payload>> \o [i \in 1..(1 + k) - 1 |-> ooo_buffer[i].payload]
      /\ ooo_buffer' = Drop(ooo_buffer, (1 + k) - 1)
  <2>1. PICK dist : dist = WrappingSub(p.seq, next_expected)
    OBVIOUS
  <2>2. dist = 0 /\ ~ (dist \in 1..WINDOW_SIZE) /\ ~ (dist > WINDOW_SIZE)
    BY <1>3, <2>1, SpaceFacts
  <2> QED BY <1>4, <2>1, <2>2 DEF Deliver
<1>8. k \in Nat /\ k <= n /\ (1 + k) - 1 = k
  BY <1>5, <1>6
<1>9. next_expected' = (d + (1 + k)) % SeqSpace
  <2>1. d \in Int /\ 1 + k \in Int
    BY <1>8
  <2> QED BY <1>1, <1>7, <2>1, WrappingAddMod DEF ReceiverInv
<1>10. /\ delivered' \in Seq(Payload) /\ Done' = d + 1 + k
       /\ \A i \in 1..d + 1 + k : delivered'[i] = i
  <2>1. PICK run : run = [i \in 1..k |-> ooo_buffer[i].payload]
    OBVIOUS
  <2>2. \A i \in 1..k : run[i] = d + 1 + i /\ run[i] \in Payload
    <3>1. SUFFICES ASSUME NEW i \in 1..k PROVE run[i] = d + 1 + i /\ run[i] \in Payload
      OBVIOUS
    <3>2. i \in 1..Len(ooo_buffer)
      BY <1>6, <1>8
    <3>3. ooo_buffer[i] \in Datagram
      BY <3>2, StreamFacts
    <3>4. run[i] = ooo_buffer[i].payload
      BY <2>1
    <3>5. ooo_buffer[i].payload \in Payload
      BY <3>3 DEF Datagram
    <3>6. ooo_buffer[i].payload = d + 1 + i
      BY <1>5 DEF Held
    <3> QED BY <3>4, <3>5, <3>6
  <2>3. run \in Seq(Payload) /\ Len(run) = k
    <3>1. run \in [1..k -> Payload]
      BY <2>1, <2>2
    <3> QED BY <1>8, <3>1, MapSeq
  <2>4. delivered \in Seq(Payload) /\ Len(delivered) = d /\ \A i \in 1..d : delivered[i] = i
    BY <1>1, StreamFacts DEF Done, ReceiverInv
  <2>5. PICK first : first = delivered \o <<d + 1>>
    OBVIOUS
  <2>6. first \in Seq(Payload) /\ Len(first) = d + 1 /\ first[d + 1] = d + 1 /\ \A i \in 1..d : first[i] = i
    BY <1>3, <2>4, <2>5
  <2>7. delivered' = first \o run
    BY <1>3, <1>7, <1>8, <2>1, <2>5
  <2>8. /\ delivered' \in Seq(Payload) /\ Len(delivered') = d + 1 + k
        /\ \A i \in 1..d + 1 : delivered'[i] = first[i]
        /\ \A i \in d + 2..d + 1 + k : delivered'[i] = run[i - (d + 1)]
    <3> HIDE <1>7
    <3> QED BY <1>8, <2>3, <2>6, <2>7
  <2>9. ASSUME NEW i \in 1..d + 1 + k PROVE delivered'[i] = i
    <3>1. CASE i \in 1..d + 1
      BY <2>6, <2>8, <3>1
    <3>2. CASE i \in d + 2..d + 1 + k
      <4>1. i - (d + 1) \in 1..k /\ d + 1 + (i - (d + 1)) = i
        BY <1>8, <3>2
      <4> QED BY <2>2, <2>8, <3>2, <4>1
    <3> QED BY <1>8, <3>1, <3>2
  <2> QED BY <2>8, <2>9 DEF Done
<1>11. /\ ooo_buffer' \in Seq(Datagram) /\ Len(ooo_buffer') = n - k /\ DOMAIN ooo_buffer' = 1..n - k
       /\ \A i \in 1..n - k : ooo_buffer'[i] = ooo_buffer[i + k] /\ i + k \in 1..n
  <2>1. ooo_buffer \in Seq(Datagram) /\ k \in 0..Len(ooo_buffer)
    BY <1>5, StreamFacts
  <2>2. ooo_buffer' = Drop(ooo_buffer, k)
    BY <1>7, <1>8
  <2>3. /\ ooo_buffer' \in Seq(Datagram) /\ Len(ooo_buffer') = Len(ooo_buffer) - k
        /\ \A i \in 1..Len(ooo_buffer) - k : ooo_buffer'[i] = ooo_buffer[i + k]
    BY <2>1, <2>2, DropFacts
  <2> QED BY <1>6, <1>8, <2>3
<1>12. d + 1 + k <= sent
  <2>1. CASE k = 0
    BY <1>3, <2>1
  <2>2. CASE k # 0
    <3>1. k \in 1..k /\ k \in 1..Len(ooo_buffer)
      BY <1>5, <1>6, <1>8, <2>2
    <3> QED BY <1>5, <3>1, StreamFacts
  <2> QED BY <2>1, <2>2
<1>13. /\ StreamTypes' /\ SenderInv' /\ ReceiverInv'
       /\ \A a \in acks' : a \in acks \/ a.upto = Done'
  <2>1. Done' \in Nat /\ Done <= Done' /\ Done' <= sent
    BY <1>1, <1>8, <1>10, <1>12
  <2>2. next_expected' = Done' % SeqSpace
    <3>1. d + (1 + k) = d + 1 + k
      BY <1>8
    <3> QED BY <1>9, <1>10, <3>1
  <2>3. \A i \in DOMAIN ooo_buffer' : Numbered(ooo_buffer'[i])
    BY <1>6, <1>11 DEF ReceiverInv
  <2> QED BY <1>2, <1>10, <1>11, <2>1, <2>2, <2>3, ReceiverFrame
<1>14. UNCHANGED <<sent, Base>> /\ Base <= d /\ slots' = slots
  BY <1>1, <1>2, StreamFacts DEF senderVars, Base
<1>15. ASSUME NEW h \in Nat, Hole(h) PROVE Hole(h)'
  BY <1>1, <1>2, <1>8, <1>10, <1>13, <1>15, LaterHole
<1>16. BufferInv'
  <2>1. CASE Ahead /\ k = 0
    <3>1. Len(ooo_buffer') = n /\ \A i \in 1..n : Held(i)' = Held(i)
      BY <1>8, <1>11, <2>1 DEF Held
    <3>2. CASE n = 0
      BY <3>1, <3>2 DEF BufferInv, Ahead
    <3>3. CASE n > 0
      <4>1. Held(1)' >= Done' + 2
        BY <1>5, <1>6, <1>10, <2>1, <3>1, <3>3, StreamFacts
      <4>2. ASSUME n >= 2
            PROVE  Held(2)' < Held(1)' /\ (Held(2)' >= Done' + 1 \/ Held(1)' - Held(2)' < Lifetime)
        <5>1. Held(2) < Held(1) /\ (Held(2) >= d + 1 \/ Held(1) - Held(2) < Lifetime)
          BY <1>1, <1>6, <2>1, <4>2 DEF Ahead
        <5>2. Held(2) \in Nat /\ Held(1) \in Nat /\ Held(1) <= sent /\ sent \in Nat
          BY <1>6, <4>2, StreamFacts
        <5>3. Held(2)' = Held(2) /\ Held(1)' = Held(1) /\ Done' = d + 1
          BY <1>10, <2>1, <3>1, <4>2
        <5> QED BY <1>3, <5>1, <5>2, <5>3, SpaceFacts
      <4> QED BY <3>1, <4>1, <4>2 DEF BufferInv, Ahead
    <3> QED BY <1>6, <3>2, <3>3
  <2>2. CASE Ahead /\ k = 1
    <3>1. Hole(d + 1)'
      <4>1. d + 1 - Base \in 1..Len(slots) /\ Base + (d + 1 - Base) = d + 1
        BY <1>3, <1>14, StreamFacts
      <4>2. ~ slots[d + 1 - Base].acked
        BY <1>1, <4>1, StreamFacts DEF SenderInv
      <4>3. Done' = d + 2
        BY <1>10, <2>2
      <4>4. \A a \in acks' : a.upto # d + 1
        <5>1. \A a \in acks : a.upto \in 0..d
          BY <1>1 DEF ReceiverInv
        <5> QED BY <1>13, <4>3, <5>1
      <4>5. Base' < d + 1 /\ d + 1 < Done'
        BY <1>14, <4>3, StreamFacts
      <4>6. ~ slots'[d + 1 - Base'].acked
        BY <1>14, <4>2
      <4>7. PICK h \in Nat : h = d + 1
        OBVIOUS
      <4>8. Hole(h)'
        <5>1. Base' < h /\ h < Done' /\ \A a \in acks' : a.upto # h
          BY <4>4, <4>5, <4>7
        <5>2. h - Base' = d + 1 - Base'
          BY <4>7, <1>14, StreamFacts
        <5>3. ~ slots'[h - Base'].acked
          BY <4>6, <5>2, Zenon
        <5> QED BY <5>1, <5>3 DEF Hole
      <4> QED BY <4>7, <4>8
    <3>2. Stuck(d + 1)' \/ Near(d + 1)'
      <4>1. CASE n = 1
        <5>1. DOMAIN ooo_buffer' = {}
          BY <1>11, <2>2, <4>1
        <5> QED BY <5>1 DEF Near
      <4>2. CASE n >= 2
        <5>1. Held(1)' = Held(2) /\ Len(ooo_buffer') > 0
          BY <1>11, <2>2, <4>2 DEF Held
        <5>2. Held(2) <= d + 1 /\ d + 2 - Held(2) < Lifetime /\ Held(2) \in Nat
          BY <1>5, <1>6, <2>2, <4>2, StreamFacts
        <5> QED BY <1>10, <2>2, <5>1, <5>2, SpaceFacts DEF Stuck
      <4> QED BY <1>6, <1>8, <2>2, <4>1, <4>2
    <3> QED BY <3>1, <3>2 DEF BufferInv
  <2>3. CASE \E h \in Nat : Hole(h) /\ (Stuck(h) \/ Near(h))
    <3>1. PICK h \in Nat : Hole(h) /\ (Stuck(h) \/ Near(h))
      BY <2>3
    <3>2. CASE Stuck(h)
      <4>1. k = 0
        BY <1>5, <3>1, <3>2
      <4>2. Len(ooo_buffer') > 0 /\ Held(1)' = Held(1)
        BY <1>6, <1>11, <3>2, <4>1 DEF Stuck, Held
      <4>3. Stuck(h)'
        BY <1>1, <1>10, <3>2, <4>1, <4>2, StreamFacts DEF Stuck
      <4> QED BY <1>15, <3>1, <4>3 DEF BufferInv
    <3>3. CASE Near(h)
      <4>1. Near(h)'
        BY <1>6, <1>11, <3>3 DEF Near, Held
      <4> QED BY <1>15, <3>1, <4>1 DEF BufferInv
    <3> QED BY <3>1, <3>2, <3>3
  <2> QED BY <1>5, <2>1, <2>2, <2>3 DEF BufferInv
<1>17. Done' \in Nat /\ Done' > Done /\ Done' <= sent
  BY <1>1, <1>8, <1>10, <1>12
<1> QED BY <1>13, <1>14, <1>16, <1>17

\* Where a packet is put: somewhere in the buffer or at its end, and at the front exactly
\* when the first buffered packet is less than dist behind.
LEMMA InsertPosFacts ==
    ASSUME StreamInv, NEW seq, NEW dist, dist = WrappingSub(seq, next_expected)
    PROVE  /\ InsertPos(seq) \in 1..Len(ooo_buffer) + 1
           /\ Len(ooo_buffer) > 0 => (InsertPos(seq) = 1 <=> WrappingSub(seq, ooo_buffer[1].seq) < dist)
<1> USE DEF StreamInv
<1>1. PICK n \in Nat : n = Len(ooo_buffer)
  BY StreamFacts
<1>2. PICK I : I = {i \in 1..Len(ooo_buffer) : WrappingSub(seq, ooo_buffer[i].seq) < dist}
  OBVIOUS
<1>3. SelectInSeq(ooo_buffer, LAMBDA q : WrappingSub(seq, q.seq) < dist) = IF I # {} THEN Min(I) ELSE 0
  BY <1>2 DEF SelectInSeq
<1>4. InsertPos(seq) = IF SelectInSeq(ooo_buffer, LAMBDA q : WrappingSub(seq, q.seq) < dist) = 0
                       THEN n + 1 ELSE SelectInSeq(ooo_buffer, LAMBDA q : WrappingSub(seq, q.seq) < dist)
  BY <1>1 DEF InsertPos
<1>5. CASE I = {}
  <2>1. InsertPos(seq) = n + 1
    BY <1>3, <1>4, <1>5
  <2> QED BY <1>1, <1>2, <1>5, <2>1
<1>6. CASE I # {}
  <2>1. \E x \in I : \A y \in I : x <= y
    <3>1. I \subseteq Nat
      BY <1>1, <1>2
    <3> QED BY <1>6, <3>1, LeastNat
  <2>2. Min(I) \in I /\ \A y \in I : Min(I) <= y
    BY <2>1 DEF Min
  <2>3. Min(I) \in 1..n
    BY <1>1, <1>2, <2>2
  <2>4. InsertPos(seq) = Min(I)
    BY <1>1, <1>3, <1>4, <1>6, <2>3
  <2>5. ASSUME n > 0 PROVE Min(I) = 1 <=> 1 \in I
    BY <1>1, <1>2, <2>2, <2>3, <2>5
  <2> QED BY <1>1, <1>2, <2>3, <2>4, <2>5
<1> QED BY <1>5, <1>6

\* A packet that is not yet awaited arrives.
LEMMA BufferStep ==
    ASSUME StreamInv, NEW p \in packets, Deliver(p), p.payload >= Done + 2
    PROVE  StreamInv' /\ UNCHANGED <<sent, Base, delivered>>
<1> USE DEF StreamInv
<1>1. PICK d \in Nat : d = Done
  BY StreamFacts
<1>2. PICK n \in Nat : n = Len(ooo_buffer) /\ DOMAIN ooo_buffer = 1..n
  BY StreamFacts
<1>3. Fresh(p.payload) /\ UNCHANGED <<senderVars, packets, streamLost>>
      /\ acks' = acks \cup {AckInfo(next_expected', Len(delivered'))}
  BY DEF Deliver
<1>4. p \in Datagram /\ p.payload \in 1..sent /\ p.seq = (p.payload - 1) % SeqSpace
  BY <1>3, PacketDistance
<1>5. sent \in Nat /\ sent <= d + WINDOW_SIZE
  BY <1>1, StreamFacts, SpaceFacts
<1>6. PICK x \in Nat : x = p.payload /\ x >= d + 2 /\ x <= sent
  BY <1>1, <1>4, <1>5
<1>7. PICK dist : dist = WrappingSub(p.seq, next_expected)
  OBVIOUS
<1>8. dist = x - 1 - d
  BY <1>1, <1>3, <1>6, <1>7, PacketDistance
<1>9. ooo_buffer' = Buffered(p) /\ UNCHANGED <<next_expected, delivered>>
  <2>1. dist # 0 /\ ~ (dist > WINDOW_SIZE)
    BY <1>5, <1>6, <1>8, SpaceFacts
  <2> QED BY <1>7, <2>1 DEF Deliver
<1>10. PICK pos \in 1..n + 1 :
          /\ pos = InsertPos(p.seq)
          /\ n > 0 => (pos = 1 <=> WrappingSub(p.seq, ooo_buffer[1].seq) < dist)
  BY <1>2, <1>7, InsertPosFacts
<1>11. \/ ooo_buffer' = ooo_buffer /\ pos <= n /\ ooo_buffer[pos].seq = p.seq
       \/ ooo_buffer' = InsertAt(ooo_buffer, pos, p) /\ ~ (pos <= n /\ ooo_buffer[pos].seq = p.seq)
  BY <1>2, <1>9, <1>10 DEF Buffered
<1>12. ASSUME ooo_buffer' = InsertAt(ooo_buffer, pos, p)
       PROVE  /\ ooo_buffer' \in Seq(Datagram) /\ Len(ooo_buffer') = n + 1 /\ DOMAIN ooo_buffer' = 1..n + 1
              /\ \A i \in 1..pos - 1 : ooo_buffer'[i] = ooo_buffer[i]
              /\ ooo_buffer'[pos] = p
              /\ \A i \in pos + 1..n + 1 : ooo_buffer'[i] = ooo_buffer[i - 1]
  <2>1. PICK b : b = ooo_buffer
    OBVIOUS
  <2>2. b \in Seq(Datagram) /\ pos \in 1..Len(b) + 1 /\ n = Len(b)
    BY <1>2, <2>1, StreamFacts
  <2>3. PICK c : c = InsertAt(b, pos, p)
    OBVIOUS
  <2>4. /\ c \in Seq(Datagram) /\ Len(c) = Len(b) + 1
        /\ \A i \in 1..pos - 1 : c[i] = b[i]
        /\ c[pos] = p
        /\ \A i \in pos + 1..Len(b) + 1 : c[i] = b[i - 1]
    <3>1. p \in Datagram
      BY <1>4
    <3> QED BY <3>1, <2>2, <2>3, InsertFacts
  <2>5. DOMAIN c = 1..n + 1
    BY <2>2, <2>4
  <2>6. ooo_buffer' = c
    BY <1>12, <2>1, <2>3
  <2> QED BY <2>1, <2>2, <2>4, <2>5, <2>6
<1>13. /\ ooo_buffer' \in Seq(Datagram)
       /\ \A i \in DOMAIN ooo_buffer' : ooo_buffer'[i] = p \/ \E j \in 1..n : ooo_buffer'[i] = ooo_buffer[j]
  <2>1. CASE ooo_buffer' = ooo_buffer
    BY <1>2, <2>1, StreamFacts
  <2>2. CASE ooo_buffer' = InsertAt(ooo_buffer, pos, p)
    <3>1. ASSUME NEW i \in 1..n + 1 PROVE ooo_buffer'[i] = p \/ \E j \in 1..n : ooo_buffer'[i] = ooo_buffer[j]
      <4>1. CASE i \in 1..pos - 1
        BY <1>12, <2>2, <4>1
      <4>2. CASE i = pos
        BY <1>12, <2>2, <4>2
      <4>3. CASE i \in pos + 1..n + 1
        <5>1. i - 1 \in 1..n
          BY <4>3
        <5> QED BY <1>12, <2>2, <4>3, <5>1
      <4> QED BY <4>1, <4>2, <4>3
    <3> QED BY <1>12, <2>2, <3>1
  <2> QED BY <1>11, <2>1, <2>2
<1>14. Done' = d /\ UNCHANGED <<sent, Base, slots>>
  BY <1>1, <1>3, <1>9 DEF Done, senderVars, Base
<1>15. /\ StreamTypes' /\ SenderInv' /\ ReceiverInv'
       /\ \A a \in acks' : a \in acks \/ a.upto = Done'
  <2>1. \A i \in DOMAIN ooo_buffer' : Numbered(ooo_buffer'[i])
    <3>1. Numbered(p) /\ \A j \in 1..n : Numbered(ooo_buffer[j])
      BY <1>2 DEF ReceiverInv
    <3> QED BY <1>13, <3>1
  <2>2. /\ Done' \in Nat /\ Done <= Done' /\ Done' <= sent
        /\ next_expected' = Done' % SeqSpace
        /\ delivered' \in Seq(Payload) /\ \A i \in 1..Done' : delivered'[i] = i
    BY <1>1, <1>9, <1>14, StreamFacts DEF ReceiverInv
  <2> QED BY <1>3, <1>13, <2>1, <2>2, ReceiverFrame
<1>16. ASSUME NEW h \in Nat, Hole(h) PROVE Hole(h)'
  BY <1>1, <1>3, <1>14, <1>15, <1>16, LaterHole
\* The distance from the first buffered packet.
<1>17. ASSUME n > 0
       PROVE  /\ Held(1) \in Nat /\ Held(1) <= sent
              /\ WrappingSub(p.seq, ooo_buffer[1].seq) = (x - Held(1)) % SeqSpace
              /\ x # Held(1) /\ x - Held(1) < SeqSpace /\ Held(1) - x < SeqSpace => ooo_buffer[1].seq # p.seq
  <2>1. PICK g \in Nat : g = Held(1) /\ g <= sent /\ ooo_buffer[1].seq = (g - 1) % SeqSpace
    BY <1>2, <1>5, <1>17, StreamFacts
  <2>2. x - 1 \in Int /\ g - 1 \in Int /\ (x - 1) - (g - 1) = x - g
    BY <2>1
  <2>3. WrappingSub((x - 1) % SeqSpace, (g - 1) % SeqSpace) = (x - g) % SeqSpace
    BY <2>2, WrappingSubMod
  <2>4. ASSUME x # g, x - g < SeqSpace, g - x < SeqSpace, (g - 1) % SeqSpace = (x - 1) % SeqSpace PROVE FALSE
    <3>1. (g - 1) - (x - 1) < SeqSpace /\ (x - 1) - (g - 1) < SeqSpace
      BY <2>1, <2>4, SpaceFacts
    <3>2. g - 1 = x - 1
      BY <2>2, <2>4, <3>1, ModUnique
    <3> QED BY <2>1, <2>4, <3>2
  <2>5. p.seq = (x - 1) % SeqSpace
    BY <1>4, <1>6
  <2> QED BY <2>1, <2>3, <2>4, <2>5
<1>18. BufferInv'
  <2>1. CASE Ahead
    <3>1. CASE n = 0
      <4>1. ooo_buffer' = InsertAt(ooo_buffer, pos, p) /\ pos = 1
        <5>1. pos = 1 /\ ~ (pos <= n)
          BY <3>1
        <5> QED BY <1>11, <5>1
      <4>2. Len(ooo_buffer') = 1 /\ ooo_buffer'[1] = p
        BY <1>12, <3>1, <4>1
      <4> QED BY <1>6, <1>14, <4>2 DEF BufferInv, Ahead, Held
    <3>2. CASE n > 0
      <4>1. PICK g \in Nat : g = Held(1) /\ g >= d + 2 /\ g <= sent
        BY <1>1, <1>2, <1>17, <2>1, <3>2 DEF Ahead
      <4>2. CASE ooo_buffer' = ooo_buffer
        BY <1>1, <1>14, <2>1, <4>2 DEF BufferInv, Ahead, Held
      <4>3. CASE ooo_buffer' = InsertAt(ooo_buffer, pos, p) /\ x > g
        <5>1. x - g \in 0..SeqSpace - 1
          BY <1>5, <1>6, <4>1, <4>3, SpaceFacts
        <5>2. pos = 1
          BY <1>6, <1>8, <1>10, <1>17, <3>2, <4>1, <5>1, ModSmall
        <5>3. Len(ooo_buffer') = n + 1 /\ ooo_buffer'[1] = p /\ ooo_buffer'[2] = ooo_buffer[1]
          BY <1>12, <3>2, <4>3, <5>2
        <5> QED BY <1>6, <1>14, <3>2, <4>1, <4>3, <5>3 DEF BufferInv, Ahead, Held
      <4>4. CASE ooo_buffer' = InsertAt(ooo_buffer, pos, p) /\ x = g
        <5>1. x - g = 0 /\ 0 % SeqSpace = 0
          BY <4>4, SpaceFacts, ModSmall
        <5>2. pos = 1
          BY <1>6, <1>8, <1>10, <1>17, <3>2, <4>1, <5>1
        <5>3. ooo_buffer[1].seq = p.seq
          BY <1>2, <1>4, <1>6, <3>2, <4>1, <4>4, StreamFacts
        <5>4. ooo_buffer' = ooo_buffer
          BY <1>2, <1>11, <3>2, <5>2, <5>3
        <5> QED BY <4>2, <5>4
      <4>5. CASE ooo_buffer' = InsertAt(ooo_buffer, pos, p) /\ x < g
        <5>1. PICK y \in Int : y = x - g
          OBVIOUS
        <5>2. y < 0 /\ -SeqSpace <= y /\ ~ (y + SeqSpace < dist)
          BY <1>5, <1>6, <1>8, <4>1, <4>5, <5>1, SpaceFacts
        <5>3. pos # 1
          BY <1>10, <1>17, <3>2, <4>1, <5>1, <5>2, ModNegative
        <5>4. Len(ooo_buffer') = n + 1 /\ ooo_buffer'[1] = ooo_buffer[1]
          BY <1>12, <4>5, <5>3
        <5>5. ooo_buffer'[2] = p \/ (n >= 2 /\ ooo_buffer'[2] = ooo_buffer[2])
          <6>1. CASE pos = 2
            BY <1>12, <4>5, <6>1
          <6>2. CASE pos > 2
            BY <1>12, <4>5, <6>2
          <6> QED BY <5>3, <6>1, <6>2
        <5>6. CASE ooo_buffer'[2] = p
          BY <1>6, <1>14, <4>1, <4>5, <5>4, <5>6 DEF BufferInv, Ahead, Held
        <5>7. CASE n >= 2 /\ ooo_buffer'[2] = ooo_buffer[2]
          <6>1. Held(2) < g /\ (Held(2) >= d + 1 \/ g - Held(2) < Lifetime)
            BY <1>1, <1>2, <2>1, <4>1, <5>7 DEF Ahead
          <6> QED BY <1>14, <4>1, <5>4, <5>7, <6>1 DEF BufferInv, Ahead, Held
        <5> QED BY <5>5, <5>6, <5>7
      <4> QED BY <1>11, <4>1, <4>2, <4>3, <4>4, <4>5
    <3> QED BY <3>1, <3>2
  <2>2. CASE \E h \in Nat : Hole(h) /\ (Stuck(h) \/ Near(h))
    <3>1. PICK h \in Nat : Hole(h) /\ (Stuck(h) \/ Near(h))
      BY <2>2
    <3>2. h < d /\ sent < h + WINDOW_SIZE
      BY <1>1, <3>1, StreamFacts, SpaceFacts DEF Hole
    <3>3. CASE Stuck(h)
      <4>1. n > 0 /\ Held(1) <= d /\ Held(1) > h + 1 - Lifetime
        BY <1>1, <1>2, <3>3 DEF Stuck
      <4>2. PICK g \in Nat : g = Held(1)
        BY <1>17, <4>1
      <4>3. x - g \in 0..SeqSpace - 1 /\ ~ (x - g < dist)
        BY <1>5, <1>6, <1>8, <3>2, <4>1, <4>2, SpaceFacts
      <4>4. pos # 1
        BY <1>10, <1>17, <4>1, <4>2, <4>3, ModSmall
      <4>5. Len(ooo_buffer') > 0 /\ ooo_buffer'[1] = ooo_buffer[1]
        <5>1. CASE ooo_buffer' = ooo_buffer
          BY <1>2, <4>1, <5>1
        <5>2. CASE ooo_buffer' = InsertAt(ooo_buffer, pos, p)
          BY <1>12, <4>4, <5>2
        <5> QED BY <1>11, <5>1, <5>2
      <4>6. Stuck(h)'
        BY <1>14, <4>1, <4>5 DEF Stuck, Held
      <4> QED BY <1>16, <3>1, <4>6 DEF BufferInv
    <3>4. CASE Near(h)
      <4>1. x \in h + 1..h + WINDOW_SIZE
        BY <1>5, <1>6, <3>2, SpaceFacts
      <4>2. \A j \in 1..n : ooo_buffer[j].payload \in h + 1..h + WINDOW_SIZE
        BY <1>2, <3>4 DEF Near, Held
      <4>3. Near(h)'
        BY <1>6, <1>13, <4>1, <4>2 DEF Near, Held
      <4> QED BY <1>16, <3>1, <4>3 DEF BufferInv
    <3> QED BY <3>1, <3>3, <3>4
  <2> QED BY <2>1, <2>2 DEF BufferInv
<1> QED BY <1>9, <1>14, <1>15, <1>18

\* A packet that was delivered arrives again.
LEMMA RepeatStep ==
    ASSUME StreamInv, NEW p \in packets, Deliver(p), p.payload <= Done
    PROVE  StreamInv' /\ UNCHANGED <<sent, Base, delivered>>
<1> USE DEF StreamInv
<1>1. Fresh(p.payload) /\ UNCHANGED <<senderVars, packets, streamLost>>
      /\ acks' = acks \cup {AckInfo(next_expected', Len(delivered'))}
  BY DEF Deliver
<1>2. WrappingSub(p.seq, next_expected) > WINDOW_SIZE
  BY <1>1, PacketDistance
<1>3. UNCHANGED <<next_expected, ooo_buffer, delivered>>
  <2>1. PICK dist : dist = WrappingSub(p.seq, next_expected)
    OBVIOUS
  <2>2. p.payload \in 1..sent /\ p.seq = (p.payload - 1) % SeqSpace
    BY <1>1, PacketDistance
  <2>3. dist \in Int
    <3>1. PICK x \in Int : x = p.payload - 1
      BY <2>2, StreamFacts
    <3>2. Done \in Int /\ next_expected = Done % SeqSpace
      BY StreamFacts DEF ReceiverInv
    <3>3. dist = (x - Done) % SeqSpace
      BY <2>1, <2>2, <3>1, <3>2, WrappingSubMod
    <3>4. x - Done \in Int
      BY <3>1, <3>2
    <3> QED BY <3>3, <3>4, ModFacts, SpaceFacts
  <2>4. dist # 0 /\ ~ (dist \in 1..WINDOW_SIZE)
    BY <1>2, <2>1, <2>3, SpaceFacts
  <2> QED BY <2>1, <2>4 DEF Deliver, receiverVars
<1>4. Done' = Done /\ UNCHANGED <<sent, Base, slots>>
  BY <1>1, <1>3 DEF Done, senderVars, Base
<1>5. /\ StreamTypes' /\ SenderInv' /\ ReceiverInv'
      /\ \A a \in acks' : a \in acks \/ a.upto = Done'
  <2>1. /\ Done' \in Nat /\ Done <= Done' /\ Done' <= sent
        /\ next_expected' = Done' % SeqSpace
        /\ delivered' \in Seq(Payload) /\ \A i \in 1..Done' : delivered'[i] = i
        /\ ooo_buffer' \in Seq(Datagram) /\ \A i \in DOMAIN ooo_buffer' : Numbered(ooo_buffer'[i])
    BY <1>3, <1>4, StreamFacts DEF ReceiverInv
  <2> QED BY <1>1, <2>1, ReceiverFrame
<1>6. BufferInv'
  <2>1. ASSUME NEW h \in Nat, Hole(h) PROVE Hole(h)'
    <3>1. Done \in Nat
      BY StreamFacts
    <3> QED BY <1>1, <1>4, <1>5, <2>1, <3>1, LaterHole
  <2>2. (Ahead' <=> Ahead) /\ \A h \in Nat : (Stuck(h)' <=> Stuck(h)) /\ (Near(h)' <=> Near(h))
    BY <1>3, <1>4 DEF Ahead, Stuck, Near, Held
  <2> QED BY <2>1, <2>2 DEF BufferInv
<1> QED BY <1>3, <1>4, <1>5, <1>6

LEMMA LoseStep ==
    ASSUME StreamInv, LosePacket
    PROVE  StreamInv' /\ UNCHANGED <<sent, Base, delivered>>
<1> USE DEF StreamInv
<1>1. /\ UNCHANGED <<sent, next_seq, window_base, slots, next_expected, ooo_buffer, delivered>>
      /\ packets' \subseteq packets /\ acks' \subseteq acks /\ streamLost < MaxStreamLoss /\ streamLost' = streamLost + 1
  BY DEF LosePacket, senderVars, receiverVars
<1>2. Done' = Done /\ Base' = Base
  BY <1>1 DEF Done, Base
<1>3. StreamTypes'
  BY <1>1, SpaceFacts DEF StreamTypes
<1>4. SenderInv'
  BY <1>1, <1>2 DEF SenderInv
<1>5. ReceiverInv'
  <2>1. \A p : Numbered(p)' <=> Numbered(p)
    BY <1>1 DEF Numbered
  <2> QED BY <1>1, <1>2, <2>1 DEF ReceiverInv
<1>6. BufferInv'
  <2>1. \A h \in Nat : Hole(h) => Hole(h)'
    BY <1>1, <1>2 DEF Hole
  <2>2. (Ahead' <=> Ahead) /\ \A h \in Nat : (Stuck(h)' <=> Stuck(h)) /\ (Near(h)' <=> Near(h))
    BY <1>1, <1>2 DEF Ahead, Stuck, Near, Held
  <2> QED BY <2>1, <2>2 DEF BufferInv
<1> QED BY <1>1, <1>2, <1>3, <1>4, <1>5, <1>6

LEMMA StutterStep ==
    ASSUME StreamInv, UNCHANGED streamVars
    PROVE  StreamInv' /\ UNCHANGED <<sent, Base, delivered>>
<1>1. UNCHANGED <<sent, next_seq, window_base, slots, next_expected, ooo_buffer, delivered, packets, acks, streamLost>>
  BY DEF streamVars, senderVars, receiverVars
<1>2. Done' = Done /\ Base' = Base
  BY <1>1 DEF Done, Base
<1>3. StreamTypes' /\ SenderInv' /\ ReceiverInv'
  BY <1>1, <1>2 DEF StreamInv, StreamTypes, SenderInv, ReceiverInv, Numbered
<1>4. BufferInv'
  <2>1. \A h \in Nat : Hole(h) => Hole(h)'
    BY <1>1, <1>2 DEF Hole
  <2>2. (Ahead' <=> Ahead) /\ \A h \in Nat : (Stuck(h)' <=> Stuck(h)) /\ (Near(h)' <=> Near(h))
    BY <1>1, <1>2 DEF Ahead, Stuck, Near, Held
  <2> QED BY <2>1, <2>2 DEF StreamInv, BufferInv
<1> QED BY <1>1, <1>2, <1>3, <1>4 DEF StreamInv

\* Every step preserves the invariant and is a step of the sliding window.
LEMMA StreamStep ==
    ASSUME StreamInv, [StreamNext]_streamVars
    PROVE  /\ StreamInv'
           /\ \/ sent' = sent + 1 /\ Base' = Base /\ delivered' = delivered /\ Base + WINDOW_SIZE > sent
              \/ sent' = sent /\ Base' = Base /\ Done' \in Nat /\ Done' > Done /\ Done' <= sent
              \/ sent' = sent /\ delivered' = delivered /\ Base' \in Nat /\ Base <= Base' /\ Base' <= Done
              \/ UNCHANGED <<sent, Base, delivered>>
<1>1. CASE Send
  BY <1>1, SendStep
<1>2. CASE Retransmit
  <2>1. PICK due \in SUBSET DOMAIN slots : PollRetransmit(due)
    BY <1>2 DEF Retransmit
  <2> QED BY <2>1, PollStep
<1>3. ASSUME NEW a \in acks, OnAck(a)
      PROVE  StreamInv' /\ sent' = sent /\ delivered' = delivered /\ Base' \in Nat /\ Base <= Base' /\ Base' <= Done
  BY <1>3, AckStep
<1>4. ASSUME NEW p \in packets, Deliver(p)
      PROVE  /\ StreamInv'
             /\ \/ sent' = sent /\ Base' = Base /\ Done' \in Nat /\ Done' > Done /\ Done' <= sent
                \/ UNCHANGED <<sent, Base, delivered>>
  <2>1. p.payload \in Nat /\ Done \in Nat
    <3>1. Fresh(p.payload)
      BY <1>4 DEF Deliver
    <3>2. p.payload \in 1..sent
      BY <3>1, PacketDistance
    <3> QED BY <3>2, StreamFacts DEF StreamInv
  <2>2. CASE p.payload = Done + 1
    BY <1>4, <2>2, HandStep
  <2>3. CASE p.payload >= Done + 2
    BY <1>4, <2>3, BufferStep
  <2>4. CASE p.payload <= Done
    BY <1>4, <2>4, RepeatStep
  <2> QED BY <2>1, <2>2, <2>3, <2>4
<1>5. CASE LosePacket
  BY <1>5, LoseStep
<1>6. CASE UNCHANGED streamVars
  BY <1>6, StutterStep
<1>7. Send \/ Retransmit \/ (\E p \in packets : Deliver(p)) \/ (\E a \in acks : OnAck(a)) \/ LosePacket \/ UNCHANGED streamVars
  BY DEF StreamNext, Receive
<1> QED BY <1>1, <1>2, <1>3, <1>4, <1>5, <1>6, <1>7

LEMMA StreamTypeOK == StreamInv => ReliableTypeOK
<1> SUFFICES ASSUME StreamInv PROVE ReliableTypeOK
  OBVIOUS
<1> USE DEF StreamInv
<1>1. next_seq \in Sequence /\ window_base \in Sequence /\ next_expected \in Sequence
  <2>1. sent \in Int /\ Base \in Int /\ Done \in Int
    BY StreamFacts
  <2>2. sent % SeqSpace \in Sequence /\ Base % SeqSpace \in Sequence /\ Done % SeqSpace \in Sequence
    BY <2>1, ModFacts DEF Sequence
  <2> QED BY <2>2 DEF SenderInv, ReceiverInv
<1>2. ASSUME NEW i \in Nat PROVE WrappingAdd(window_base, i) = (Base + i) % SeqSpace
  <2>1. Base \in Int /\ i \in Int /\ window_base = Base % SeqSpace
    BY StreamFacts DEF SenderInv
  <2> QED BY <2>1, WrappingAddMod
<1>3. WrappingAdd(window_base, Len(slots)) = next_seq
  BY <1>2, StreamFacts DEF SenderInv
<1>4. ASSUME NEW i \in DOMAIN slots PROVE slots[i].seq = WrappingAdd(window_base, i - 1)
  <2>1. PICK b \in Nat : b = Base /\ slots[i].payload = b + i /\ i - 1 \in Nat
    BY StreamFacts DEF SenderInv
  <2>2. slots[i].seq = (b + i - 1) % SeqSpace
    BY <2>1 DEF SenderInv
  <2>3. WrappingAdd(window_base, i - 1) = (b + (i - 1)) % SeqSpace
    BY <1>2, <2>1
  <2>4. b + (i - 1) = b + i - 1
    BY <2>1
  <2> QED BY <2>2, <2>3, <2>4
<1> QED BY <1>1, <1>3, <1>4 DEF StreamTypes, Slot, Datagram, ReliableTypeOK

\* Type correctness: the window holds at most WINDOW_SIZE packets, numbered without a
\* gap from window_base to next_seq, also across the wrap-around (send, on_ack).
THEOREM StreamTypeCorrect == StreamSpec => []ReliableTypeOK
<1>1. StreamInv /\ [StreamNext]_streamVars => StreamInv'
  BY StreamStep
<1> QED BY <1>1, StreamInit, StreamTypeOK, PTL DEF StreamSpec

LEMMA WindowInit == StreamStart => Window!Init
<1> SUFFICES ASSUME StreamStart PROVE Window!Init
  OBVIOUS
<1>1. sent = 0 /\ Len(slots) = 0 /\ delivered = <<>>
  BY DEF StreamStart
<1>2. sent - Len(slots) = 0
  BY <1>1
<1> QED BY <1>1, <1>2 DEF Window!Init

LEMMA WindowStep ==
    ASSUME StreamInv, StreamInv', [StreamNext]_streamVars
    PROVE  [Window!Next]_<<sent, sent - Len(slots), delivered>>
<1>1. Base = sent - Len(slots) /\ Base' = sent' - Len(slots')
  BY DEF Base
<1>2. CASE sent' = sent + 1 /\ Base' = Base /\ delivered' = delivered /\ Base + WINDOW_SIZE > sent
  <2>1. sent - Base < WINDOW_SIZE
    BY <1>2, StreamFacts, SpaceFacts DEF StreamInv
  <2> QED BY <1>1, <1>2, <2>1 DEF Window!Next, Window!Accept
<1>3. CASE sent' = sent /\ Base' = Base /\ Done' \in Nat /\ Done' > Done /\ Done' <= sent
  <2>1. PICK n \in Nat : n = Done'
    BY <1>3
  <2>2. delivered' = [i \in 1..n |-> i]
    <3>1. delivered' \in Seq(Payload) /\ Len(delivered') = n /\ \A i \in 1..n : delivered'[i] = i
      BY <2>1 DEF StreamInv, StreamTypes, ReceiverInv, Done
    <3>2. DOMAIN delivered' = 1..n /\ delivered' = [i \in 1..n |-> delivered'[i]]
      BY <3>1
    <3> QED BY <3>1, <3>2
  <2>3. n \in Len(delivered) + 1..sent
    BY <1>3, <2>1, StreamFacts DEF StreamInv, Done
  <2> QED BY <1>1, <1>3, <2>2, <2>3 DEF Window!Next, Window!Hand
<1>4. CASE sent' = sent /\ delivered' = delivered /\ Base' \in Nat /\ Base <= Base' /\ Base' <= Done
  <2>1. CASE Base' = Base
    BY <1>1, <1>4, <2>1
  <2>2. CASE Base' # Base
    <3>1. Base' \in Base + 1..Len(delivered)
      BY <1>4, <2>2, StreamFacts DEF StreamInv, Done
    <3> QED BY <1>1, <1>4, <3>1 DEF Window!Next, Window!Release
  <2> QED BY <2>1, <2>2
<1>5. CASE UNCHANGED <<sent, Base, delivered>>
  BY <1>1, <1>5
<1> QED BY <1>2, <1>3, <1>4, <1>5, StreamStep

\* The reliable layer implements the sliding window: whatever is lost, repeated or
\* reordered, payloads reach the application in order, none missing and none twice, and
\* the sender forgets only what was handed over (send, on_ack, poll_retransmit,
\* deliver, ack_info).
THEOREM StreamImplementsWindow == StreamSpec => ImplementsWindow
<1>1. StreamInv /\ [StreamNext]_streamVars => StreamInv'
  BY StreamStep
<1>2. StreamInv /\ StreamInv' /\ [StreamNext]_streamVars => [Window!Next]_<<sent, sent - Len(slots), delivered>>
  BY WindowStep
<1> QED BY <1>1, <1>2, StreamInit, WindowInit, PTL DEF StreamSpec, ImplementsWindow, Window!Spec
=============================================================================
