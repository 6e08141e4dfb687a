---------------------------- MODULE DaemonProofs ----------------------------
(***************************************************************************)
(* What the daemon's connection handling promises, for any number of        *)
(* clients, addresses and connections, whatever the limits are.             *)
(***************************************************************************)
EXTENDS Daemon, TLAPS

-----------------------------------------------------------------------------
(* Types.                                                                   *)

Conn == [peer : Peers, last : Time]
ConnTable == [Conns -> Conn \cup {NoEntry}]
Window == [start : Time, count : Nat \ {0}]
CountTable == [Quotas -> [Ips -> Window \cup {NoEntry}]]
History == [Time -> Nat]

\* now - last_hb never wraps: the tick lies in the past.
TableInv ==
    /\ TypeOK
    /\ last_hb <= now

\* The absent entry is none of the entries.
LEMMA NoEntryIsNone ==
    /\ NoEntry \notin Conn
    /\ NoEntry \notin Window
  BY NoEntryAssumption, BoundAssumption DEF Conn, Window, Time

\* Both quotas let something pass.
LEMMA LimitsArePositive == \A q \in Quotas : Limit(q) \in Nat \ {0}
  BY LimitAssumption DEF Quotas, Limit

\* The table that a packet leaves behind is a table.
LEMMA PacketTables ==
    ASSUME TableInv, NEW p \in Packet
    PROVE  AfterPacket(p) \in ConnTable
  <1>1. connections \in ConnTable /\ now \in Time /\ p.conn \in Conns /\ p.peer \in Peers
    BY DEF TableInv, TypeOK, ConnTable, Conn, Packet
  <1>2. Opened(p) \in ConnTable
    BY <1>1 DEF Opened, ConnTable, Conn
  <1>3. Removed(p) \in ConnTable
    BY <1>1 DEF Removed, ConnTable
  <1>4. ASSUME Exists(p)
        PROVE  Touched(p) \in ConnTable
    <2>1. connections[p.conn] \in Conn
      BY <1>1, <1>4 DEF Exists, ConnTable
    <2>2. [connections[p.conn] EXCEPT !.last = now] \in Conn
      BY <1>1, <2>1 DEF Conn
    <2> QED
      BY <1>1, <2>2 DEF Touched, ConnTable
  <1>5. Accepted(p) => Exists(p)
    BY DEF Accepted, FromOwner
  <1> QED
    BY <1>1, <1>2, <1>3, <1>4, <1>5 DEF AfterPacket, AfterSyn

\* An attempt leaves a window behind.
LEMMA CountedIsWindow ==
    ASSUME now \in Time, NEW q \in Quotas, NEW e \in Window \cup {NoEntry}
    PROVE  Counted(q, e) \in Window
  <1>1. CASE e = NoEntry
    BY <1>1 DEF Counted, Window
  <1>2. CASE e # NoEntry
    <2>1. e \in Window
      BY <1>2
    <2> QED
      BY <2>1, LimitsArePositive DEF Counted, Window
  <1> QED
    BY <1>1, <1>2

\* The history of a quota with one more that passes now.
Tally(a) == [t \in Time |-> IF t >= now THEN a[t] + 1 ELSE a[t]]

\* The quotas that a packet leaves behind, with what it adds to the history.
LEMMA PacketCounts ==
    ASSUME TableInv, NEW p \in Packet, Admissions(p)
    PROVE  /\ Counts(p) \in CountTable
           /\ admitted' \in [Quotas -> [Ips -> History]]
           /\ \A q \in Quotas, ip \in Ips :
                \/ Counts(p)[q][ip] = counts[q][ip] /\ admitted'[q][ip] = admitted[q][ip]
                \/ /\ Counts(p)[q][ip] = Counted(q, counts[q][ip])
                   /\ admitted'[q][ip] = IF Passes(q, ip) THEN Tally(admitted[q][ip])
                                         ELSE admitted[q][ip]
  <1>1. /\ counts \in CountTable /\ admitted \in [Quotas -> [Ips -> History]]
        /\ now \in Time /\ IpOf[p.peer] \in Ips
    BY IpAssumption DEF TableInv, TypeOK, CountTable, Window, History, Packet
  <1>2. ASSUME NEW q \in Quotas, NEW ip \in Ips, Admit(q, ip)
        PROVE  /\ CountUp(q, ip) \in CountTable
               /\ admitted' \in [Quotas -> [Ips -> History]]
               /\ \A r \in Quotas, jp \in Ips :
                    \/ CountUp(q, ip)[r][jp] = counts[r][jp] /\ admitted'[r][jp] = admitted[r][jp]
                    \/ /\ CountUp(q, ip)[r][jp] = Counted(r, counts[r][jp])
                       /\ admitted'[r][jp] = IF Passes(r, jp) THEN Tally(admitted[r][jp])
                                             ELSE admitted[r][jp]
    <2>1. Counted(q, counts[q][ip]) \in Window
      BY <1>1, CountedIsWindow DEF CountTable
    <2>2. PICK w \in Window : w = Counted(q, counts[q][ip])
      BY <2>1
    <2>3. /\ CountUp(q, ip) = [counts EXCEPT ![q][ip] = w]
          /\ CountUp(q, ip) \in CountTable
      BY <1>1, <2>2 DEF CountUp, CountTable
    <2>4. PICK a \in History : a = Tally(admitted[q][ip])
      <3>1. ASSUME NEW b \in History
            PROVE  Tally(b) \in History
        BY DEF History, Tally
      <3> QED
        BY <1>1, <3>1
    <2>5. admitted' = IF Passes(q, ip) THEN [admitted EXCEPT ![q][ip] = a] ELSE admitted
      BY <1>1, <1>2, <2>4 DEF Admit, Tally
    <2>6. admitted' \in [Quotas -> [Ips -> History]]
      BY <1>1, <2>5
    <2>7. ASSUME NEW r \in Quotas, NEW jp \in Ips
          PROVE  \/ CountUp(q, ip)[r][jp] = counts[r][jp] /\ admitted'[r][jp] = admitted[r][jp]
                 \/ /\ CountUp(q, ip)[r][jp] = Counted(r, counts[r][jp])
                    /\ admitted'[r][jp] = IF Passes(r, jp) THEN Tally(admitted[r][jp])
                                          ELSE admitted[r][jp]
      <3>1. CASE r = q /\ jp = ip
        BY <1>1, <2>2, <2>3, <2>4, <2>5, <3>1 DEF CountTable
      <3>2. CASE ~ (r = q /\ jp = ip)
        BY <1>1, <2>3, <2>5, <3>2 DEF CountTable
      <3> QED
        BY <3>1, <3>2
    <2> QED
      BY <2>3, <2>6, <2>7
  <1>3. CASE p.kind = "syn"
    BY <1>1, <1>2, <1>3 DEF Counts, Admissions, Quotas
  <1>4. CASE p.kind # "syn" /\ IsData(p) /\ Accepted(p)
    BY <1>1, <1>2, <1>4 DEF Counts, Admissions, Quotas
  <1>5. CASE p.kind # "syn" /\ ~ (IsData(p) /\ Accepted(p))
    BY <1>1, <1>5 DEF Counts, Admissions
  <1> QED
    BY <1>3, <1>4, <1>5

\* The tick keeps tables tables, and every entry it keeps as it was.
LEMMA TickTables ==
    ASSUME TableInv, NEW conns \in ConnTable, NEW cnts \in CountTable, HeartbeatTick(conns, cnts)
    PROVE  /\ connections' \in ConnTable /\ counts' \in CountTable /\ last_hb' \in Time
           /\ last_hb' <= now
           /\ ~ Due => connections' = conns /\ counts' = cnts /\ last_hb' = last_hb
           /\ \A q \in Quotas, ip \in Ips :
                \/ counts'[q][ip] = cnts[q][ip]
                \/ /\ cnts[q][ip] # NoEntry /\ now - cnts[q][ip].start >= 2 * RATE_WINDOW
                   /\ counts'[q][ip] = NoEntry
  <1>1. now \in Time /\ last_hb \in Time /\ last_hb <= now
    BY DEF TableInv, TypeOK
  <1>2. Retained(conns) \in ConnTable
    BY DEF Retained, Alive, ConnTable
  <1>3. \A q \in Quotas : cnts[q] \in [Ips -> Window \cup {NoEntry}]
    BY DEF CountTable
  <1>4. ASSUME NEW q \in Quotas
        PROVE  Collected(cnts[q]) \in [Ips -> Window \cup {NoEntry}]
    BY <1>3 DEF Collected
  <1>5. ASSUME NEW q \in Quotas, NEW ip \in Ips
        PROVE  \/ Collected(cnts[q])[ip] = cnts[q][ip]
               \/ /\ cnts[q][ip] # NoEntry /\ now - cnts[q][ip].start >= 2 * RATE_WINDOW
                  /\ Collected(cnts[q])[ip] = NoEntry
    <2>1. CASE cnts[q][ip] = NoEntry
      BY <2>1 DEF Collected
    <2>2. CASE cnts[q][ip] # NoEntry
      <3>1. cnts[q][ip].start \in Int
        BY <1>3, <2>2, BoundAssumption DEF Window, Time
      <3>2. now \in Int /\ 2 * RATE_WINDOW \in Int
        BY <1>1, LimitAssumption DEF Time
      <3> QED
        BY <2>2, <3>1, <3>2 DEF Collected
    <2> QED
      BY <2>1, <2>2
  <1>6. [q \in Quotas |-> Collected(cnts[q])] \in CountTable
    BY <1>4 DEF CountTable
  <1>7. CASE Due
    BY <1>1, <1>2, <1>5, <1>6, <1>7 DEF HeartbeatTick, Time
  <1>8. CASE ~ Due
    BY <1>1, <1>8 DEF HeartbeatTick
  <1> QED
    BY <1>7, <1>8
-----------------------------------------------------------------------------
(* Connections and quotas.                                                  *)

\* What passed before t, of history a.
Before(a, t) == IF t = 0 THEN 0 ELSE a[t - 1]

\* The window of a quota and the history it explains, at time n.  What passed
\* since the window began is counted in it; what passed within RATE_WINDOW
\* before it began is within the limit, for it all belongs to the window before;
\* and nothing passes once the window is over.  Without a window, what passed in
\* the last RATE_WINDOW is within the limit, and nothing passed at this time.
Settled(a, n) ==
    /\ \A t \in Time, u \in Time : t <= u => a[t] <= a[u]
    /\ \A u \in Time : u >= n => a[u] = a[n]

Since(a, e, n, lim) ==
    /\ e.start <= n
    /\ a[n] - Before(a, e.start) <= e.count
    /\ a[n] - Before(a, e.start) <= lim
    /\ \A t \in Time : t <= e.start /\ e.start <= t + RATE_WINDOW =>
                         Before(a, e.start) - Before(a, t) <= lim
    /\ \A u \in Time : u >= e.start + RATE_WINDOW => \A v \in Time : v >= u => a[v] = a[u]

Unused(a, n, lim) ==
    /\ a[n] = Before(a, n)
    /\ \A t \in Time : n <= t + RATE_WINDOW => a[n] - Before(a, t) <= lim

Bounded(a, lim) ==
    \A t \in Time, u \in Time :
        t <= u /\ u <= t + RATE_WINDOW => a[u] - Before(a, t) <= 2 * lim

QuotaOK(a, e, n, lim) ==
    /\ Settled(a, n)
    /\ Bounded(a, lim)
    /\ IF e = NoEntry THEN Unused(a, n, lim) ELSE Since(a, e, n, lim)

\* What passed before a time grows with the time.
LEMMA BeforeGrows ==
    ASSUME NEW a \in History, NEW n \in Time, Settled(a, n)
    PROVE  /\ \A t \in Time : Before(a, t) \in Nat /\ Before(a, t) <= a[t]
           /\ \A t \in Time, u \in Time : t <= u => Before(a, t) <= Before(a, u)
           /\ \A t \in Time, u \in Time : t < u => a[t] <= Before(a, u)
  <1>1. Time \subseteq Nat /\ \A t \in Time : t # 0 => t - 1 \in Time
    BY BoundAssumption DEF Time
  <1>2. \A t \in Time : a[t] \in Nat
    BY DEF History
  <1>3. ASSUME NEW t \in Time
        PROVE  Before(a, t) \in Nat /\ Before(a, t) <= a[t]
    BY <1>1, <1>2 DEF Before, Settled
  <1>4. ASSUME NEW t \in Time, NEW u \in Time, t < u
        PROVE  a[t] <= Before(a, u)
    BY <1>1, <1>2, <1>4 DEF Before, Settled
  <1>5. ASSUME NEW t \in Time, NEW u \in Time, t <= u
        PROVE  Before(a, t) <= Before(a, u)
    <2>1. CASE t = u
      BY <2>1, <1>3
    <2>2. CASE t # u
      <3>1. t < u
        BY <1>1, <1>5, <2>2
      <3> QED
        BY <1>2, <1>3, <1>4, <3>1
    <2> QED
      BY <2>1, <2>2
  <1> QED
    BY <1>3, <1>4, <1>5

\* One more that passes now changes the history from now on.
LEMMA TallyAddsOne ==
    ASSUME now \in Time, NEW a \in History, Settled(a, now)
    PROVE  /\ Tally(a) \in History
           /\ Settled(Tally(a), now)
           /\ Tally(a)[now] = a[now] + 1
           /\ \A t \in Time : t >= now => Tally(a)[t] = a[t] + 1
           /\ \A t \in Time : t <= now => Before(Tally(a), t) = Before(a, t)
           /\ \A t \in Time : t > now => Before(Tally(a), t) = Before(a, t) + 1
           /\ \A t \in Time : t < now => Tally(a)[t] = a[t]
  <1>1. Time \subseteq Nat /\ \A t \in Time : t # 0 => t - 1 \in Time
    BY BoundAssumption DEF Time
  <1>2. \A t \in Time : a[t] \in Nat
    BY DEF History
  <1>3. /\ Tally(a) \in History
        /\ \A t \in Time : Tally(a)[t] = IF t >= now THEN a[t] + 1 ELSE a[t]
    BY DEF Tally, History
  <1>4. Settled(Tally(a), now)
    <2>1. ASSUME NEW t \in Time, NEW u \in Time, t <= u
          PROVE  Tally(a)[t] <= Tally(a)[u]
      <3>1. a[t] <= a[u]
        BY <2>1 DEF Settled
      <3> QED
        BY <1>1, <1>2, <1>3, <2>1, <3>1
    <2>2. ASSUME NEW u \in Time, u >= now
          PROVE  Tally(a)[u] = Tally(a)[now]
      BY <1>1, <1>3, <2>2 DEF Settled
    <2> QED
      BY <2>1, <2>2 DEF Settled
  <1>5. ASSUME NEW t \in Time, t <= now
        PROVE  Before(Tally(a), t) = Before(a, t)
    BY <1>1, <1>2, <1>3, <1>5 DEF Before
  <1>6. ASSUME NEW t \in Time, t > now
        PROVE  Before(Tally(a), t) = Before(a, t) + 1
    BY <1>1, <1>2, <1>3, <1>6 DEF Before
  <1> QED
    BY <1>1, <1>3, <1>4, <1>5, <1>6

\* When a window begins now, what passed in the RATE_WINDOW before it is within
\* the limit, and nothing has passed at this time.
LEMMA WindowOver ==
    ASSUME now \in Time, NEW lim \in Nat \ {0}, NEW a \in History, NEW e \in Window \cup {NoEntry},
           QuotaOK(a, e, now, lim), e = NoEntry \/ now - e.start > RATE_WINDOW
    PROVE  Unused(a, now, lim)
  <1>1. CASE e = NoEntry
    BY <1>1 DEF QuotaOK
  <1>2. CASE e # NoEntry
    <2>1. /\ e.start \in Time /\ e.start \in Nat /\ RATE_WINDOW \in Nat
          /\ now \in Nat /\ \A t \in Time : t \in Nat
          /\ now # 0 => now - 1 \in Time
      BY <1>2, LimitAssumption, BoundAssumption DEF Window, Time
    <2>2. Since(a, e, now, lim) /\ Settled(a, now)
      BY <1>2 DEF QuotaOK
    <2>3. now # 0 /\ now - 1 >= e.start + RATE_WINDOW
      BY <1>2, <2>1
    <2>4. a[now] = Before(a, now)
      BY <2>1, <2>2, <2>3 DEF Since, Before
    <2>5. ASSUME NEW t \in Time, now <= t + RATE_WINDOW
          PROVE  a[now] - Before(a, t) <= lim
      <3>1. e.start <= t
        BY <1>2, <2>1, <2>5
      <3>2. Before(a, e.start) <= Before(a, t)
        BY <2>1, <2>2, <3>1, BeforeGrows
      <3>3. a[now] - Before(a, e.start) <= lim
        BY <2>2 DEF Since
      <3>4. a[now] \in Nat /\ Before(a, e.start) \in Nat /\ Before(a, t) \in Nat
        BY <2>1, <2>2, BeforeGrows DEF History
      <3> QED
        BY <3>2, <3>3, <3>4
    <2> QED
      BY <2>4, <2>5 DEF Unused
  <1> QED
    BY <1>1, <1>2

\* The window in which one more attempt is counted, and the history if it passes.
Outcome(q, e, a) == IF Counted(q, e).count <= Limit(q) THEN Tally(a) ELSE a

\* An attempt keeps the window and the history in step.
LEMMA AttemptKeepsQuota ==
    ASSUME now \in Time, NEW q \in Quotas, NEW a \in History, NEW e \in Window \cup {NoEntry},
           QuotaOK(a, e, now, Limit(q))
    PROVE  QuotaOK(Outcome(q, e, a), Counted(q, e), now, Limit(q))
  <1> DEFINE c == Counted(q, e)
             b == Tally(a)
  <1>1. PICK lim \in Nat \ {0} : lim = Limit(q)
    BY LimitsArePositive
  <1>2. /\ Time \subseteq Nat /\ RATE_WINDOW \in Nat /\ now \in Nat
    BY LimitAssumption, BoundAssumption DEF Time
  <1>3. Settled(a, now) /\ Bounded(a, lim) /\ QuotaOK(a, e, now, lim)
    BY <1>1 DEF QuotaOK
  <1>4. c \in Window /\ c # NoEntry
    BY CountedIsWindow, NoEntryIsNone
  <1>5. /\ \A t \in Time : a[t] \in Nat /\ Before(a, t) \in Nat /\ Before(a, t) <= a[t]
        /\ \A t \in Time, u \in Time : t <= u => Before(a, t) <= Before(a, u)
        /\ \A t \in Time, u \in Time : t < u => a[t] <= Before(a, u)
    BY <1>3, BeforeGrows DEF History
  <1>6. /\ b \in History /\ Settled(b, now)
        /\ b[now] = a[now] + 1
        /\ \A t \in Time : t >= now => b[t] = a[t] + 1
        /\ \A t \in Time : t <= now => Before(b, t) = Before(a, t)
        /\ \A t \in Time : t > now => Before(b, t) = Before(a, t) + 1
        /\ \A t \in Time : t < now => b[t] = a[t]
    BY <1>3, TallyAddsOne
  <1> HIDE DEF b
  <1>7. \A u \in Time : u >= now => a[u] = a[now]
    BY <1>3 DEF Settled
  <1>8. ASSUME \A t \in Time : t <= now /\ now <= t + RATE_WINDOW => a[now] + 1 - Before(a, t) <= 2 * lim
        PROVE  Bounded(b, lim)
    <2>1. SUFFICES ASSUME NEW t \in Time, NEW u \in Time, t <= u, u <= t + RATE_WINDOW
                   PROVE  b[u] - Before(b, t) <= 2 * lim
      BY DEF Bounded
    <2>2. a[u] - Before(a, t) <= 2 * lim
      BY <1>3, <2>1 DEF Bounded
    <2>3. CASE u < now
      <3>1. t <= now
        BY <1>2, <2>1, <2>3
      <3> QED
        BY <1>6, <2>2, <2>3, <3>1
    <2>4. CASE u >= now /\ t > now
      <3>1. b[u] = a[u] + 1 /\ Before(b, t) = Before(a, t) + 1
        BY <1>6, <2>4
      <3>2. a[u] \in Nat /\ Before(a, t) \in Nat
        BY <1>5
      <3>3. b[u] - Before(b, t) = a[u] - Before(a, t)
        BY <3>1, <3>2
      <3> QED
        BY <2>2, <3>3
    <2>5. CASE u >= now /\ t <= now
      <3>1. now <= t + RATE_WINDOW
        BY <1>2, <2>1, <2>5
      <3>2. b[u] = a[now] + 1 /\ Before(b, t) = Before(a, t)
        BY <1>6, <1>7, <2>5
      <3>3. a[now] + 1 - Before(a, t) <= 2 * lim
        BY <1>8, <2>5, <3>1
      <3>4. a[now] \in Nat /\ Before(a, t) \in Nat
        BY <1>5
      <3> QED
        BY <3>2, <3>3, <3>4
    <2>6. t \in Nat /\ u \in Nat /\ now \in Nat
      BY <1>2
    <2>7. (u < now) \/ (u >= now /\ t > now) \/ (u >= now /\ t <= now)
      BY <2>6
    <2> QED
      BY <2>3, <2>4, <2>5, <2>7
  <1>9. CASE e = NoEntry \/ now - e.start > RATE_WINDOW
    <2>1. c = [start |-> now, count |-> 1] /\ c.start = now /\ c.count = 1
      BY <1>9 DEF Counted
    <2>2. Unused(a, now, lim)
      BY <1>3, <1>9, WindowOver
    <2>3. Outcome(q, e, a) = b
      BY <1>1, <2>1 DEF Outcome, b
    <2>4. Bounded(b, lim)
      <3>1. ASSUME NEW t \in Time, t <= now, now <= t + RATE_WINDOW
            PROVE  a[now] + 1 - Before(a, t) <= 2 * lim
        <4>1. a[now] - Before(a, t) <= lim
          BY <2>2, <3>1 DEF Unused
        <4>2. a[now] \in Nat /\ Before(a, t) \in Nat
          BY <1>5
        <4> QED
          BY <4>1, <4>2
      <3> QED
        BY <1>8, <3>1
    <2>5. Since(b, c, now, lim)
      <3>1. b[now] - Before(b, now) = 1
        BY <1>2, <1>5, <1>6, <2>2 DEF Unused
      <3>2. ASSUME NEW t \in Time, t <= now, now <= t + RATE_WINDOW
            PROVE  Before(b, now) - Before(b, t) <= lim
        <4>1. a[now] - Before(a, t) <= lim /\ a[now] = Before(a, now)
          BY <2>2, <3>2 DEF Unused
        <4>2. Before(b, now) = Before(a, now) /\ Before(b, t) = Before(a, t)
          BY <1>2, <1>6, <3>2
        <4> QED
          BY <4>1, <4>2
      <3>3. ASSUME NEW u \in Time, u >= now + RATE_WINDOW, NEW v \in Time, v >= u
            PROVE  b[v] = b[u]
        <4>1. u >= now /\ v >= now
          BY <1>2, <3>3
        <4> QED
          BY <1>6, <1>7, <4>1
      <3> QED
        BY <1>2, <2>1, <3>1, <3>2, <3>3 DEF Since
    <2> QED
      BY <1>1, <1>4, <1>6, <2>3, <2>4, <2>5 DEF QuotaOK
  <1>10. CASE ~ (e = NoEntry \/ now - e.start > RATE_WINDOW)
    <2>1. e \in Window /\ e # NoEntry
      BY <1>10
    <2>2. /\ e.start \in Time /\ e.start \in Nat /\ e.count \in Nat
          /\ now - e.start <= RATE_WINDOW
      <3>1. e.start \in Time /\ e.start \in Nat /\ e.count \in Nat
        BY <1>2, <2>1 DEF Window
      <3>2. ~ (now - e.start > RATE_WINDOW)
        BY <1>10
      <3> QED
        BY <1>2, <3>1, <3>2
    <2>3. c.start = e.start /\ c.count = IF e.count > lim THEN e.count ELSE e.count + 1
      BY <1>1, <1>10, <2>1 DEF Counted, Window
    <2>4. Since(a, e, now, lim)
      BY <1>3, <2>1 DEF QuotaOK
    <2>5. CASE c.count > lim
      <3>1. Outcome(q, e, a) = a
        BY <1>1, <1>4, <2>5 DEF Outcome, Window
      <3>2. Since(a, c, now, lim)
        BY <1>5, <2>2, <2>3, <2>4 DEF Since
      <3> QED
        BY <1>1, <1>3, <1>4, <3>1, <3>2 DEF QuotaOK
    <2>6. CASE c.count <= lim
      <3>1. Outcome(q, e, a) = b /\ c.count = e.count + 1
        BY <1>1, <2>2, <2>3, <2>6 DEF Outcome, b
      <3>2. e.start <= now /\ a[now] - Before(a, e.start) <= e.count
        BY <2>4 DEF Since
      <3>3. b[now] - Before(b, e.start) = a[now] - Before(a, e.start) + 1
        BY <1>5, <1>6, <2>2, <3>2
      <3>4. a[now] \in Nat /\ Before(a, e.start) \in Nat
        BY <1>5, <2>2
      <3>5. b[now] - Before(b, e.start) <= c.count /\ b[now] - Before(b, e.start) <= lim
        BY <2>2, <2>6, <3>1, <3>2, <3>3, <3>4
      <3>6. ASSUME NEW t \in Time, t <= e.start, e.start <= t + RATE_WINDOW
            PROVE  Before(b, e.start) - Before(b, t) <= lim
        <4>1. Before(a, e.start) - Before(a, t) <= lim
          BY <2>4, <3>6 DEF Since
        <4>2. Before(b, e.start) = Before(a, e.start) /\ Before(b, t) = Before(a, t)
          BY <1>2, <1>6, <2>2, <3>2, <3>6
        <4> QED
          BY <4>1, <4>2
      <3>7. ASSUME NEW u \in Time, u >= e.start + RATE_WINDOW, NEW v \in Time, v >= u
            PROVE  b[v] = b[u]
        <4>1. u >= now /\ v >= now
          BY <1>2, <2>2, <3>7
        <4> QED
          BY <1>6, <1>7, <4>1
      <3>8. Since(b, c, now, lim)
        BY <2>3, <3>2, <3>5, <3>6, <3>7 DEF Since
      <3>9. Bounded(b, lim)
        <4>1. ASSUME NEW t \in Time, t <= now, now <= t + RATE_WINDOW
              PROVE  a[now] + 1 - Before(a, t) <= 2 * lim
          <5>1. a[now] + 1 - Before(a, e.start) <= lim
            BY <3>3, <3>4, <3>5
          <5>2. Before(a, t) \in Nat
            BY <1>5
          <5>3. CASE t <= e.start
            <6>1. Before(a, e.start) - Before(a, t) <= lim
              BY <1>2, <2>2, <2>4, <3>2, <4>1, <5>3 DEF Since
            <6> QED
              BY <3>4, <5>1, <5>2, <6>1
          <5>4. CASE t > e.start
            <6>1. Before(a, e.start) <= Before(a, t)
              BY <1>2, <1>5, <2>2, <5>4
            <6> QED
              BY <3>4, <5>1, <5>2, <6>1
          <5> QED
            BY <1>2, <2>2, <5>3, <5>4
        <4> QED
          BY <1>8, <4>1
      <3> QED
        BY <1>1, <1>4, <1>6, <3>1, <3>8, <3>9 DEF QuotaOK
    <2> QED
      BY <1>1, <1>4, <2>5, <2>6 DEF Window
  <1> QED
    BY <1>9, <1>10

\* gc() drops a window that is long over.
LEMMA CollectKeepsQuota ==
    ASSUME now \in Time, NEW lim \in Nat \ {0}, NEW a \in History, NEW e \in Window,
           QuotaOK(a, e, now, lim), now - e.start >= 2 * RATE_WINDOW
    PROVE  QuotaOK(a, NoEntry, now, lim)
  <1>1. now - e.start > RATE_WINDOW
    BY LimitAssumption, BoundAssumption DEF Window, Time
  <1>2. Unused(a, now, lim)
    BY <1>1, WindowOver
  <1> QED
    BY <1>2 DEF QuotaOK

\* The passing of time alone changes nothing that a quota depends on.
LEMMA TimeKeepsQuota ==
    ASSUME now \in Time, now + 1 \in Time, NEW lim \in Nat \ {0}, NEW a \in History,
           NEW e \in Window \cup {NoEntry}, QuotaOK(a, e, now, lim)
    PROVE  QuotaOK(a, e, now + 1, lim)
  <1>1. Time \subseteq Nat /\ RATE_WINDOW \in Nat /\ now \in Nat
    BY LimitAssumption, BoundAssumption DEF Time
  <1>2. Settled(a, now) /\ a[now + 1] = a[now]
    BY <1>1 DEF QuotaOK, Settled
  <1>3. Settled(a, now + 1)
    BY <1>1, <1>2 DEF Settled
  <1>4. CASE e = NoEntry
    <2>1. Unused(a, now, lim)
      BY <1>4 DEF QuotaOK
    <2>2. Before(a, now + 1) = a[now]
      BY <1>1 DEF Before
    <2> QED
      BY <1>1, <1>2, <1>3, <1>4, <2>1, <2>2 DEF QuotaOK, Unused
  <1>5. CASE e # NoEntry
    <2>1. Since(a, e, now, lim) /\ e.start \in Nat
      BY <1>1, <1>5 DEF QuotaOK, Window
    <2>2. Since(a, e, now + 1, lim)
      BY <1>1, <1>2, <2>1 DEF Since
    <2> QED
      BY <1>3, <1>5, <2>2 DEF QuotaOK
  <1> QED
    BY <1>4, <1>5

QuotasOK == \A q \in Quotas, ip \in Ips : QuotaOK(admitted[q][ip], counts[q][ip], now, Limit(q))

\* A step of the tables, and what it keeps.
TablesKept ==
    /\ TableInv'
    /\ QuotasOK => QuotasOK'

\* A packet, and the tick after it if the loop goes on.
LEMMA PacketKeepsTables ==
    ASSUME TableInv, NEW p \in Packet, Admissions(p), UNCHANGED <<transport, now>>,
           busy' \in BOOLEAN, inbox' \in Seq(Packet), Len(inbox') <= MaxQueue,
           \/ /\ connections' = AfterPacket(p) /\ counts' = Counts(p)
              /\ UNCHANGED last_hb
           \/ HeartbeatTick(AfterPacket(p), Counts(p))
    PROVE  TablesKept
  <1> DEFINE conns == AfterPacket(p)
             cnts == Counts(p)
  <1>1. conns \in ConnTable
    BY PacketTables
  <1>2. /\ cnts \in CountTable /\ admitted' \in [Quotas -> [Ips -> History]]
        /\ \A q \in Quotas, ip \in Ips :
             \/ cnts[q][ip] = counts[q][ip] /\ admitted'[q][ip] = admitted[q][ip]
             \/ /\ cnts[q][ip] = Counted(q, counts[q][ip])
                /\ admitted'[q][ip] = IF Passes(q, ip) THEN Tally(admitted[q][ip])
                                      ELSE admitted[q][ip]
    BY PacketCounts
  <1> HIDE DEF conns, cnts
  <1>3. /\ now \in Time /\ last_hb \in Time /\ last_hb <= now /\ transport \in Transports
        /\ counts \in CountTable /\ admitted \in [Quotas -> [Ips -> History]]
    BY DEF TableInv, TypeOK, CountTable, Window, History
  <1>4. /\ connections' \in ConnTable /\ counts' \in CountTable
        /\ last_hb' \in Time /\ last_hb' <= now
        /\ \A q \in Quotas, ip \in Ips :
             \/ counts'[q][ip] = cnts[q][ip]
             \/ /\ cnts[q][ip] # NoEntry /\ now - cnts[q][ip].start >= 2 * RATE_WINDOW
                /\ counts'[q][ip] = NoEntry
    <2>1. CASE HeartbeatTick(AfterPacket(p), Counts(p))
      <3>1. HeartbeatTick(conns, cnts)
        BY <2>1 DEF conns, cnts
      <3> QED
        BY <1>1, <1>2, <3>1, TickTables
    <2>2. CASE connections' = AfterPacket(p) /\ counts' = Counts(p) /\ UNCHANGED last_hb
      <3>1. connections' = conns /\ counts' = cnts /\ last_hb' = last_hb
        BY <2>2 DEF conns, cnts
      <3> QED
        BY <1>1, <1>2, <1>3, <3>1
    <2> QED
      BY <2>1, <2>2
  <1>5. TableInv'
    BY <1>2, <1>3, <1>4 DEF TableInv, TypeOK, ConnTable, Conn, CountTable, Window, History
  <1>7. ASSUME QuotasOK
        PROVE  QuotasOK'
    <2>1. SUFFICES ASSUME NEW q \in Quotas, NEW ip \in Ips
                   PROVE  QuotaOK(admitted'[q][ip], counts'[q][ip], now, Limit(q))
      BY DEF QuotasOK, QuotaOK, Settled, Bounded, Unused, Since, Before
    <2>2. /\ counts[q][ip] \in Window \cup {NoEntry} /\ admitted[q][ip] \in History
          /\ cnts[q][ip] \in Window \cup {NoEntry} /\ admitted'[q][ip] \in History
          /\ Limit(q) \in Nat \ {0}
      BY <1>2, <1>3, LimitsArePositive DEF CountTable
    <2>3. QuotaOK(admitted[q][ip], counts[q][ip], now, Limit(q))
      BY <1>7 DEF QuotasOK
    <2>4. QuotaOK(admitted'[q][ip], cnts[q][ip], now, Limit(q))
      <3>1. CASE cnts[q][ip] = counts[q][ip] /\ admitted'[q][ip] = admitted[q][ip]
        BY <2>3, <3>1
      <3>2. CASE /\ cnts[q][ip] = Counted(q, counts[q][ip])
                 /\ admitted'[q][ip] = IF Passes(q, ip) THEN Tally(admitted[q][ip])
                                       ELSE admitted[q][ip]
        <4>1. admitted'[q][ip] = Outcome(q, counts[q][ip], admitted[q][ip])
          BY <3>2 DEF Passes, Outcome
        <4> QED
          BY <1>3, <2>2, <2>3, <3>2, <4>1, AttemptKeepsQuota
      <3> QED
        BY <1>2, <3>1, <3>2
    <2>5. CASE counts'[q][ip] = cnts[q][ip]
      BY <2>4, <2>5
    <2>6. CASE /\ cnts[q][ip] # NoEntry /\ now - cnts[q][ip].start >= 2 * RATE_WINDOW
               /\ counts'[q][ip] = NoEntry
      <3>1. cnts[q][ip] \in Window
        BY <2>2, <2>6
      <3> QED
        BY <1>3, <2>2, <2>4, <2>6, <3>1, CollectKeepsQuota
    <2> QED
      BY <1>4, <2>5, <2>6
  <1> QED
    BY <1>5, <1>7 DEF TablesKept

\* The tick alone, when the loop is idle or a native command has returned.
LEMMA TickKeepsTables ==
    ASSUME TableInv, HeartbeatTick(connections, counts), UNCHANGED <<transport, now, inbox, admitted>>,
           busy' \in BOOLEAN
    PROVE  TablesKept
  <1>1. /\ connections \in ConnTable /\ counts \in CountTable
        /\ now \in Time /\ last_hb \in Time /\ last_hb <= now
        /\ admitted \in [Quotas -> [Ips -> History]]
    BY DEF TableInv, TypeOK, ConnTable, Conn, CountTable, Window, History
  <1>2. /\ connections' \in ConnTable /\ counts' \in CountTable /\ last_hb' \in Time
        /\ last_hb' <= now
        /\ ~ Due => connections' = connections /\ counts' = counts /\ last_hb' = last_hb
        /\ \A q \in Quotas, ip \in Ips :
             \/ counts'[q][ip] = counts[q][ip]
             \/ /\ counts[q][ip] # NoEntry /\ now - counts[q][ip].start >= 2 * RATE_WINDOW
                /\ counts'[q][ip] = NoEntry
    BY <1>1, TickTables
  <1>3. TableInv'
    BY <1>1, <1>2 DEF TableInv, TypeOK, ConnTable, Conn, CountTable, Window, History
  <1>5. ASSUME QuotasOK
        PROVE  QuotasOK'
    <2>1. SUFFICES ASSUME NEW q \in Quotas, NEW ip \in Ips
                   PROVE  QuotaOK(admitted[q][ip], counts'[q][ip], now, Limit(q))
      BY DEF QuotasOK, QuotaOK, Settled, Bounded, Unused, Since, Before
    <2>2. /\ counts[q][ip] \in Window \cup {NoEntry} /\ admitted[q][ip] \in History
          /\ Limit(q) \in Nat \ {0}
      BY <1>1, LimitsArePositive DEF CountTable
    <2>3. QuotaOK(admitted[q][ip], counts[q][ip], now, Limit(q))
      BY <1>5 DEF QuotasOK
    <2>4. CASE /\ counts[q][ip] # NoEntry /\ now - counts[q][ip].start >= 2 * RATE_WINDOW
               /\ counts'[q][ip] = NoEntry
      <3>1. counts[q][ip] \in Window
        BY <2>2, <2>4
      <3> QED
        BY <1>1, <2>2, <2>3, <2>4, <3>1, CollectKeepsQuota
    <2> QED
      BY <1>2, <2>3, <2>4
  <1> QED
    BY <1>3, <1>5 DEF TablesKept

\* Every step of the tables keeps what holds of them.
LEMMA NextKeepsTables ==
    ASSUME TableInv, Next
    PROVE  TablesKept
  <1>1. /\ inbox \in Seq(Packet) /\ Len(inbox) <= MaxQueue /\ busy \in BOOLEAN
        /\ transport \in Transports
    BY DEF TableInv, TypeOK
  <1>2. CASE LoopReceive
    <2>1. Head(inbox) \in Packet /\ Tail(inbox) \in Seq(Packet) /\ Len(Tail(inbox)) <= MaxQueue
      BY <1>1, <1>2, BoundAssumption DEF LoopReceive
    <2>2. PICK p \in Packet : p = Head(inbox)
      BY <2>1
    <2>3. busy' \in BOOLEAN
      BY <1>2 DEF LoopReceive, Runs
    <2>4. /\ Admissions(p) /\ UNCHANGED <<transport, now>>
          /\ inbox' \in Seq(Packet) /\ Len(inbox') <= MaxQueue
          /\ \/ connections' = AfterPacket(p) /\ counts' = Counts(p) /\ UNCHANGED last_hb
             \/ HeartbeatTick(AfterPacket(p), Counts(p))
      BY <1>2, <2>1, <2>2 DEF LoopReceive
    <2> QED
      BY <2>3, <2>4, PacketKeepsTables
  <1>3. CASE LoopReturn
    <2>1. busy' \in BOOLEAN
      BY <1>3 DEF LoopReturn
    <2> QED
      BY <1>3, <2>1, TickKeepsTables DEF LoopReturn
  <1>4. CASE LoopIdle
    <2>1. busy' \in BOOLEAN
      BY <1>1, <1>4 DEF LoopIdle
    <2> QED
      BY <1>4, <2>1, TickKeepsTables DEF LoopIdle
  <1>5. CASE Tick
    <2>1. /\ now' = now + 1 /\ now \in Time /\ now + 1 \in Time /\ now \in Nat
          /\ last_hb <= now /\ last_hb \in Time /\ last_hb \in Nat
          /\ UNCHANGED <<transport, last_hb, busy, inbox, connections, counts, admitted>>
      BY <1>5, BoundAssumption DEF Tick, TableInv, TypeOK, Time
    <2>2. TableInv'
      BY <2>1 DEF TableInv, TypeOK
    <2>4. ASSUME QuotasOK
          PROVE  QuotasOK'
      <3>1. counts \in CountTable /\ admitted \in [Quotas -> [Ips -> History]]
        BY DEF TableInv, TypeOK, CountTable, Window, History
      <3>2. ASSUME NEW q \in Quotas, NEW ip \in Ips
            PROVE  QuotaOK(admitted[q][ip], counts[q][ip], now + 1, Limit(q))
        <4>1. /\ counts[q][ip] \in Window \cup {NoEntry} /\ admitted[q][ip] \in History
              /\ Limit(q) \in Nat \ {0}
          BY <3>1, LimitsArePositive DEF CountTable
        <4>2. QuotaOK(admitted[q][ip], counts[q][ip], now, Limit(q))
          BY <2>4 DEF QuotasOK
        <4> QED
          BY <2>1, <4>1, <4>2, TimeKeepsQuota
      <3> QED
        BY <2>1, <3>2 DEF QuotasOK, QuotaOK, Settled, Bounded, Unused, Since, Before
    <2> QED
      BY <2>2, <2>4 DEF TablesKept
  <1>6. ASSUME NEW p \in Packet, Arrive(p)
        PROVE  TablesKept
    <2>1. inbox' \in Seq(Packet)
      BY <1>1, <1>6 DEF Arrive
    <2>2. Len(inbox') <= MaxQueue
      BY <1>1, <1>6, BoundAssumption DEF Arrive
    <2>3. UNCHANGED <<transport, now, last_hb, busy, connections, counts, admitted>>
      BY <1>6 DEF Arrive
    <2>4. TableInv'
      BY <2>1, <2>2, <2>3 DEF TableInv, TypeOK
    <2>5. QuotasOK => QuotasOK'
      BY <2>3 DEF QuotasOK, QuotaOK, Settled, Bounded, Unused, Since, Before
    <2> QED
      BY <2>4, <2>5 DEF TablesKept
  <1>7. ASSUME NEW p \in Packet, HandlePacketTcp(p)
        PROVE  TablesKept
    <2>1. /\ Admissions(p) /\ connections' = AfterPacket(p) /\ counts' = Counts(p)
          /\ UNCHANGED <<transport, now, last_hb, inbox>>
      BY <1>7 DEF HandlePacketTcp
    <2>2. busy' \in BOOLEAN
      BY <1>1, <1>7 DEF HandlePacketTcp
    <2> QED
      BY <1>1, <2>1, <2>2, PacketKeepsTables
  <1> QED
    BY <1>2, <1>3, <1>4, <1>5, <1>6, <1>7 DEF Next

\* Steps of the TCP tasks, and steps of neither part, leave the tables alone.
LEMMA StepKeepsTables ==
    ASSUME TableInv, [DaemonNext]_daemonVars
    PROVE  TablesKept
  <1>1. CASE Next
    BY <1>1, NextKeepsTables
  <1>2. CASE UNCHANGED vars
    <2>1. UNCHANGED <<transport, now, last_hb, busy, inbox, connections, counts, admitted>>
      BY <1>2 DEF vars
    <2>2. TableInv'
      BY <2>1 DEF TableInv, TypeOK
    <2>3. QuotasOK => QuotasOK'
      BY <2>1 DEF QuotasOK, QuotaOK, Settled, Bounded, Unused, Since, Before
    <2> QED
      BY <2>2, <2>3 DEF TablesKept
  <1> QED
    BY <1>1, <1>2 DEF DaemonNext, daemonVars

\* The daemon starts with no connection, no window and no history.
LEMMA InitTables ==
    ASSUME DaemonInit
    PROVE  TableInv /\ QuotasOK
  <1>1. /\ transport \in Transports /\ now = 0 /\ last_hb = 0 /\ inbox = <<>>
        /\ connections = [c \in Conns |-> NoEntry]
        /\ counts = [q \in Quotas |-> [ip \in Ips |-> NoEntry]]
        /\ admitted = [q \in Quotas |-> [ip \in Ips |-> [t \in Time |-> 0]]]
    BY DEF DaemonInit, Init
  <1>2. busy \in BOOLEAN
    BY DEF DaemonInit, Init
  <1>3. 0 \in Time
    BY BoundAssumption DEF Time
  <1>4. inbox \in Seq(Packet) /\ Len(inbox) <= MaxQueue
    BY <1>1, BoundAssumption
  <1>5. TableInv
    BY <1>1, <1>2, <1>3, <1>4 DEF TableInv, TypeOK
  <1>7. ASSUME NEW q \in Quotas, NEW ip \in Ips
        PROVE  QuotaOK(admitted[q][ip], counts[q][ip], now, Limit(q))
    <2> DEFINE a == admitted[q][ip]
    <2>1. /\ \A t \in Time : a[t] = 0 /\ Before(a, t) = 0
          /\ counts[q][ip] = NoEntry /\ Limit(q) \in Nat \ {0}
      BY <1>1, LimitsArePositive, BoundAssumption DEF Before, Time
    <2> HIDE DEF a
    <2>2. QuotaOK(a, NoEntry, 0, Limit(q))
      BY <1>3, <2>1 DEF QuotaOK, Settled, Bounded, Unused
    <2> QED
      BY <1>1, <2>1, <2>2 DEF a
  <1> QED
    BY <1>5, <1>7 DEF QuotasOK

\* RateLimiter: whatever the limits and the window, and however packets, ticks and
\* gc() interleave, no interval as long as a window sees more than twice the limit
\* of SYNs or commands of one IP pass.
THEOREM BurstsAreBounded == DaemonSpec => []BurstBounded
  <1>1. DaemonInit => TableInv /\ QuotasOK
    BY InitTables
  <1>2. TableInv /\ QuotasOK /\ [DaemonNext]_daemonVars => (TableInv /\ QuotasOK)'
    BY StepKeepsTables DEF TablesKept
  <1>3. QuotasOK => BurstBounded
    BY DEF QuotasOK, QuotaOK, Bounded, BurstBounded, Passed, PassedBefore, Before
  <1> QED
    BY <1>1, <1>2, <1>3, PTL DEF DaemonSpec
-----------------------------------------------------------------------------
(* The locks of the TCP tasks.                                              *)

ClientPlaces == {"off", "syn", "hello", "ready", "drain", "gone"}
Frames == {"none", "syn", "hello", "exec", "native", "file", "signal"}
Replies == {"synack", "helloack", "started", "chunk", "done", "ack"}
TaskPlaces == {"none", "length", "read length", "body", "register", "cleanup", "ended", "tables",
               "send", "stream", "native", "select"}
Task == [pc : TaskPlaces, frame : Frames, send : Seq(Replies), chunks : Nat]

ServeType ==
    /\ tcp_client \in [Clients -> ClientPlaces]
    /\ frames \in [Clients -> Seq(Frames)]
    /\ tcp_task \in [Tasks -> Task]
    /\ stream_lock \in [Clients -> Tasks \cup {Nobody}]
    /\ tcp_conns_lock \in Tasks \cup {Nobody}
    /\ tables_lock \in Tasks \cup {Nobody}

\* Who holds a lock, and what it does with it: a stream is held while its reader
\* waits for a length, tcp_conns while a message is written, and the tables while
\* a reader answers.
Holders ==
    /\ \A c \in Clients :
        stream_lock[c] # Nobody => stream_lock[c] = Reader(c) /\ TaskAt(Reader(c), "read length")
    /\ tcp_conns_lock # Nobody => TaskAt(tcp_conns_lock, "stream")
    /\ tables_lock # Nobody =>
        \E c \in Clients : /\ tables_lock = Reader(c)
                           /\ tcp_task[Reader(c)].pc \in {"send", "stream", "native"}

\* An exec is under way only for a client that asked for it and waits, or is gone.
Asked(c) ==
    \/ tcp_task[ExecTask(c)].pc # "none"
    \/ tcp_task[Reader(c)].frame = "exec"
    \/ \E i \in 1..Len(frames[c]) : frames[c][i] = "exec"

AskedFor == \A c \in Clients : Asked(c) => tcp_client[c] \in {"drain", "gone"}

\* One exec at most, on its way, read or under way: a client asks for one thing.
Once(c) ==
    /\ \A i, j \in 1..Len(frames[c]) : frames[c][i] = "exec" /\ frames[c][j] = "exec" => i = j
    /\ (\E i \in 1..Len(frames[c]) : frames[c][i] = "exec") =>
         tcp_task[Reader(c)].frame # "exec" /\ tcp_task[ExecTask(c)].pc = "none"
    /\ tcp_task[Reader(c)].frame = "exec" => tcp_task[ExecTask(c)].pc = "none"

OneExec == \A c \in Clients : Once(c)

\* A task that sends has something to send, a reader of a body has a frame.
Supplied ==
    /\ \A t \in Tasks : tcp_task[t].pc \in {"send", "stream"} => tcp_task[t].send # <<>>
    /\ \A c \in Clients : TaskAt(Reader(c), "body") => frames[c] # <<>>

\* A client that has not connected has no task yet.
Unconnected == \A c \in Clients : tcp_client[c] = "off" => TaskAt(Reader(c), "none")

ServeInv == ServeType /\ Holders /\ AskedFor /\ OneExec /\ Supplied /\ Unconnected

\* A client has two tasks, which are its own; nobody is one of them.
LEMMA TaskNames ==
    /\ \A c \in Clients : Reader(c) \in Tasks /\ ExecTask(c) \in Tasks
    /\ \A c \in Clients : Owner(Reader(c)) = c /\ Owner(ExecTask(c)) = c
    /\ \A t \in Tasks : Owner(t) \in Clients /\ (t = Reader(Owner(t)) \/ t = ExecTask(Owner(t)))
    /\ \A c, d \in Clients : Reader(c) # ExecTask(d)
    /\ \A c, d \in Clients : Reader(c) = Reader(d) => c = d
    /\ \A c, d \in Clients : ExecTask(c) = ExecTask(d) => c = d
    /\ \A t \in Tasks : t # Nobody
  BY NobodyAssumption DEF Reader, ExecTask, Tasks, Owner

\* With these holders, nobody waits in vain: the tables wait for tcp_conns, which
\* waits for a stream, whose reader waits for a client that is not silent.
LEMMA HoldersGoOn ==
    ASSUME ServeInv
    PROVE  NobodyStuck
  <1>1. SUFFICES ASSUME NEW S \in SUBSET Tasks, \A t \in S : WaitsFor(t) \in S \/ Silent(t)
                 PROVE  \A t \in S : WaitsFor(t) = Nobody
    BY DEF NobodyStuck
  <1>2. Nobody \notin S
    BY NobodyAssumption
  <1>3. \A t \in S : Silent(t) => WaitsFor(t) = Nobody
    BY DEF Silent, WaitsFor, TaskAt
  <1>4. ASSUME NEW t \in S, tcp_task[t].pc \in {"length", "body", "stream"}
        PROVE  WaitsFor(t) \notin S
    <2>1. SUFFICES ASSUME stream_lock[Owner(t)] \in S
                   PROVE  FALSE
      BY <1>4 DEF WaitsFor
    <2>2. PICK c \in Clients : c = Owner(t)
      BY TaskNames
    <2>3. Reader(c) \in S /\ TaskAt(Reader(c), "read length") /\ stream_lock[c] = Reader(c)
      BY <1>2, <2>1, <2>2 DEF ServeInv, Holders
    <2>4. WaitsFor(Reader(c)) = Nobody
      BY <2>3 DEF WaitsFor, TaskAt
    <2>5. Silent(Reader(c))
      BY <1>1, <1>2, <2>3, <2>4
    <2>6. tcp_client[c] \in {"ready", "syn"}
      BY <2>5, TaskNames DEF Silent
    <2>7. t = ExecTask(c)
      BY <1>4, <2>2, <2>3, TaskNames DEF TaskAt
    <2>8. Asked(c)
      BY <1>4, <2>7 DEF Asked
    <2> QED
      BY <2>6, <2>8 DEF ServeInv, AskedFor
  <1>5. ASSUME NEW t \in S, tcp_task[t].pc \in {"register", "cleanup", "send"}
        PROVE  WaitsFor(t) \notin S
    <2>1. SUFFICES ASSUME tcp_conns_lock \in S
                   PROVE  FALSE
      BY <1>5 DEF WaitsFor
    <2>2. TaskAt(tcp_conns_lock, "stream")
      BY <1>2, <2>1 DEF ServeInv, Holders
    <2>3. WaitsFor(tcp_conns_lock) \notin S
      BY <1>4, <2>1, <2>2 DEF TaskAt
    <2>4. ~ Silent(tcp_conns_lock)
      BY <2>2 DEF Silent, TaskAt
    <2> QED
      BY <1>1, <2>1, <2>3, <2>4
  <1>6. ASSUME NEW t \in S, tcp_task[t].pc = "tables"
        PROVE  WaitsFor(t) \notin S
    <2>1. SUFFICES ASSUME tables_lock \in S
                   PROVE  FALSE
      BY <1>6 DEF WaitsFor
    <2>2. tcp_task[tables_lock].pc \in {"send", "stream", "native"}
      BY <1>2, <2>1 DEF ServeInv, Holders
    <2>3. ~ Silent(tables_lock)
      BY <2>2 DEF Silent, TaskAt
    <2>4. CASE tcp_task[tables_lock].pc = "native"
      <3>1. WaitsFor(tables_lock) = Nobody
        BY <2>4 DEF WaitsFor
      <3> QED
        BY <1>1, <1>2, <2>1, <2>3, <3>1
    <2> QED
      BY <1>1, <1>4, <1>5, <2>1, <2>2, <2>3, <2>4
  <1>7. ASSUME NEW t \in S
        PROVE  WaitsFor(t) = Nobody
    <2>1. CASE tcp_task[t].pc \in {"length", "body", "stream", "register", "cleanup", "send", "tables"}
      BY <1>1, <1>3, <1>4, <1>5, <1>6, <2>1
    <2>2. CASE tcp_task[t].pc \notin {"length", "body", "stream", "register", "cleanup", "send", "tables"}
      BY <2>2 DEF WaitsFor
    <2> QED
      BY <2>1, <2>2
  <1> QED
    BY <1>7

\* What a client writes comes after what it wrote before.
LEMMA WriteAppends ==
    ASSUME frames \in [Clients -> Seq(Frames)], NEW c \in Clients, NEW frame \in Frames,
           TcpWrite(c, frame)
    PROVE  /\ frames' \in [Clients -> Seq(Frames)]
           /\ \A d \in Clients : d # c => frames'[d] = frames[d]
           /\ frames'[c] # <<>>
           /\ \A i \in 1..Len(frames'[c]) :
                \/ i = Len(frames[c]) + 1 /\ frames'[c][i] = frame
                \/ i \in 1..Len(frames[c]) /\ frames'[c][i] = frames[c][i]
  <1>1. PICK q \in Seq(Frames) : q = frames[c]
    OBVIOUS
  <1>2. PICK s \in Seq(Frames) : s = Append(q, frame)
    <2>1. Append(q, frame) \in Seq(Frames)
      OBVIOUS
    <2> QED
      BY <2>1
  <1>3. frames' = [frames EXCEPT ![c] = s]
    BY <1>1, <1>2 DEF TcpWrite
  <1>4. Len(s) = Len(q) + 1 /\ Len(q) \in Nat /\ s # <<>>
    BY <1>2
  <1>5. ASSUME NEW i \in 1..Len(s)
        PROVE  \/ i = Len(q) + 1 /\ s[i] = frame
               \/ i \in 1..Len(q) /\ s[i] = q[i]
    <2>1. CASE i = Len(q) + 1
      BY <1>2, <2>1
    <2>2. CASE i # Len(q) + 1
      <3>1. i \in 1..Len(q)
        BY <1>4, <2>2
      <3> QED
        BY <1>2, <3>1
    <2> QED
      BY <2>1, <2>2
  <1>6. frames'[c] = s
    BY <1>3
  <1> QED
    BY <1>1, <1>3, <1>4, <1>5, <1>6

\* What the daemon reads takes nothing but the first frame away.
LEMMA ReadTakesHead ==
    ASSUME frames \in [Clients -> Seq(Frames)], NEW c \in Clients, frames[c] # <<>>,
           frames' = [frames EXCEPT ![c] = Tail(@)]
    PROVE  /\ frames' \in [Clients -> Seq(Frames)]
           /\ \A d \in Clients : d # c => frames'[d] = frames[d]
           /\ Head(frames[c]) \in Frames
           /\ 1 \in 1..Len(frames[c]) /\ Head(frames[c]) = frames[c][1]
           /\ \A i \in 1..Len(frames'[c]) :
                i + 1 \in 1..Len(frames[c]) /\ i + 1 # 1 /\ frames'[c][i] = frames[c][i + 1]
  <1>1. PICK q \in Seq(Frames) : q = frames[c] /\ q # <<>>
    OBVIOUS
  <1>2. PICK s \in Seq(Frames) : s = Tail(q)
    <2>1. Tail(q) \in Seq(Frames)
      BY <1>1
    <2> QED
      BY <2>1
  <1>3. frames' = [frames EXCEPT ![c] = s]
    BY <1>1, <1>2
  <1>4. Len(s) = Len(q) - 1 /\ Len(q) \in Nat /\ Len(q) >= 1 /\ Head(q) = q[1] /\ Head(q) \in Frames
    BY <1>1, <1>2
  <1>5. ASSUME NEW i \in 1..Len(s)
        PROVE  i + 1 \in 1..Len(q) /\ i + 1 # 1 /\ s[i] = q[i + 1]
    BY <1>1, <1>2, <1>4
  <1>6. frames'[c] = s
    BY <1>3
  <1>7. 1 \in 1..Len(q)
    BY <1>4
  <1> QED
    BY <1>1, <1>3, <1>4, <1>5, <1>6, <1>7

\* A step of a client changes what it waits for and may add a frame: an exec only
\* when it waits for its outcome.
LEMMA ClientKeepsServing ==
    ASSUME ServeInv, NEW c \in Clients, NEW place \in ClientPlaces, place # "off",
           tcp_client' = [tcp_client EXCEPT ![c] = place],
           UNCHANGED <<tcp_task, stream_lock, tcp_conns_lock, tables_lock>>,
           tcp_client[c] \in {"drain", "gone"} => place \in {"drain", "gone"},
           \/ UNCHANGED frames
           \/ \E frame \in Frames : /\ TcpWrite(c, frame)
                                    /\ frame = "exec" => tcp_client[c] = "ready" /\ place = "drain"
    PROVE  ServeInv'
  <1>1. /\ tcp_client \in [Clients -> ClientPlaces] /\ frames \in [Clients -> Seq(Frames)]
        /\ tcp_task \in [Tasks -> Task]
    BY DEF ServeInv, ServeType
  <1>2. /\ frames' \in [Clients -> Seq(Frames)]
        /\ \A d \in Clients : d # c => frames'[d] = frames[d]
        /\ frames[c] # <<>> => frames'[c] # <<>>
        /\ \A i \in 1..Len(frames'[c]) :
             \/ i = Len(frames[c]) + 1 /\ (frames'[c][i] = "exec" => tcp_client[c] = "ready" /\ place = "drain")
             \/ i \in 1..Len(frames[c]) /\ frames'[c][i] = frames[c][i]
    <2>1. CASE UNCHANGED frames
      BY <1>1, <2>1
    <2>2. CASE \E frame \in Frames : /\ TcpWrite(c, frame)
                                     /\ frame = "exec" => tcp_client[c] = "ready" /\ place = "drain"
      BY <1>1, <2>2, WriteAppends
    <2> QED
      BY <2>1, <2>2
  <1>3. /\ tcp_client' \in [Clients -> ClientPlaces] /\ tcp_client'[c] = place
        /\ \A d \in Clients : d # c => tcp_client'[d] = tcp_client[d]
    BY <1>1
  <1>4. ServeType'
    BY <1>2, <1>3 DEF ServeInv, ServeType
  <1>5. Holders'
    BY DEF ServeInv, Holders, TaskAt
  <1>6. AskedFor'
    <2>1. SUFFICES ASSUME NEW d \in Clients, Asked(d)'
                   PROVE  tcp_client'[d] \in {"drain", "gone"}
      BY DEF AskedFor
    <2>2. CASE d # c
      BY <1>2, <1>3, <2>1, <2>2 DEF ServeInv, AskedFor, Asked
    <2>3. CASE d = c /\ Asked(c)
      BY <1>3, <2>3 DEF ServeInv, AskedFor
    <2>4. CASE d = c /\ ~ Asked(c)
      <3>1. PICK i \in 1..Len(frames'[c]) : frames'[c][i] = "exec"
        BY <2>1, <2>4 DEF Asked
      <3> QED
        BY <1>2, <1>3, <2>4, <3>1 DEF Asked
    <2> QED
      BY <2>2, <2>3, <2>4
  <1>7. Supplied' /\ Unconnected'
    BY <1>2, <1>3 DEF ServeInv, Supplied, Unconnected, TaskAt
  <1>8. ASSUME NEW d \in Clients
        PROVE  Once(d)'
    <2>1. CASE d # c
      BY <1>2, <2>1 DEF ServeInv, OneExec, Once
    <2>2. CASE d = c /\ ~ (\E i \in 1..Len(frames'[c]) : frames'[c][i] = "exec")
      BY <2>2 DEF ServeInv, OneExec, Once
    <2>3. CASE d = c /\ tcp_client[c] # "ready"
      <3>1. \A i \in 1..Len(frames'[c]) :
               frames'[c][i] = "exec" => i \in 1..Len(frames[c]) /\ frames[c][i] = "exec"
        BY <1>2, <2>3
      <3> QED
        BY <2>3, <3>1 DEF ServeInv, OneExec, Once
    <2>4. CASE d = c /\ tcp_client[c] = "ready"
      <3>1. ~ Asked(c)
        BY <2>4 DEF ServeInv, AskedFor
      <3>2. \A i \in 1..Len(frames'[c]) : frames'[c][i] = "exec" => i = Len(frames[c]) + 1
        BY <1>2, <3>1 DEF Asked
      <3> QED
        BY <2>4, <3>1, <3>2 DEF Asked, Once
    <2> QED
      BY <2>1, <2>2, <2>3, <2>4
  <1> QED
    BY <1>4, <1>5, <1>6, <1>7, <1>8 DEF ServeInv, OneExec

\* A step of the tasks of one client leaves the others alone; what is left to show
\* is what it makes of its locks and of its exec.
LEMMA TasksKeepServing ==
    ASSUME ServeInv, NEW c \in Clients, UNCHANGED tcp_client,
           tcp_task' \in [Tasks -> Task],
           \A t \in Tasks : Owner(t) # c => tcp_task'[t] = tcp_task[t],
           frames' \in [Clients -> Seq(Frames)],
           \A d \in Clients : d # c => frames'[d] = frames[d],
           stream_lock' \in [Clients -> Tasks \cup {Nobody}],
           tcp_conns_lock' \in Tasks \cup {Nobody}, tables_lock' \in Tasks \cup {Nobody},
           Holders',
           Asked(c)' => Asked(c), Once(c)',
           \A t \in {Reader(c), ExecTask(c)} :
                tcp_task'[t].pc \in {"send", "stream"} => tcp_task'[t].send # <<>>,
           tcp_task'[Reader(c)].pc = "body" => frames'[c] # <<>>,
           tcp_task[Reader(c)].pc # "none" \/ tcp_task'[Reader(c)] = tcp_task[Reader(c)]
    PROVE  ServeInv'
  <1>1. ServeType'
    BY DEF ServeInv, ServeType
  <1>2. \A d \in Clients : d # c => tcp_task'[Reader(d)] = tcp_task[Reader(d)]
                                    /\ tcp_task'[ExecTask(d)] = tcp_task[ExecTask(d)]
    BY TaskNames
  <1>3. AskedFor'
    <2>1. \A d \in Clients : d # c /\ Asked(d)' => Asked(d)
      BY <1>2 DEF Asked
    <2> QED
      BY <2>1 DEF ServeInv, AskedFor
  <1>4. Supplied'
    <2>1. ASSUME NEW t \in Tasks, tcp_task'[t].pc \in {"send", "stream"}
          PROVE  tcp_task'[t].send # <<>>
      BY <2>1, TaskNames DEF ServeInv, Supplied
    <2>2. ASSUME NEW d \in Clients, tcp_task'[Reader(d)].pc = "body"
          PROVE  frames'[d] # <<>>
      BY <1>2, <2>2 DEF ServeInv, Supplied, TaskAt
    <2> QED
      BY <2>1, <2>2 DEF Supplied, TaskAt
  <1>5. Unconnected'
    BY <1>2 DEF ServeInv, Unconnected, TaskAt
  <1>6. OneExec'
    <2>1. \A d \in Clients : d # c => Once(d)'
      BY <1>2 DEF ServeInv, OneExec, Once
    <2> QED
      BY <2>1 DEF OneExec
  <1> QED
    BY <1>1, <1>3, <1>4, <1>5, <1>6 DEF ServeInv

\* A task that changes its place changes nothing else.
LEMMA GoesChangesPlace ==
    ASSUME ServeType, NEW t \in Tasks, NEW pc \in TaskPlaces, TaskGoes(t, pc)
    PROVE  /\ tcp_task' \in [Tasks -> Task]
           /\ \A u \in Tasks : u # t => tcp_task'[u] = tcp_task[u]
           /\ tcp_task'[t].pc = pc /\ tcp_task'[t].frame = tcp_task[t].frame
           /\ tcp_task'[t].send = tcp_task[t].send
  <1>1. tcp_task \in [Tasks -> Task] /\ tcp_task[t] \in Task
    BY DEF ServeType
  <1>2. PICK n \in Task : n = [tcp_task[t] EXCEPT !.pc = pc]
    <2>1. [tcp_task[t] EXCEPT !.pc = pc] \in Task
      BY <1>1 DEF Task
    <2> QED
      BY <2>1
  <1>3. n.pc = pc /\ n.frame = tcp_task[t].frame /\ n.send = tcp_task[t].send
    BY <1>1, <1>2 DEF Task
  <1>4. tcp_task' = [tcp_task EXCEPT ![t] = n]
    BY <1>1, <1>2 DEF TaskGoes
  <1> QED
    BY <1>1, <1>3, <1>4

\* The places by name.
LEMMA PlacesOfTasks ==
    \A pc \in {"none", "length", "read length", "body", "register", "cleanup", "ended", "tables",
               "send", "stream", "native", "select"} : pc \in TaskPlaces
  BY DEF TaskPlaces

\* A reader that goes on without a message to send.
LEMMA ReaderGoes ==
    ASSUME ServeInv, NEW c \in Clients, NEW pc \in TaskPlaces \ {"send", "stream"},
           TaskGoes(Reader(c), pc), UNCHANGED <<tcp_client, frames>>,
           tcp_task[Reader(c)].pc # "none", pc = "body" => frames[c] # <<>>,
           stream_lock' \in [Clients -> Tasks \cup {Nobody}],
           tcp_conns_lock' \in Tasks \cup {Nobody}, tables_lock' \in Tasks \cup {Nobody},
           Holders'
    PROVE  ServeInv'
  <1>1. ServeType /\ Reader(c) \in Tasks /\ ExecTask(c) \in Tasks
    BY TaskNames DEF ServeInv
  <1>2. /\ tcp_task' \in [Tasks -> Task]
        /\ \A u \in Tasks : u # Reader(c) => tcp_task'[u] = tcp_task[u]
        /\ tcp_task'[Reader(c)].pc = pc /\ tcp_task'[Reader(c)].frame = tcp_task[Reader(c)].frame
    BY <1>1, GoesChangesPlace
  <1>3. tcp_task'[ExecTask(c)] = tcp_task[ExecTask(c)]
    BY <1>1, <1>2, TaskNames
  <1>4. (Asked(c)' => Asked(c)) /\ Once(c)'
    BY <1>2, <1>3 DEF Asked, ServeInv, OneExec, Once
  <1>5. \A t \in {Reader(c), ExecTask(c)} :
            tcp_task'[t].pc \in {"send", "stream"} => tcp_task'[t].send # <<>>
    BY <1>1, <1>2, <1>3 DEF ServeInv, Supplied
  <1>6. \A t \in Tasks : Owner(t) # c => tcp_task'[t] = tcp_task[t]
    BY <1>2, TaskNames
  <1>7. frames' \in [Clients -> Seq(Frames)] /\ \A d \in Clients : frames'[d] = frames[d]
    BY DEF ServeInv, ServeType
  <1> QED
    BY <1>2, <1>4, <1>5, <1>6, <1>7, TasksKeepServing

\* handle_tcp_client, up to the handling of a frame.
LEMMA ReaderKeepsServing ==
    ASSUME ServeInv, NEW c \in Clients,
           LockStream(c) \/ ReadLength(c) \/ ReadFails(c) \/ RegisterStream(c) \/ CleanUp(c)
                         \/ HandleNative(c)
    PROVE  ServeInv'
  <1>1. ServeType /\ Reader(c) \in Tasks /\ ExecTask(c) \in Tasks
    BY TaskNames DEF ServeInv
  <1>2. /\ stream_lock \in [Clients -> Tasks \cup {Nobody}] /\ tcp_conns_lock \in Tasks \cup {Nobody}
        /\ tables_lock \in Tasks \cup {Nobody}
    BY <1>1 DEF ServeType
  <1>3. CASE LockStream(c)
    <2>1. TaskGoes(Reader(c), "read length") /\ tcp_task[Reader(c)].pc = "length"
      BY <1>3 DEF LockStream, TaskAt
    <2>2. /\ \A u \in Tasks : u # Reader(c) => tcp_task'[u] = tcp_task[u]
          /\ tcp_task'[Reader(c)].pc = "read length"
      BY <1>1, <2>1, PlacesOfTasks, GoesChangesPlace
    <2>3. /\ UNCHANGED <<tcp_client, frames, tcp_conns_lock, tables_lock>>
          /\ stream_lock' = [stream_lock EXCEPT ![c] = Reader(c)]
      BY <1>3 DEF LockStream
    <2>4. Holders'
      BY <1>2, <2>1, <2>2, <2>3, TaskNames DEF ServeInv, Holders, TaskAt
    <2> QED
      BY <1>1, <1>2, <2>1, <2>3, <2>4, PlacesOfTasks, ReaderGoes
  <1>4. CASE ReadLength(c)
    <2>1. /\ TaskGoes(Reader(c), "body") /\ tcp_task[Reader(c)].pc = "read length"
          /\ frames[c] # <<>>
      BY <1>4 DEF ReadLength, TaskAt
    <2>2. /\ \A u \in Tasks : u # Reader(c) => tcp_task'[u] = tcp_task[u]
          /\ tcp_task'[Reader(c)].pc = "body"
      BY <1>1, <2>1, PlacesOfTasks, GoesChangesPlace
    <2>3. /\ UNCHANGED <<tcp_client, frames, tcp_conns_lock, tables_lock>>
          /\ stream_lock' = [stream_lock EXCEPT ![c] = Nobody]
      BY <1>4 DEF ReadLength
    <2>4. Holders'
      BY <1>2, <2>1, <2>2, <2>3, TaskNames DEF ServeInv, Holders, TaskAt
    <2> QED
      BY <1>1, <1>2, <2>1, <2>3, <2>4, PlacesOfTasks, ReaderGoes
  <1>5. CASE ReadFails(c)
    <2>1. TaskGoes(Reader(c), "cleanup") /\ tcp_task[Reader(c)].pc = "read length"
      BY <1>5 DEF ReadFails, TaskAt
    <2>2. /\ \A u \in Tasks : u # Reader(c) => tcp_task'[u] = tcp_task[u]
          /\ tcp_task'[Reader(c)].pc = "cleanup"
      BY <1>1, <2>1, PlacesOfTasks, GoesChangesPlace
    <2>3. /\ UNCHANGED <<tcp_client, frames, tcp_conns_lock, tables_lock>>
          /\ stream_lock' = [stream_lock EXCEPT ![c] = Nobody]
      BY <1>5 DEF ReadFails
    <2>4. Holders'
      BY <1>2, <2>1, <2>2, <2>3, TaskNames DEF ServeInv, Holders, TaskAt
    <2> QED
      BY <1>1, <1>2, <2>1, <2>3, <2>4, PlacesOfTasks, ReaderGoes
  <1>6. CASE RegisterStream(c) \/ CleanUp(c)
    <2>1. PICK pc \in {"tables", "ended"} : TaskGoes(Reader(c), pc)
      BY <1>6 DEF RegisterStream, CleanUp
    <2>2. /\ UNCHANGED <<tcp_client, frames, stream_lock, tcp_conns_lock, tables_lock>>
          /\ tcp_task[Reader(c)].pc \in {"register", "cleanup"}
      BY <1>6 DEF RegisterStream, CleanUp, TaskAt
    <2>3. pc \in TaskPlaces \ {"send", "stream"} /\ pc # "body"
      BY PlacesOfTasks
    <2>4. /\ \A u \in Tasks : u # Reader(c) => tcp_task'[u] = tcp_task[u]
          /\ tcp_task'[Reader(c)].pc = pc
      BY <1>1, <2>1, <2>3, GoesChangesPlace
    <2>5. Holders'
      BY <1>2, <2>1, <2>2, <2>4, TaskNames DEF ServeInv, Holders, TaskAt
    <2> QED
      BY <1>1, <1>2, <2>1, <2>2, <2>3, <2>5, ReaderGoes
  <1>7. CASE HandleNative(c)
    <2>1. /\ TaskGoes(Reader(c), "native") /\ tcp_task[Reader(c)].pc = "tables"
          /\ tables_lock' = Reader(c)
      BY <1>7 DEF HandleNative, Controls, Handles, TaskAt
    <2>2. /\ \A u \in Tasks : u # Reader(c) => tcp_task'[u] = tcp_task[u]
          /\ tcp_task'[Reader(c)].pc = "native"
      BY <1>1, <2>1, PlacesOfTasks, GoesChangesPlace
    <2>3. UNCHANGED <<tcp_client, frames, stream_lock, tcp_conns_lock>>
      BY <1>7 DEF HandleNative
    <2>4. Holders'
      BY <1>2, <2>1, <2>2, <2>3, TaskNames DEF ServeInv, Holders, TaskAt
    <2> QED
      BY <1>1, <1>2, <2>1, <2>3, <2>4, PlacesOfTasks, ReaderGoes
  <1> QED
    BY <1>3, <1>4, <1>5, <1>6, <1>7

\* A task that runs already becomes n, and no exec comes of it.
LEMMA TaskBecomes ==
    ASSUME ServeInv, NEW t \in Tasks, NEW n \in Task, tcp_task' = [tcp_task EXCEPT ![t] = n],
           UNCHANGED <<tcp_client, frames>>,
           tcp_task[t].pc # "none", n.frame = "exec" => tcp_task[t].frame = "exec",
           n.pc \in {"send", "stream"} => n.send # <<>>, n.pc # "body",
           stream_lock' \in [Clients -> Tasks \cup {Nobody}],
           tcp_conns_lock' \in Tasks \cup {Nobody}, tables_lock' \in Tasks \cup {Nobody},
           Holders'
    PROVE  ServeInv'
  <1>1. PICK c \in Clients : c = Owner(t)
    BY TaskNames
  <1>2. /\ Reader(c) \in Tasks /\ ExecTask(c) \in Tasks /\ (t = Reader(c) \/ t = ExecTask(c))
        /\ Reader(c) # ExecTask(c)
    BY <1>1, TaskNames
  <1>3. /\ tcp_task' \in [Tasks -> Task] /\ tcp_task'[t] = n
        /\ \A u \in Tasks : u # t => tcp_task'[u] = tcp_task[u]
    BY DEF ServeInv, ServeType
  <1>4. (Asked(c)' => Asked(c)) /\ Once(c)'
    BY <1>2, <1>3 DEF Asked, ServeInv, OneExec, Once
  <1>5. \A u \in {Reader(c), ExecTask(c)} :
            tcp_task'[u].pc \in {"send", "stream"} => tcp_task'[u].send # <<>>
    BY <1>2, <1>3 DEF ServeInv, Supplied
  <1>6. \A u \in Tasks : Owner(u) # c => tcp_task'[u] = tcp_task[u]
    BY <1>1, <1>3
  <1>7. frames' \in [Clients -> Seq(Frames)] /\ \A d \in Clients : frames'[d] = frames[d]
    BY DEF ServeInv, ServeType
  <1>8. tcp_task'[Reader(c)].pc = "body" => frames'[c] # <<>>
    BY <1>2, <1>3 DEF ServeInv, Supplied, TaskAt
  <1>9. tcp_task[Reader(c)].pc # "none" \/ tcp_task'[Reader(c)] = tcp_task[Reader(c)]
    BY <1>2, <1>3
  <1> QED
    BY <1>3, <1>4, <1>5, <1>6, <1>7, <1>8, <1>9, TasksKeepServing

\* A task with a place and messages, and no frame.
LEMMA NewTasks ==
    \A pc \in TaskPlaces : \A messages \in Seq(Replies) :
        /\ [NoTask EXCEPT !.pc = pc, !.send = messages] \in Task
        /\ [NoTask EXCEPT !.pc = pc, !.send = messages].pc = pc
        /\ [NoTask EXCEPT !.pc = pc, !.send = messages].frame = "none"
        /\ [NoTask EXCEPT !.pc = pc, !.send = messages].send = messages
  BY DEF NoTask, Task, Frames

\* The body of a frame is read, which the reader then deals with.
LEMMA BodyKeepsServing ==
    ASSUME ServeInv, NEW c \in Clients, ReadBody(c)
    PROVE  ServeInv'
  <1>1. /\ Reader(c) \in Tasks /\ ExecTask(c) \in Tasks /\ Reader(c) # ExecTask(c)
        /\ tcp_task \in [Tasks -> Task] /\ tcp_task[Reader(c)] \in Task
        /\ frames \in [Clients -> Seq(Frames)]
    BY TaskNames DEF ServeInv, ServeType
  <1>2. /\ UNCHANGED <<tcp_client, stream_lock, tcp_conns_lock, tables_lock>>
        /\ tcp_task[Reader(c)].pc = "body" /\ frames[c] # <<>>
        /\ frames' = [frames EXCEPT ![c] = Tail(@)]
    BY DEF ReadBody, TaskAt, ServeInv, Supplied
  <1>3. /\ frames' \in [Clients -> Seq(Frames)]
        /\ \A d \in Clients : d # c => frames'[d] = frames[d]
        /\ Head(frames[c]) \in Frames
        /\ 1 \in 1..Len(frames[c]) /\ Head(frames[c]) = frames[c][1]
        /\ \A i \in 1..Len(frames'[c]) :
             i + 1 \in 1..Len(frames[c]) /\ i + 1 # 1 /\ frames'[c][i] = frames[c][i + 1]
    BY <1>1, <1>2, ReadTakesHead
  <1>4. PICK h \in Frames : h = Head(frames[c])
    BY <1>3
  <1>5. PICK n \in Task : n = [tcp_task[Reader(c)] EXCEPT !.pc = "register", !.frame = h]
    <2>1. [tcp_task[Reader(c)] EXCEPT !.pc = "register", !.frame = h] \in Task
      BY <1>1, <1>4, PlacesOfTasks DEF Task
    <2> QED
      BY <2>1
  <1>6. n.pc = "register" /\ n.frame = h
    BY <1>1, <1>5 DEF Task
  <1>7. tcp_task' = [tcp_task EXCEPT ![Reader(c)] = n]
    BY <1>1, <1>4, <1>5 DEF ReadBody, FrameRead
  <1>8. /\ tcp_task' \in [Tasks -> Task] /\ tcp_task'[Reader(c)] = n
        /\ \A u \in Tasks : u # Reader(c) => tcp_task'[u] = tcp_task[u]
    BY <1>1, <1>7
  <1>9. Asked(c)' => Asked(c)
    BY <1>1, <1>3, <1>4, <1>6, <1>8 DEF Asked
  <1>10. Once(c)'
    <2>1. tcp_task'[ExecTask(c)] = tcp_task[ExecTask(c)] /\ tcp_task'[Reader(c)].frame = frames[c][1]
      BY <1>1, <1>3, <1>4, <1>6, <1>8
    <2>2. Once(c)
      BY DEF ServeInv, OneExec
    <2>3. ASSUME NEW i \in 1..Len(frames'[c]), NEW j \in 1..Len(frames'[c]),
                 frames'[c][i] = "exec", frames'[c][j] = "exec"
          PROVE  i = j
      <3>1. frames[c][i + 1] = "exec" /\ frames[c][j + 1] = "exec"
        BY <1>3, <2>3
      <3>2. i + 1 = j + 1
        BY <1>3, <2>2, <3>1 DEF Once
      <3> QED
        BY <3>2
    <2>4. ASSUME NEW i \in 1..Len(frames'[c]), frames'[c][i] = "exec"
          PROVE  frames[c][1] # "exec" /\ tcp_task[ExecTask(c)].pc = "none"
      <3>1. frames[c][i + 1] = "exec" /\ i + 1 # 1
        BY <1>3, <2>4
      <3> QED
        BY <1>3, <2>2, <3>1 DEF Once
    <2>5. frames[c][1] = "exec" => tcp_task[ExecTask(c)].pc = "none"
      BY <1>3, <2>2 DEF Once
    <2> QED
      BY <2>1, <2>3, <2>4, <2>5 DEF Once
  <1>11. Holders'
    BY <1>1, <1>2, <1>6, <1>8, TaskNames DEF ServeInv, ServeType, Holders, TaskAt
  <1>12. \A u \in {Reader(c), ExecTask(c)} :
            tcp_task'[u].pc \in {"send", "stream"} => tcp_task'[u].send # <<>>
    BY <1>1, <1>6, <1>8 DEF ServeInv, Supplied
  <1>13. \A u \in Tasks : Owner(u) # c => tcp_task'[u] = tcp_task[u]
    BY <1>8, TaskNames
  <1>14. /\ stream_lock' \in [Clients -> Tasks \cup {Nobody}] /\ tcp_conns_lock' \in Tasks \cup {Nobody}
         /\ tables_lock' \in Tasks \cup {Nobody}
    BY <1>2 DEF ServeInv, ServeType
  <1>15. tcp_task'[Reader(c)].pc # "body" /\ tcp_task[Reader(c)].pc # "none"
    BY <1>2, <1>6, <1>8
  <1> QED
    BY <1>2, <1>3, <1>8, <1>9, <1>10, <1>11, <1>12, <1>13, <1>14, <1>15,
       TasksKeepServing

\* A frame is handled: the reader returns, or keeps the tables while it sends.
LEMMA AnswersKeepServing ==
    ASSUME ServeInv, NEW c \in Clients, NEW messages \in Seq(Replies), Answers(c, messages),
           UNCHANGED <<tcp_client, frames, stream_lock, tcp_conns_lock>>,
           \/ TaskAt(Reader(c), "tables") /\ tables_lock = Nobody
           \/ TaskAt(Reader(c), "native")
    PROVE  ServeInv'
  <1>1. /\ Reader(c) \in Tasks
        /\ tcp_task \in [Tasks -> Task] /\ stream_lock \in [Clients -> Tasks \cup {Nobody}]
        /\ tcp_conns_lock \in Tasks \cup {Nobody} /\ tables_lock \in Tasks \cup {Nobody}
    BY TaskNames DEF ServeInv, ServeType
  <1>2. PICK pc \in {"length", "send"} : pc = IF messages = <<>> THEN "length" ELSE "send"
    OBVIOUS
  <1>3. PICK n \in Task : n = [NoTask EXCEPT !.pc = pc, !.send = messages]
    BY <1>2, NewTasks, PlacesOfTasks
  <1>4. n.pc = pc /\ n.frame = "none" /\ n.send = messages
    BY <1>2, <1>3 DEF NoTask
  <1>5. tcp_task' = [tcp_task EXCEPT ![Reader(c)] = n]
    BY <1>2, <1>3 DEF Answers
  <1>6. tables_lock' = IF messages = <<>> THEN Nobody ELSE Reader(c)
    BY DEF Answers
  <1>7. /\ tcp_task'[Reader(c)] = n
        /\ \A u \in Tasks : u # Reader(c) => tcp_task'[u] = tcp_task[u]
    BY <1>1, <1>5
  <1>8. tcp_task[Reader(c)].pc \in {"tables", "native"}
    BY DEF TaskAt
  <1>9. Holders'
    BY <1>1, <1>2, <1>4, <1>6, <1>7, <1>8, TaskNames DEF ServeInv, Holders, TaskAt
  <1> QED
    BY <1>1, <1>2, <1>4, <1>5, <1>6, <1>8, <1>9, TaskBecomes

\* Exec and NativeSpawn: a task is started for the output of a client that asked
\* for it and has none yet.
LEMMA SpawnKeepsServing ==
    ASSUME ServeInv, NEW c \in Clients, Controls(c, "exec"),
           tcp_task' = [tcp_task EXCEPT ![Reader(c)] = [NoTask EXCEPT !.pc = "send", !.send = <<"started">>],
                                        ![ExecTask(c)].pc = "select"],
           tables_lock' = Reader(c), UNCHANGED <<tcp_client, frames, stream_lock, tcp_conns_lock>>
    PROVE  ServeInv'
  <1>1. /\ Reader(c) \in Tasks /\ ExecTask(c) \in Tasks /\ Reader(c) # ExecTask(c)
        /\ tcp_task \in [Tasks -> Task] /\ tcp_task[ExecTask(c)] \in Task
        /\ stream_lock \in [Clients -> Tasks \cup {Nobody}] /\ frames \in [Clients -> Seq(Frames)]
        /\ tcp_conns_lock \in Tasks \cup {Nobody} /\ tables_lock \in Tasks \cup {Nobody}
    BY TaskNames DEF ServeInv, ServeType
  <1>2. /\ tcp_task[Reader(c)].pc = "tables" /\ tcp_task[Reader(c)].frame = "exec"
        /\ tables_lock = Nobody
    BY DEF Controls, Handles, TaskAt
  <1>3. Once(c) /\ tcp_task[ExecTask(c)].pc = "none"
    BY <1>2 DEF ServeInv, OneExec, Once
  <1>4. PICK n \in Task : n = [NoTask EXCEPT !.pc = "send", !.send = <<"started">>]
    <2>1. <<"started">> \in Seq(Replies)
      BY DEF Replies
    <2> QED
      BY <2>1, NewTasks, PlacesOfTasks
  <1>5. n.pc = "send" /\ n.frame = "none" /\ n.send # <<>>
    <2>1. n.send = <<"started">>
      BY <1>4 DEF NoTask
    <2>2. <<"started">> # <<>>
      OBVIOUS
    <2> QED
      BY <1>4, <2>1, <2>2 DEF NoTask
  <1>6. PICK x \in Task : x = [tcp_task[ExecTask(c)] EXCEPT !.pc = "select"]
    <2>1. [tcp_task[ExecTask(c)] EXCEPT !.pc = "select"] \in Task
      BY <1>1, PlacesOfTasks DEF Task
    <2> QED
      BY <2>1
  <1>7. x.pc = "select" /\ x.frame = tcp_task[ExecTask(c)].frame
    BY <1>1, <1>6 DEF Task
  <1>8. tcp_task' = [tcp_task EXCEPT ![Reader(c)] = n, ![ExecTask(c)] = x]
    BY <1>1, <1>4, <1>6
  <1>9. /\ tcp_task' \in [Tasks -> Task] /\ tcp_task'[Reader(c)] = n /\ tcp_task'[ExecTask(c)] = x
        /\ \A u \in Tasks : u # Reader(c) /\ u # ExecTask(c) => tcp_task'[u] = tcp_task[u]
    BY <1>1, <1>8
  <1>10. Asked(c) /\ Once(c)'
    BY <1>2, <1>3, <1>5, <1>7, <1>9 DEF Asked, Once
  <1>11. Holders'
    BY <1>1, <1>2, <1>3, <1>5, <1>7, <1>9, TaskNames DEF ServeInv, Holders, TaskAt
  <1>12. \A u \in {Reader(c), ExecTask(c)} :
            tcp_task'[u].pc \in {"send", "stream"} => tcp_task'[u].send # <<>>
    BY <1>5, <1>7, <1>9
  <1>13. \A u \in Tasks : Owner(u) # c => tcp_task'[u] = tcp_task[u]
    BY <1>9, TaskNames
  <1>14. /\ stream_lock' \in [Clients -> Tasks \cup {Nobody}] /\ tcp_conns_lock' \in Tasks \cup {Nobody}
         /\ tables_lock' \in Tasks \cup {Nobody} /\ frames' \in [Clients -> Seq(Frames)]
         /\ \A d \in Clients : frames'[d] = frames[d]
    BY <1>1
  <1>15. tcp_task'[Reader(c)].pc # "body" /\ tcp_task[Reader(c)].pc # "none"
    BY <1>2, <1>5, <1>9
  <1> QED
    BY <1>9, <1>10, <1>11, <1>12, <1>13, <1>14, <1>15, TasksKeepServing

\* The task of an exec takes up output, or the end of the child.
LEMMA OutputKeepsServing ==
    ASSUME ServeInv, NEW c \in Clients, ExecOutput(c)
    PROVE  ServeInv'
  <1> DEFINE t == ExecTask(c)
  <1>1. /\ t \in Tasks /\ tcp_task \in [Tasks -> Task] /\ tcp_task[t] \in Task
        /\ stream_lock \in [Clients -> Tasks \cup {Nobody}]
        /\ tcp_conns_lock \in Tasks \cup {Nobody} /\ tables_lock \in Tasks \cup {Nobody}
    BY TaskNames DEF ServeInv, ServeType
  <1>2. /\ tcp_task[t].pc = "select" /\ UNCHANGED <<tcp_client, frames, stream_lock, tcp_conns_lock, tables_lock>>
    BY DEF ExecOutput, TaskAt
  <1>3. /\ <<"chunk">> \in Seq(Replies) /\ <<"done">> \in Seq(Replies)
    BY DEF Replies
  <1>4. /\ <<"chunk">> # <<>> /\ <<"done">> # <<>>
    OBVIOUS
  <1>5. PICK m \in {<<"chunk">>, <<"done">>}, k \in Nat :
            tcp_task' = [tcp_task EXCEPT ![t] = [tcp_task[t] EXCEPT !.pc = "send", !.send = m, !.chunks = k]]
    <2>1. tcp_task[t].chunks \in Nat /\ tcp_task[t].chunks + 1 \in Nat
      BY <1>1 DEF Task
    <2>2. CASE tcp_task' = [tcp_task EXCEPT ![t].pc = "send", ![t].send = <<"chunk">>, ![t].chunks = @ + 1]
      <3>1. tcp_task' = [tcp_task EXCEPT ![t] = [tcp_task[t] EXCEPT !.pc = "send", !.send = <<"chunk">>,
                                                      !.chunks = tcp_task[t].chunks + 1]]
        BY <1>1, <2>2 DEF Task
      <3> QED
        BY <2>1, <3>1
    <2>3. CASE tcp_task' = [tcp_task EXCEPT ![t].pc = "send", ![t].send = <<"done">>]
      <3>1. tcp_task' = [tcp_task EXCEPT ![t] = [tcp_task[t] EXCEPT !.pc = "send", !.send = <<"done">>,
                                                      !.chunks = tcp_task[t].chunks]]
        BY <1>1, <2>3 DEF Task
      <3> QED
        BY <2>1, <3>1
    <2> QED
      BY <2>2, <2>3 DEF ExecOutput
  <1>6. PICK n \in Task : n = [tcp_task[t] EXCEPT !.pc = "send", !.send = m, !.chunks = k]
    <2>1. [tcp_task[t] EXCEPT !.pc = "send", !.send = m, !.chunks = k] \in Task
      BY <1>1, <1>3, <1>5, PlacesOfTasks DEF Task
    <2> QED
      BY <2>1
  <1>7. n.pc = "send" /\ n.send = m /\ n.frame = tcp_task[t].frame
    BY <1>1, <1>6 DEF Task
  <1>8. n.send # <<>>
    BY <1>4, <1>5, <1>7
  <1>9. tcp_task' = [tcp_task EXCEPT ![t] = n]
    BY <1>5, <1>6
  <1>10. tcp_task'[t] = n /\ \A u \in Tasks : u # t => tcp_task'[u] = tcp_task[u]
    BY <1>1, <1>9
  <1>11. Holders'
    BY <1>1, <1>2, <1>7, <1>10, TaskNames DEF ServeInv, Holders, TaskAt
  <1> QED
    BY <1>1, <1>2, <1>7, <1>8, <1>9, <1>11, TaskBecomes

\* A message is sent or given up: the task goes on with the next, or returns.
LEMMA AfterSendKeepsServing ==
    ASSUME ServeInv, NEW t \in Tasks, AfterSend(t), tcp_task[t].pc \in {"send", "stream"},
           UNCHANGED <<tcp_client, frames, stream_lock>>,
           tcp_conns_lock' = Nobody
    PROVE  ServeInv'
  <1>1. /\ tcp_task \in [Tasks -> Task] /\ tcp_task[t] \in Task
        /\ stream_lock \in [Clients -> Tasks \cup {Nobody}]
        /\ tcp_conns_lock \in Tasks \cup {Nobody} /\ tables_lock \in Tasks \cup {Nobody}
    BY DEF ServeInv, ServeType
  <1>2. PICK rest \in Seq(Replies) : rest = Tail(tcp_task[t].send)
    <2>1. tcp_task[t].send \in Seq(Replies) /\ tcp_task[t].send # <<>>
      BY <1>1 DEF ServeInv, Supplied, Task
    <2>2. Tail(tcp_task[t].send) \in Seq(Replies)
      BY <2>1
    <2> QED
      BY <2>2
  <1>3. PICK pc \in {"send", "length", "ended", "select"} :
          /\ pc = IF rest # <<>> THEN "send"
                  ELSE IF t = Reader(Owner(t)) THEN "length"
                  ELSE IF tcp_task[t].send = <<"done">> THEN "ended" ELSE "select"
    OBVIOUS
  <1>4. /\ tcp_task' = IF pc = "ended" THEN [tcp_task EXCEPT ![t] = [NoTask EXCEPT !.pc = pc]]
                       ELSE [tcp_task EXCEPT ![t].pc = pc, ![t].send = rest]
        /\ tables_lock' = IF pc = "length" THEN Nobody ELSE tables_lock
    BY <1>2, <1>3 DEF AfterSend
  <1>5. PICK n \in Task : /\ tcp_task' = [tcp_task EXCEPT ![t] = n]
                          /\ n.pc = pc /\ (n.frame = "none" \/ n.frame = tcp_task[t].frame)
                          /\ pc = "send" => n.send # <<>>
    <2>1. CASE pc = "ended"
      <3>1. /\ [NoTask EXCEPT !.pc = pc] \in Task /\ [NoTask EXCEPT !.pc = pc].pc = pc
            /\ [NoTask EXCEPT !.pc = pc].frame = "none"
        <4>1. <<>> \in Seq(Replies)
          OBVIOUS
        <4>2. "none" \in Frames /\ pc \in TaskPlaces
          BY <2>1 DEF Frames, TaskPlaces
        <4> QED
          BY <4>1, <4>2 DEF NoTask, Task
      <3> QED
        BY <1>4, <2>1, <3>1
    <2>2. CASE pc # "ended"
      <3>1. /\ [tcp_task[t] EXCEPT !.pc = pc, !.send = rest] \in Task
            /\ [tcp_task[t] EXCEPT !.pc = pc, !.send = rest].pc = pc
            /\ [tcp_task[t] EXCEPT !.pc = pc, !.send = rest].send = rest
            /\ [tcp_task[t] EXCEPT !.pc = pc, !.send = rest].frame = tcp_task[t].frame
        BY <1>1, <1>2, <1>3, PlacesOfTasks DEF Task
      <3>2. tcp_task' = [tcp_task EXCEPT ![t] = [tcp_task[t] EXCEPT !.pc = pc, !.send = rest]]
        BY <1>1, <1>4, <2>2 DEF Task
      <3> QED
        BY <1>3, <3>1, <3>2
    <2> QED
      BY <2>1, <2>2
  <1>6. tcp_task'[t] = n /\ \A u \in Tasks : u # t => tcp_task'[u] = tcp_task[u]
    BY <1>1, <1>5
  <1>7. Holders'
    <2>1. \A c \in Clients : stream_lock'[c] # Nobody =>
                stream_lock'[c] = Reader(c) /\ tcp_task'[Reader(c)].pc = "read length"
      BY <1>1, <1>6, TaskNames DEF ServeInv, Holders, TaskAt
    <2>2. ASSUME tables_lock' # Nobody
          PROVE  \E c \in Clients : /\ tables_lock' = Reader(c)
                                    /\ tcp_task'[Reader(c)].pc \in {"send", "stream", "native"}
      <3>1. tables_lock' = tables_lock /\ pc # "length"
        BY <1>4, <2>2
      <3>2. PICK c \in Clients : /\ tables_lock = Reader(c)
                                 /\ tcp_task[Reader(c)].pc \in {"send", "stream", "native"}
        BY <2>2, <3>1 DEF ServeInv, Holders
      <3>3. CASE t = Reader(c)
        BY <1>3, <1>5, <1>6, <3>1, <3>2, <3>3, TaskNames
      <3>4. CASE t # Reader(c)
        BY <1>6, <3>1, <3>2, <3>4, TaskNames
      <3> QED
        BY <3>3, <3>4
    <2> QED
      BY <2>1, <2>2 DEF Holders, TaskAt
  <1> QED
    BY <1>1, <1>3, <1>4, <1>5, <1>7, TaskBecomes

\* tcp_send.
LEMMA SendKeepsServing ==
    ASSUME ServeInv, NEW t \in Tasks, SendLocksConns(t) \/ SendWrites(t)
    PROVE  ServeInv'
  <1>1. CASE SendWrites(t)
    <2>1. /\ tcp_task[t].pc = "stream" /\ AfterSend(t) /\ tcp_conns_lock' = Nobody
          /\ UNCHANGED <<tcp_client, frames, stream_lock>>
      BY <1>1 DEF SendWrites, TaskAt
    <2> QED
      BY <2>1, AfterSendKeepsServing
  <1>2. CASE SendLocksConns(t) /\ Owner(t) \notin tcp_conns
    <2>1. /\ tcp_task[t].pc = "send" /\ AfterSend(t) /\ tcp_conns_lock' = Nobody
          /\ UNCHANGED <<tcp_client, frames, stream_lock>>
      BY <1>2 DEF SendLocksConns, TaskAt
    <2> QED
      BY <2>1, AfterSendKeepsServing
  <1>3. CASE SendLocksConns(t) /\ Owner(t) \in tcp_conns
    <2>1. /\ tcp_task[t].pc = "send" /\ TaskGoes(t, "stream") /\ tcp_conns_lock' = t
          /\ UNCHANGED <<tcp_client, frames, stream_lock, tables_lock>>
      BY <1>3 DEF SendLocksConns, TaskAt
    <2>2. /\ tcp_task \in [Tasks -> Task] /\ stream_lock \in [Clients -> Tasks \cup {Nobody}]
          /\ tables_lock \in Tasks \cup {Nobody} /\ ServeType
      BY DEF ServeInv, ServeType
    <2>3. /\ tcp_task' \in [Tasks -> Task]
          /\ \A u \in Tasks : u # t => tcp_task'[u] = tcp_task[u]
          /\ tcp_task'[t].pc = "stream" /\ tcp_task'[t].frame = tcp_task[t].frame
          /\ tcp_task'[t].send = tcp_task[t].send
      BY <2>1, <2>2, PlacesOfTasks, GoesChangesPlace
    <2>4. PICK n \in Task : n = tcp_task'[t]
      BY <2>3
    <2>5. tcp_task' = [tcp_task EXCEPT ![t] = n]
      BY <2>2, <2>3, <2>4
    <2>6. tcp_task[t].send # <<>>
      BY <2>1 DEF ServeInv, Supplied
    <2>7. Holders'
      BY <2>1, <2>2, <2>3, TaskNames DEF ServeInv, Holders, TaskAt
    <2> QED
      BY <2>1, <2>2, <2>3, <2>4, <2>5, <2>6, <2>7, TaskBecomes
  <1> QED
    BY <1>1, <1>2, <1>3

\* The daemon accepts a client.
LEMMA ConnectKeepsServing ==
    ASSUME ServeInv, NEW c \in Clients, TcpConnect(c)
    PROVE  ServeInv'
  <1>1. /\ ServeType /\ frames \in [Clients -> Seq(Frames)] /\ tcp_client \in [Clients -> ClientPlaces]
        /\ Reader(c) \in Tasks /\ ExecTask(c) \in Tasks
    BY TaskNames DEF ServeInv, ServeType
  <1>2. /\ TcpWrite(c, "syn") /\ TaskGoes(Reader(c), "length") /\ tcp_client[c] = "off"
        /\ tcp_client' = [tcp_client EXCEPT ![c] = "syn"]
        /\ UNCHANGED <<stream_lock, tcp_conns_lock, tables_lock>>
    BY DEF TcpConnect
  <1>3. /\ tcp_task' \in [Tasks -> Task]
        /\ \A u \in Tasks : u # Reader(c) => tcp_task'[u] = tcp_task[u]
        /\ tcp_task'[Reader(c)].pc = "length" /\ tcp_task'[Reader(c)].frame = tcp_task[Reader(c)].frame
    BY <1>1, <1>2, PlacesOfTasks, GoesChangesPlace
  <1>4. /\ frames' \in [Clients -> Seq(Frames)]
        /\ \A d \in Clients : d # c => frames'[d] = frames[d]
        /\ \A i \in 1..Len(frames'[c]) :
             \/ i = Len(frames[c]) + 1 /\ frames'[c][i] = "syn"
             \/ i \in 1..Len(frames[c]) /\ frames'[c][i] = frames[c][i]
    <2>1. "syn" \in Frames
      BY DEF Frames
    <2> QED
      BY <1>1, <1>2, <2>1, WriteAppends
  <1>5. /\ tcp_client' \in [Clients -> ClientPlaces] /\ tcp_client'[c] = "syn"
        /\ \A d \in Clients : d # c => tcp_client'[d] = tcp_client[d]
    BY <1>1, <1>2 DEF ClientPlaces
  <1>6. ServeType'
    BY <1>1, <1>2, <1>3, <1>4, <1>5 DEF ServeType
  <1>7. tcp_task[Reader(c)].pc = "none" /\ ~ Asked(c)
    BY <1>2 DEF ServeInv, Unconnected, AskedFor, TaskAt
  <1>8. Holders'
    BY <1>1, <1>2, <1>3, <1>7, TaskNames DEF ServeInv, ServeType, Holders, TaskAt
  <1>9. ~ Asked(c)'
    BY <1>1, <1>3, <1>4, <1>7, TaskNames DEF Asked
  <1>10. \A d \in Clients : d # c => /\ tcp_task'[Reader(d)] = tcp_task[Reader(d)]
                                     /\ tcp_task'[ExecTask(d)] = tcp_task[ExecTask(d)]
    BY <1>3, TaskNames
  <1>11. AskedFor' /\ OneExec'
    <2>1. ASSUME NEW d \in Clients
          PROVE  /\ Asked(d)' => tcp_client'[d] \in {"drain", "gone"}
                 /\ Once(d)'
      <3>1. CASE d = c
        BY <1>9, <3>1 DEF Asked, Once
      <3>2. CASE d # c
        BY <1>4, <1>5, <1>10, <3>2 DEF ServeInv, AskedFor, OneExec, Asked, Once
      <3> QED
        BY <3>1, <3>2
    <2> QED
      BY <2>1 DEF AskedFor, OneExec
  <1>12. Supplied'
    <2>1. ASSUME NEW t \in Tasks, tcp_task'[t].pc \in {"send", "stream"}
          PROVE  tcp_task'[t].send # <<>>
      BY <1>3, <2>1 DEF ServeInv, Supplied
    <2>2. ASSUME NEW d \in Clients, tcp_task'[Reader(d)].pc = "body"
          PROVE  frames'[d] # <<>>
      BY <1>3, <1>4, <1>10, <2>2 DEF ServeInv, Supplied, TaskAt
    <2> QED
      BY <2>1, <2>2 DEF Supplied, TaskAt
  <1>13. Unconnected'
    BY <1>5, <1>10 DEF ServeInv, Unconnected, TaskAt
  <1> QED
    BY <1>6, <1>8, <1>11, <1>12, <1>13 DEF ServeInv

\* Every step of a client and of a task keeps the invariant.
LEMMA ServingKept ==
    ASSUME ServeInv, TcpNext
    PROVE  ServeInv'
  <1>1. ASSUME NEW c \in Clients,
               TcpHello(c) \/ TcpConnected(c) \/ TcpDrain(c) \/ TcpGiveUp(c)
               \/ \E frame \in {"exec", "native", "file"} : TcpRequest(c, frame)
        PROVE  ServeInv'
    <2>1. \A place \in {"hello", "ready", "drain", "gone"} : place \in ClientPlaces /\ place # "off"
      BY DEF ClientPlaces
    <2>2. \A frame \in {"hello", "exec", "native", "file", "signal"} : frame \in Frames
      BY DEF Frames
    <2>3. UNCHANGED <<tcp_task, stream_lock, tcp_conns_lock, tables_lock>>
      BY <1>1 DEF TcpHello, TcpConnected, TcpDrain, TcpGiveUp, TcpRequest
    <2>4. CASE TcpHello(c)
      BY <2>1, <2>2, <2>3, <2>4, ClientKeepsServing DEF TcpHello
    <2>5. CASE TcpConnected(c)
      BY <2>1, <2>3, <2>5, ClientKeepsServing DEF TcpConnected
    <2>6. CASE TcpDrain(c)
      BY <2>1, <2>3, <2>6, ClientKeepsServing DEF TcpDrain
    <2>7. CASE TcpGiveUp(c)
      BY <2>1, <2>2, <2>3, <2>7, ClientKeepsServing DEF TcpGiveUp
    <2>8. CASE \E frame \in {"exec", "native", "file"} : TcpRequest(c, frame)
      BY <2>1, <2>2, <2>3, <2>8, ClientKeepsServing DEF TcpRequest
    <2> QED
      BY <1>1, <2>4, <2>5, <2>6, <2>7, <2>8
  <1>2. ASSUME NEW c \in Clients,
               HandleDropped(c) \/ HandleSyn(c) \/ HandleHello(c) \/ HandleFile(c) \/ NativeReturns(c)
        PROVE  ServeInv'
    <2>1. /\ <<>> \in Seq(Replies) /\ <<"synack">> \in Seq(Replies) /\ <<"helloack">> \in Seq(Replies)
          /\ <<"ack">> \in Seq(Replies) /\ <<"chunk", "done">> \in Seq(Replies)
      BY DEF Replies
    <2>2. PICK messages \in Seq(Replies) : Answers(c, messages)
      BY <1>2, <2>1 DEF HandleDropped, HandleSyn, HandleHello, HandleFile, NativeReturns
    <2>3. UNCHANGED <<tcp_client, frames, stream_lock, tcp_conns_lock>>
      BY <1>2 DEF HandleDropped, HandleSyn, HandleHello, HandleFile, NativeReturns
    <2>4. \/ TaskAt(Reader(c), "tables") /\ tables_lock = Nobody
          \/ TaskAt(Reader(c), "native")
      BY <1>2 DEF HandleDropped, HandleSyn, HandleHello, HandleFile, NativeReturns, Controls, Handles
    <2> QED
      BY <2>2, <2>3, <2>4, AnswersKeepServing
  <1>3. ASSUME NEW c \in Clients, HandleExec(c)
        PROVE  ServeInv'
    <2>1. /\ Controls(c, "exec") /\ UNCHANGED <<tcp_client, frames, stream_lock, tcp_conns_lock>>
          /\ TaskAt(Reader(c), "tables") /\ tables_lock = Nobody
      BY <1>3 DEF HandleExec, Controls, Handles
    <2>2. CASE Answers(c, <<"done">>)
      <3>1. <<"done">> \in Seq(Replies)
        BY DEF Replies
      <3> QED
        BY <2>1, <2>2, <3>1, AnswersKeepServing
    <2>3. CASE ~ Answers(c, <<"done">>)
      BY <1>3, <2>1, <2>3, SpawnKeepsServing DEF HandleExec
    <2> QED
      BY <2>2, <2>3
  <1>4. ASSUME NEW c \in Clients,
               LockStream(c) \/ ReadLength(c) \/ ReadFails(c) \/ RegisterStream(c) \/ CleanUp(c)
               \/ HandleNative(c)
        PROVE  ServeInv'
    BY <1>4, ReaderKeepsServing
  <1>5. ASSUME NEW c \in Clients, TcpConnect(c) \/ ReadBody(c) \/ ExecOutput(c)
        PROVE  ServeInv'
    BY <1>5, ConnectKeepsServing, BodyKeepsServing, OutputKeepsServing
  <1>6. ASSUME NEW t \in Tasks, SendLocksConns(t) \/ SendWrites(t)
        PROVE  ServeInv'
    BY <1>6, SendKeepsServing
  <1> QED
    BY <1>1, <1>2, <1>3, <1>4, <1>5, <1>6 DEF TcpNext

\* The locks of handle_tcp_client, handle_packet_tcp and tcp_send: with any number
\* of clients, no task waits for a lock in vain.
THEOREM NoTaskIsStuck == DaemonSpec => []NobodyStuck
  <1>1. DaemonInit => ServeInv
    <2>1. SUFFICES ASSUME TcpInit
                   PROVE  ServeInv
      BY DEF DaemonInit
    <2>2. <<>> \in Seq(Replies) /\ "none" \in Frames /\ "none" \in TaskPlaces /\ <<>> \in Seq(Frames)
          /\ Len(<<>>) = 0
      BY DEF Frames, TaskPlaces
    <2>3. NoTask \in Task /\ NoTask.pc = "none" /\ NoTask.frame = "none"
      BY <2>2 DEF NoTask, Task
    <2>4. PICK n \in Task : n = NoTask
      BY <2>3
    <2>5. tcp_task = [t \in Tasks |-> n] /\ n.pc = "none" /\ n.frame = "none"
      BY <2>1, <2>3, <2>4 DEF TcpInit
    <2>6. ServeType
      BY <2>1, <2>2, <2>5 DEF TcpInit, ServeType, ClientPlaces
    <2>7. /\ \A t \in Tasks : tcp_task[t].pc = "none" /\ tcp_task[t].frame = "none"
          /\ \A c \in Clients : frames[c] = <<>> /\ stream_lock[c] = Nobody
          /\ tcp_conns_lock = Nobody /\ tables_lock = Nobody
      BY <2>1, <2>5 DEF TcpInit
    <2>8. \A c \in Clients : ~ Asked(c)
      BY <2>2, <2>7, TaskNames DEF Asked
    <2>9. AskedFor /\ OneExec
      BY <2>8 DEF AskedFor, OneExec, Once, Asked
    <2>10. Holders /\ Supplied /\ Unconnected
      BY <2>7, TaskNames DEF Holders, Supplied, Unconnected, TaskAt
    <2> QED
      BY <2>6, <2>9, <2>10 DEF ServeInv
  <1>2. ServeInv /\ [DaemonNext]_daemonVars => ServeInv'
    <2>1. SUFFICES ASSUME ServeInv, [DaemonNext]_daemonVars
                   PROVE  ServeInv'
      OBVIOUS
    <2>2. CASE TcpNext
      BY <2>1, <2>2, ServingKept
    <2>3. CASE UNCHANGED tcpVars
      <3>1. UNCHANGED <<tcp_client, frames, tcp_task, stream_lock, tcp_conns_lock, tables_lock>>
        BY <2>3 DEF tcpVars
      <3>2. ServeType' /\ Holders'
        BY <2>1, <3>1 DEF ServeInv, ServeType, Holders, TaskAt
      <3>3. AskedFor' /\ OneExec'
        BY <2>1, <3>1 DEF ServeInv, AskedFor, Asked, OneExec, Once
      <3>4. Supplied' /\ Unconnected'
        BY <2>1, <3>1 DEF ServeInv, Supplied, Unconnected, TaskAt
      <3> QED
        BY <3>2, <3>3, <3>4 DEF ServeInv
    <2> QED
      BY <2>1, <2>2, <2>3 DEF DaemonNext, daemonVars
  <1>3. ServeInv => NobodyStuck
    BY HoldersGoOn
  <1> QED
    BY <1>1, <1>2, <1>3, PTL DEF DaemonSpec
=============================================================================
