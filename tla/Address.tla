------------------------------ MODULE Address -------------------------------
(***************************************************************************)
(* Addresses of the mesh (address.rs): node:<name>[:<port>], the memory     *)
(* resolver with its cache and static map, and the caching wrapper around   *)
(* it.  resolve takes one lock at a time, so a mapping may change between   *)
(* the lookup in the static map and the write into the cache.               *)
(***************************************************************************)
EXTENDS Integers, Sequences

CONSTANTS
    Names, Ids, NoId,
    EmptyName,
    Targets,                  \* the addresses used: sequences of parts; a part that is no number is -1
    Callers,                  \* threads that call the router
    ADDRESS_TTL,              \* default_ttl, and the wrapper's 300 s
    MaxAddressTime,           \* bound: the clock
    MaxEvents                 \* bound: calls, changes of the configuration, arrivals

\* ParsedAddress::parse
Parses(parts) ==
    /\ Len(parts) \in 2..3 /\ parts[1] = "node" /\ parts[2] # EmptyName
    /\ Len(parts) = 3 => parts[3] \in 1..65535

\* Names has the names that are used.
ASSUME AddressAssumption ==
    NoId \notin Ids /\ \A g \in Targets : Parses(g) => g[2] \in Names

VARIABLES
    wrapped,                  \* the router's resolver is a CachingResolver
    static_map,
    cache, outer,             \* of the memory resolver, of the wrapper
    addressNow,
    events,
    call,                     \* the calls of the router in progress
    mapped                    \* history: the ids a name was mapped to

addressVars == <<wrapped, static_map, cache, outer, addressNow, events, call, mapped>>

NoEntry == [id |-> NoId, inserted_at |-> 0]
CallFree == [pc |-> "free", op |-> "send", name |-> EmptyName, id |-> NoId, ping |-> 0]

\* The cache of CachingResolver.
OuterInit == outer = [n \in Names |-> NoEntry]

AddressInit ==
    /\ wrapped \in BOOLEAN
    /\ static_map = [n \in Names |-> NoId]
    /\ cache = [n \in Names |-> NoEntry]
    /\ OuterInit
    /\ addressNow = 0 /\ events = 0
    /\ call = [t \in Callers |-> CallFree]
    /\ mapped = [n \in Names |-> {}]

\* !is_expired
Fresh(entry) == entry.id # NoId /\ addressNow - entry.inserted_at <= ADDRESS_TTL

\* Something from outside the router.
Event == events < MaxEvents /\ events' = events + 1

Goes(t, pc) == call' = [call EXCEPT ![t].pc = pc]
HasId(t, pc, id) == call' = [call EXCEPT ![t].pc = pc, ![t].id = id]

\* CachingResolver::resolve: its own cache, ...
ResolveOuter(t) ==
    /\ call[t].pc = "outer"
    /\ IF Fresh(outer[call[t].name]) THEN HasId(t, "lan", outer[call[t].name].id) ELSE Goes(t, "cache")
    /\ UNCHANGED <<wrapped, static_map, cache, outer, addressNow, events, mapped>>

\* ... then MemAddressResolver::resolve: the cache, ...
ResolveCache(t) ==
    /\ call[t].pc = "cache"
    /\ IF Fresh(cache[call[t].name])
       THEN HasId(t, IF wrapped THEN "keep" ELSE "lan", cache[call[t].name].id)
       ELSE Goes(t, "static")
    /\ UNCHANGED <<wrapped, static_map, cache, outer, addressNow, events, mapped>>

\* ... the static map, UnknownNode if it has no such name, ...
ResolveStatic(t) ==
    /\ call[t].pc = "static"
    /\ IF static_map[call[t].name] # NoId
       THEN HasId(t, "store", static_map[call[t].name])
       ELSE call' = [call EXCEPT ![t] = CallFree]
    /\ UNCHANGED <<wrapped, static_map, cache, outer, addressNow, events, mapped>>

\* ... whose answer, read before, goes into the cache, ...
CacheStore(t) ==
    /\ call[t].pc = "store"
    /\ cache' = [cache EXCEPT ![call[t].name] = [id |-> call[t].id, inserted_at |-> addressNow]]
    /\ Goes(t, IF wrapped THEN "keep" ELSE "lan")
    /\ UNCHANGED <<wrapped, static_map, outer, addressNow, events, mapped>>

\* ... and, the wrapper's cache(), into its own and once more into the inner one.
OuterStore(t) ==
    /\ call[t].pc = "keep"
    /\ outer' = [outer EXCEPT ![call[t].name] = [id |-> call[t].id, inserted_at |-> addressNow]]
    /\ Goes(t, "keep_inner")
    /\ UNCHANGED <<wrapped, static_map, cache, addressNow, events, mapped>>

InnerStore(t) ==
    /\ call[t].pc = "keep_inner"
    /\ cache' = [cache EXCEPT ![call[t].name] = [id |-> call[t].id, inserted_at |-> addressNow]]
    /\ Goes(t, "lan")
    /\ UNCHANGED <<wrapped, static_map, outer, addressNow, events, mapped>>

AddStaticMapping(n, id) ==
    /\ Event
    /\ static_map' = [static_map EXCEPT ![n] = id]
    /\ mapped' = [mapped EXCEPT ![n] = @ \cup {id}]
    /\ UNCHANGED <<wrapped, cache, outer, addressNow, call>>

RemoveStaticMapping(n) ==
    /\ Event /\ static_map[n] # NoId
    /\ static_map' = [static_map EXCEPT ![n] = NoId]
    /\ UNCHANGED <<wrapped, cache, outer, addressNow, call, mapped>>

\* clear_cache, of the wrapper and of what it wraps
ClearCache ==
    /\ Event
    /\ cache' = [n \in Names |-> NoEntry] /\ outer' = [n \in Names |-> NoEntry]
    /\ UNCHANGED <<wrapped, static_map, addressNow, call, mapped>>

AddressTick ==
    /\ addressNow < MaxAddressTime
    /\ addressNow' = addressNow + 1
    /\ UNCHANGED <<wrapped, static_map, cache, outer, events, call, mapped>>

ResolveStep(t) ==
    ResolveOuter(t) \/ ResolveCache(t) \/ ResolveStatic(t) \/ CacheStore(t) \/ OuterStore(t) \/ InnerStore(t)

AddressNext ==
    \/ \E t \in Callers : ResolveStep(t)
    \/ \E n \in Names, id \in Ids : AddStaticMapping(n, id)
    \/ \E n \in Names : RemoveStaticMapping(n)
    \/ ClearCache \/ AddressTick
=============================================================================
