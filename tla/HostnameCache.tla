---------------------------- MODULE HostnameCache ----------------------------
(***************************************************************************)
(* The host names the interceptor remembers for addresses.                 *)
(*                                                                         *)
(* A rule may select traffic by host name, but a socket only has an        *)
(* address.  The getaddrinfo() hook therefore notes, for every address it  *)
(* returns, which name was asked for; every later call on a socket looks   *)
(* its peer up in these notes.  They are kept in one map of the process,   *)
(* keyed by the slot of the resolving thread and the endpoint, for         *)
(* HOSTNAME_OBSERVATION_TTL_NS and in at most                              *)
(* HOSTNAME_OBSERVATION_MAX_ENTRIES entries.                               *)
(*                                                                         *)
(* Both the hook and the lookup read the clock before they take the lock   *)
(* of the map, so what they do to the map may be late.  A slot is taken to *)
(* belong to one thread.                                                   *)
(***************************************************************************)
EXTENDS Integers, Sequences, FiniteSets

CONSTANTS
  Slots,       \* of the threads, one each
  Addrs,
  Inet,        \* the addresses of family AF_INET or AF_INET6
  Ports,
  Protocols,   \* socket_protocol_for_fd(): 1 stream, 2 datagram, 0 another
  RawNames,    \* names as applications write them
  Normal,      \* normalize_semantic_name(): to a name, or to None when empty
  Ttl,         \* HOSTNAME_OBSERVATION_TTL_NS
  MaxEntries,  \* HOSTNAME_OBSERVATION_MAX_ENTRIES
  MaxResults,  \* bound: addresses one getaddrinfo() returns
  MaxNow,      \* bound: how long the clock runs
  MaxNoted,    \* bound: lookups start while fewer endpoints were noted
  None

ASSUME HostnameAssumption ==
  /\ Inet \subseteq Addrs
  /\ 0 \in Protocols
  /\ None \notin RawNames
  /\ Normal \in [RawNames -> RawNames \cup {None}]
  /\ Ttl \in Nat
  /\ MaxEntries \in Nat \ {0}
  /\ {MaxNow, MaxNoted, MaxResults} \subseteq Nat

\* HostnameObservationKey; the family of an address is part of the address.
Keys == [slot : Slots, addr : Inet, port : Ports, protocol : Protocols]

\* socket_protocol_for_fd() of descriptor -1, which has no SO_TYPE.
NoProtocol == 0

\* sockaddr_endpoint(): other families have no endpoint, and no entry.
HasEndpoint(addr) == addr \in Inet

\* hostname_observation_key() of an address getaddrinfo() returned.
hostname_observation_key(t, addr, port) ==
  [slot |-> t, addr |-> addr, port |-> port, protocol |-> NoProtocol]

VARIABLES
  now,     \* CLOCK_MONOTONIC
  cache,   \* OBSERVED_HOSTNAME_BY_ENDPOINT: some keys -> name and time
  ideal,   \* history: what a map that forgets nothing would hold
  call     \* slot -> the hook its thread is inside, and the last lookup's answer

CacheVars == <<now, cache, ideal, call>>

Idle(name) == [op |-> "idle", name |-> name]

Observed == [name : RawNames, at : 0 .. MaxNow]

\* No more entries than the map may hold, each for a key that was observed, and
\* no entry later than the clock.
CacheTypeOK ==
  /\ now \in 0 .. MaxNow
  /\ DOMAIN cache \subseteq DOMAIN ideal
  /\ DOMAIN ideal \subseteq Keys
  /\ Cardinality(DOMAIN cache) <= MaxEntries
  /\ \A k \in DOMAIN cache : cache[k] \in Observed /\ cache[k].at <= now
  /\ \A t \in Slots : call[t].op \in {"idle", "walk", "observe", "ask"}

CacheInit ==
  /\ now = 0
  /\ cache = << >>
  /\ ideal = << >>
  /\ call = [t \in Slots |-> Idle(None)]

\* The subtraction saturates: an entry later than the stamp is not expired.
Expired(stamp, item) == stamp - item.at > Ttl

\* HashMap::insert().
With(map, key, item) ==
  [k \in DOMAIN map \cup {key} |-> IF k = key THEN item ELSE map[k]]

Only(map, keys) == [k \in keys |-> map[k]]

\* A pruning that forgets the latest entries for want of room.
PruneLatest(map, stamp) ==
  LET young == {k \in DOMAIN map : ~Expired(stamp, map[k])}
      Oldest(keys) == \A k \in keys, g \in young \ keys : map[g].at >= map[k].at
  IN  IF Cardinality(young) <= MaxEntries THEN {young}
      ELSE {keys \in SUBSET young : Cardinality(keys) = MaxEntries /\ Oldest(keys)}

\* What prune_hostname_observations() may leave: the entries that are not too
\* old and, of those, as many of the latest as there is room for.  The sort is
\* unstable: among entries of the same time any may go.
prune_hostname_observations(map, stamp) ==
  LET young == {k \in DOMAIN map : ~Expired(stamp, map[k])}
      Latest(keys) == \A k \in keys, g \in young \ keys : map[g].at <= map[k].at
  IN  IF Cardinality(young) <= MaxEntries THEN {young}
      ELSE {keys \in SUBSET young : Cardinality(keys) = MaxEntries /\ Latest(keys)}

----------------------------------------------------------------------------
(* getaddrinfo() *)

\* The hook after the library answered: the name it was asked for, normalised,
\* and the addresses returned.  A lookup that fails, or that the DNS layer answers
\* with an error, notes nothing.
Resolve(t) ==
  /\ call[t].op = "idle"
  /\ Cardinality(DOMAIN ideal) < MaxNoted
  /\ \E raw \in RawNames, port \in Ports, n \in 1 .. MaxResults :
       \E items \in [1 .. n -> Addrs] :
         /\ Normal[raw] # None
         /\ call' = [call EXCEPT ![t] = [op |-> "walk", name |-> Normal[raw],
                                          port |-> port, items |-> items]]
  /\ UNCHANGED <<now, cache, ideal>>

\* The walk over the results stops behind the last one.
Resolved(t) ==
  /\ call[t].op = "walk"
  /\ call[t].items = << >>
  /\ call' = [call EXCEPT ![t] = Idle(None)]
  /\ UNCHANGED <<now, cache, ideal>>

\* observe_hostname_for_slot_endpoint() up to the lock: the clock is read.  An
\* address of another family, or a name that normalises to nothing, is passed
\* over.
Stamp(t) ==
  /\ call[t].op = "walk"
  /\ call[t].items # << >>
  /\ LET c == call[t]
         name == Normal[c.name]
     IN  call' = [call EXCEPT ![t] =
           IF HasEndpoint(Head(c.items)) /\ name # None
           THEN [op |-> "observe", stamp |-> now, name |-> name, port |-> c.port,
                 items |-> c.items]
           ELSE [c EXCEPT !.items = Tail(@)]]
  /\ UNCHANGED <<now, cache, ideal>>

\* An observation that leaves the pruning to the lookups.
ObserveUnpruned(t) ==
  /\ call[t].op = "observe"
  /\ LET c == call[t]
         key == hostname_observation_key(t, Head(c.items), c.port)
         item == [name |-> c.name, at |-> c.stamp]
     IN  /\ cache' = With(cache, key, item)
         /\ ideal' = With(ideal, key, item)
         /\ call' = [call EXCEPT ![t] = [op |-> "walk", name |-> c.name,
                                          port |-> c.port, items |-> Tail(c.items)]]
  /\ UNCHANGED now

\* Under the lock: the entry is put in and the map pruned by the same time.
Observe(t) ==
  /\ call[t].op = "observe"
  /\ LET c == call[t]
         key == hostname_observation_key(t, Head(c.items), c.port)
         item == [name |-> c.name, at |-> c.stamp]
         map == With(cache, key, item)
     IN  /\ \E keys \in prune_hostname_observations(map, c.stamp) :
              cache' = Only(map, keys)
         /\ ideal' = With(ideal, key, item)
         /\ call' = [call EXCEPT ![t] = [op |-> "walk", name |-> c.name,
                                          port |-> c.port, items |-> Tail(c.items)]]
  /\ UNCHANGED now

----------------------------------------------------------------------------
(* Lookups *)

\* resolve_runtime_config_for_endpoint() of a call on a socket: under the slot of
\* the thread that owns the descriptor or, when that has no policy, its own.  The
\* endpoint has the descriptor's protocol.
LookUp(t) ==
  /\ call[t].op = "idle"
  /\ \E key \in Keys :
       call' = [call EXCEPT ![t] = [op |-> "ask", stamp |-> now, key |-> key]]
  /\ UNCHANGED <<now, cache, ideal>>

\* The entries for the same slot and address, whatever port and protocol.
SameAddress(map, key) ==
  {k \in DOMAIN map : k.slot = key.slot /\ k.addr = key.addr}

\* max_by_key(): any of the latest.
Newest(map, keys) == {k \in keys : \A g \in keys : map[g].at <= map[k].at}

\* A selection that takes the first entry of the address it comes across.
SelectedFirst(map, key) ==
  IF key \in DOMAIN map THEN {key} ELSE SameAddress(map, key)

\* The entry under the very key or, without one, the newest of the address.
Selected(map, key) ==
  IF key \in DOMAIN map THEN {key} ELSE Newest(map, SameAddress(map, key))

\* observed_hostname_for_slot_endpoint() under the lock.
Answer(t) ==
  /\ call[t].op = "ask"
  /\ LET c == call[t]
         found == Selected(cache, c.key)
     IN  \/ /\ found = {}
            /\ call' = [call EXCEPT ![t] = Idle(None)]
            /\ UNCHANGED cache
         \/ \E k \in found :
              /\ Expired(c.stamp, cache[k])
              /\ cache' = Only(cache, DOMAIN cache \ {k})
              /\ call' = [call EXCEPT ![t] = Idle(None)]
         \/ \E k \in found :
              /\ ~Expired(c.stamp, cache[k])
              /\ call' = [call EXCEPT ![t] = Idle(cache[k].name)]
              /\ UNCHANGED cache
  /\ UNCHANGED <<now, ideal>>

Tick ==
  /\ now < MaxNow
  /\ now' = now + 1
  /\ UNCHANGED <<cache, ideal, call>>

CacheNext ==
  \/ Tick
  \/ \E t \in Slots :
       Resolve(t) \/ Resolved(t) \/ Stamp(t) \/ Observe(t) \/ LookUp(t) \/ Answer(t)

CacheSpec == CacheInit /\ [][CacheNext]_CacheVars

----------------------------------------------------------------------------
(* Properties *)

Answers(t) == call[t].op = "ask" /\ call'[t].op = "idle"

\* A name that is answered was noted by that slot for that very endpoint, or is
\* the last one noted for the address, and in either case no longer ago than Ttl
\* when the lookup began.  Pruning and late observations of other threads do not
\* bring an older name back, but for a lookup that waited for the lock so long
\* that the later notes have become too old meanwhile.
NameCurrent ==
  [][\A t \in Slots :
       LET c == call[t] IN
       Answers(t) /\ call'[t].name # None =>
         \E k \in SameAddress(ideal, c.key) :
           /\ call'[t].name = ideal[k].name
           /\ ~Expired(c.stamp, ideal[k])
           /\ \/ k = c.key
              \/ \A g \in SameAddress(ideal, c.key) :
                   ideal[g].at <= ideal[k].at \/ Expired(now, ideal[g])]_CacheVars

\* At least as many other endpoints as there is room for were noted no earlier.
Crowded(key) ==
  Cardinality({k \in DOMAIN ideal \ {key} : ideal[k].at >= ideal[key].at}) >= MaxEntries

\* An entry under the very key of the lookup that is too old.
Hidden(c) == c.key \in DOMAIN ideal /\ Expired(c.stamp, ideal[c.key])

\* A lookup that finds nothing has nothing to find: every note of that slot on
\* the address is too old by now, or had to make room for enough notes that are
\* not older.  Only the lookup of a raw socket, whose protocol is 0, may have
\* had an old note of its own endpoint hide a newer one of the address.
MissJustified ==
  [][\A t \in Slots :
       Answers(t) /\ call'[t].name = None =>
         \A k \in SameAddress(ideal, call[t].key) :
           \/ Expired(now, ideal[k])
           \/ Crowded(k)
           \/ call[t].key.protocol = NoProtocol /\ Hidden(call[t])]_CacheVars
=============================================================================
