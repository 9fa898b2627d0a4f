---------------------------- MODULE MetadataCache ----------------------------
(***************************************************************************)
(* The metadata cache (metadata-engine/src/cache.rs): a bounded map whose  *)
(* entries expire, each call under the map's mutex.  The clock is the      *)
(* system's, in seconds, and can be set back.                              *)
(***************************************************************************)
EXTENDS Naturals, FiniteSets

CONSTANTS
    CacheKeys, CacheValues,
    CacheLimit,  \* max_entries
    Ttls,
    MaxSeconds   \* bound: the clock

ASSUME CacheAssumption == CacheLimit \in Nat /\ Ttls \subseteq Nat /\ MaxSeconds \in Nat

VARIABLES
    entries,  \* key |-> [value, at, ttl]
    seconds,  \* external: the wall clock
    latest    \* history: the value last inserted under each key still meant to be there

cacheVars == <<entries, seconds, latest>>

CacheInit ==
    /\ entries = [k \in {} |-> 0] /\ latest = [k \in {} |-> 0]
    /\ seconds \in 0 .. MaxSeconds

\* now.saturating_sub(inserted_at) >= ttl: a clock set back makes entries younger.
IsExpired(e) == (IF seconds < e.at THEN 0 ELSE seconds - e.at) >= e.ttl

Only(keys) == [k \in keys |-> entries[k]]

\* get removes what has expired.
CacheGet(k) ==
    /\ k \in DOMAIN entries
    /\ entries' = IF IsExpired(entries[k]) THEN Only(DOMAIN entries \ {k}) ELSE entries
    /\ UNCHANGED <<seconds, latest>>

Got(k) == k \in DOMAIN entries /\ ~IsExpired(entries[k])

Unexpired == {k \in DOMAIN entries : ~IsExpired(entries[k])}

\* The entry inserted first makes room; any of them, when several are.
Evictable(keys) == {k \in keys : \A j \in keys : entries[k].at <= entries[j].at}

\* insert: a new key first drops what has expired, then evicts one entry when the
\* cache is still full.
CacheInsert(k, v, ttl) ==
    LET new == [value |-> v, at |-> seconds, ttl |-> ttl]
        Put(keys) == entries' = [j \in keys \cup {k} |-> IF j = k THEN new ELSE entries[j]]
    IN  /\ CacheLimit > 0
        /\ IF k \in DOMAIN entries THEN Put(DOMAIN entries)
           ELSE IF Cardinality(Unexpired) >= CacheLimit
                THEN \E victim \in Evictable(Unexpired) : Put(Unexpired \ {victim})
                ELSE Put(Unexpired)
        /\ latest' = [j \in DOMAIN latest \cup {k} |-> IF j = k THEN v ELSE latest[j]]
        /\ UNCHANGED seconds

CacheRemove(k) ==
    /\ entries' = Only(DOMAIN entries \ {k})
    /\ latest' = [j \in DOMAIN latest \ {k} |-> latest[j]]
    /\ UNCHANGED seconds

CacheClear ==
    /\ entries' = [k \in {} |-> 0] /\ latest' = [k \in {} |-> 0]
    /\ UNCHANGED seconds

SetClock(s) == seconds' = s /\ UNCHANGED <<entries, latest>>

CacheNext ==
    \/ CacheClear \/ \E s \in 0 .. MaxSeconds : SetClock(s)
    \/ \E k \in CacheKeys :
          \/ CacheGet(k) \/ CacheRemove(k)
          \/ \E v \in CacheValues, ttl \in Ttls : CacheInsert(k, v, ttl)

CacheSpec == CacheInit /\ [][CacheNext]_cacheVars

-----------------------------------------------------------------------------
\* The cache never exceeds its limit, and what it answers was inserted last under
\* that key and not removed since, however the clock moved.
CacheInv ==
    /\ Cardinality(DOMAIN entries) <= CacheLimit
    /\ \A k \in CacheKeys : Got(k) => k \in DOMAIN latest /\ entries[k].value = latest[k]
=============================================================================
