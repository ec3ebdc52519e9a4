----------------------------- MODULE RedisCache -----------------------------
(***************************************************************************)
(* internal/pkg/cache: the Redis client each service keeps in front of its *)
(* own maps.  A cache is the set of its entries <<key, value>>.            *)
(*                                                                         *)
(* Redis is external.  It may drop an entry at any time (the TTL has run   *)
(* out, eviction, a restart) and any call to it may fail, and the services *)
(* go on either way.  An entry that is gone is one that every later Get    *)
(* misses, so nothing expires here: a caller of Get may see "" although    *)
(* the entry is there.  Nor does a Set of a new key that fails differ from *)
(* one whose entry is never found; but if the key has an older value, that *)
(* value stays.                                                            *)
(***************************************************************************)

\* GenerateKey.  The service name in front keeps the services apart, so each
\* has a cache variable of its own; operation and key keep entries apart.
GenerateKey(operation, key) == <<operation, key>>

\* The non-empty values Get may return.  A caller must also allow for "":
\* redis.Nil and every error come back as "", and no caller looks at the error.
GetHits(cache, key) == {e[2] : e \in {x \in cache : x[1] = key}}

\* The caches Set may leave: the value overwritten, or an older one kept.
Set(cache, key, value) ==
    {{x \in cache : x[1] # key} \cup {<<key, value>>}}
    \cup (IF GetHits(cache, key) = {} THEN {} ELSE {cache})

=============================================================================
