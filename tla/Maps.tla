-------------------------------- MODULE Maps --------------------------------
(***************************************************************************)
(* Maps as functions whose domain is the set of keys that are present: the *)
(* std::map members of the code and the key-value store behind DB::Put.    *)
(***************************************************************************)

EmptyMap == <<>>

\* map[key] = value, and Put(key, value)
With(map, key, value) ==
    [k \in DOMAIN map \cup {key} |-> IF k = key THEN value ELSE map[k]]

\* The entries of new replace those of map.
Merge(new, map) ==
    [k \in DOMAIN new \cup DOMAIN map |-> IF k \in DOMAIN new THEN new[k] ELSE map[k]]

\* map.erase(key)
Without(map, key) == [k \in DOMAIN map \ {key} |-> map[k]]
=============================================================================
