----------------------------- MODULE Registers -----------------------------
(***************************************************************************)
(* Maps as the code keeps them (std::map, std::unordered_map): functions   *)
(* on the keys they hold.                                                  *)
(***************************************************************************)

EmptyMap == [k \in {} |-> {}]

\* operator[] or emplace of a new key
Put(map, key, value) ==
    [k \in DOMAIN map \cup {key} |-> IF k = key THEN value ELSE map[k]]

\* erase, which accepts a key that is not there
Erase(map, key) == [k \in DOMAIN map \ {key} |-> map[k]]
=============================================================================
