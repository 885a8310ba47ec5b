------------------------------ MODULE TileStore ------------------------------
(***************************************************************************)
(* What a DataTiles container promises its users, whatever the number of   *)
(* processes that write it: a tile, the coordinate set it belongs to and   *)
(* that set's content profile appear in one step or not at all, a profile  *)
(* never changes, and selecting a slice switches the MBTiles interface     *)
(* (the selected set, metadata 'format') in one step.                      *)
(***************************************************************************)
EXTENDS ContentProfile

CONSTANTS
    Key,        \* canonical coordinate keys
    Address,    \* tile addresses (zoom, column, row)
    NoKey       \* the selected slice of a container with no selection

VARIABLES
    profiles,   \* key -> content profile, for the keys that exist
    stored,     \* <<address, key>> -> what the writer declared about the bytes
    slice       \* the MBTiles interface: selected key and its format

storeVars == <<profiles, stored, slice>>

Extend(f, x, y) == [z \in DOMAIN f \union {x} |-> IF z = x THEN y ELSE f[z]]

StoreInit ==
    /\ profiles = [k \in {} |-> {}]
    /\ stored = [t \in {} |-> {}]
    /\ \E format \in InitialFormat : slice = [key |-> NoKey, format |-> format]

\* One put: the set is created with its profile, or reused when nothing conflicts.
Store(k, a, request) ==
    /\ \/ /\ k \notin DOMAIN profiles
          /\ profiles' = Extend(profiles, k, NormalizeContent(request))
       \/ /\ k \in DOMAIN profiles
          /\ ~Conflicts(request, profiles[k])
          /\ UNCHANGED profiles
    /\ stored' = Extend(stored, <<a, k>>, request)
    /\ UNCHANGED slice

SelectSlice(k) ==
    /\ k \in DOMAIN profiles
    /\ slice' = [key |-> k, format |-> MbtilesFormat(profiles[k])]
    /\ UNCHANGED <<profiles, stored>>

StoreNext ==
    \/ \E k \in Key, a \in Address, request \in Request : Store(k, a, request)
    \/ \E k \in Key : SelectSlice(k)

StoreSpec == StoreInit /\ [][StoreNext]_storeVars
=============================================================================
