------------------------------ MODULE MapStore ------------------------------
(***************************************************************************)
(* What the map server promises to the rest of the mower: one durable map, *)
(* edited one request at a time, and a latched topic that always shows     *)
(* some value the durable map has had.  MapServer is shown to implement    *)
(* this module.                                                            *)
(***************************************************************************)
CONSTANTS Maps,          \* the maps the store may hold
          Edits,         \* the edits a client may ask for
          Apply(_, _),   \* Apply(m, e): the map m after the edit e
          NoMap          \* the latched topic of a node that has published nothing

VARIABLES stored,        \* the map a restart would come back with
          published      \* the map a (late) subscriber of /map receives

storeVars == <<stored, published>>

StoreInit == /\ stored \in Maps
             /\ published = NoMap

\* A save or remove request takes effect on the durable map, and on nothing else.
Commit(e) == /\ stored' = Apply(stored, e)
             /\ UNCHANGED published

\* The durable map, as it is now, is latched on the topic.
Announce == /\ published' = stored
            /\ UNCHANGED stored

\* The process stops: its latched topic goes with it, the durable map stays.
Forget == /\ published' = NoMap
          /\ UNCHANGED stored

StoreNext == \/ \E e \in Edits : Commit(e)
             \/ Announce
             \/ Forget

StoreSpec == StoreInit /\ [][StoreNext]_storeVars
=============================================================================
