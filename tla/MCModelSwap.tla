---------------------------- MODULE MCModelSwap -----------------------------
(***************************************************************************)
(* ModelSwap on small instances.  A behaviour has one mix of actors: all   *)
(* requests with a load, or with a release and a rename; or one request    *)
(* with a load and a removal, a rename or a release, or with a release, a  *)
(* removal and a rename.                                                   *)
(***************************************************************************)
EXTENDS ModelSwap

CONSTANTS Alone   \* the request of the mixes that have one

VARIABLE mix      \* who acts in this behaviour

Mixes == {Requests \cup Loads,
          Requests \cup Unloads \cup Renames,
          {Alone} \cup Loads \cup Removes,
          {Alone} \cup Unloads \cup Removes \cup Renames,
          {Alone} \cup Loads \cup Renames,
          {Alone} \cup Loads \cup Unloads}

MCInit == WatchedInit /\ mix \in Mixes

MCNext ==
    /\ WatchedNext
    /\ \A r \in Requests \ mix : pc'[r] = pc[r]
    /\ \A l \in Loads \ mix : load'[l] = load[l]
    /\ \A u \in Unloads \ mix : unload'[u] = unload[u]
    /\ \A x \in Removes \ mix : remove'[x] = remove[x]
    /\ \A a \in Renames \ mix : rename'[a] = rename[a]
    /\ UNCHANGED mix

MCSpec == MCInit /\ [][MCNext]_<<vars, overlaps, mix>> /\ Fairness
=============================================================================
