--------------------------- MODULE VersionedStore ---------------------------
(***************************************************************************)
(* What the fabric promises users whose operations do not meet: one store  *)
(* with one version.  A mutation changes one entry it finds, keeps every   *)
(* earlier change of it and advances the version in the same instant; a    *)
(* save keeps the store exactly as it is under the current version; a      *)
(* restore brings store and version back together.                         *)
(***************************************************************************)
EXTENDS Naturals

CONSTANTS Ids, Authors, Cap, First, Missing

Entry == [replicas : Nat, ver : Nat, writes : SUBSET Authors]

VARIABLES store, ver, saved

storeVars == <<store, ver, saved>>

Init ==
  /\ store \in [Ids -> [replicas : 1..Cap, ver : {1}, writes : {{}}]]
  /\ ver = First
  /\ saved = [v \in {} |-> store]

\* An author adds its change to the entry and to nothing else.
Changed(old, new, a) ==
  /\ new.writes = old.writes \cup {a}
  /\ new.ver \in {old.ver, old.ver + 1}
  /\ new.replicas = old.replicas \/ (new.replicas = old.replicas + 1 /\ new.replicas <= Cap)

Mutate(id, a) ==
  /\ store[id] # Missing /\ store'[id] # Missing
  /\ Changed(store[id], store'[id], a)
  /\ store' = [store EXCEPT ![id] = store'[id]]
  /\ ver' = ver + 1
  /\ UNCHANGED saved

Save ==
  /\ saved' = [v \in DOMAIN saved \cup {ver} |-> IF v = ver THEN store ELSE saved[v]]
  /\ UNCHANGED <<store, ver>>

Restore(v) ==
  /\ v \in DOMAIN saved
  /\ store' = saved[v]
  /\ ver' = v
  /\ UNCHANGED saved

Next ==
  \/ \E id \in Ids, a \in Authors : Mutate(id, a)
  \/ Save
  \/ \E v \in DOMAIN saved : Restore(v)

Spec == Init /\ [][Next]_storeVars

=============================================================================
