---------------------------- MODULE DocRegistry ----------------------------
(***************************************************************************)
(* What a data directory promises about its documents, whoever writes it.  *)
(* A document is the set of the changes in its history.  It only ever      *)
(* gains changes, until it is erased for good: an erased id never holds a  *)
(* document again.  NoteStore, where several processes read, merge and     *)
(* write the same rows without a common lock, implements this, and so does *)
(* each device of SyncPair, where what is written comes from a peer.       *)
(***************************************************************************)
CONSTANTS Ids,      \* the ids a document can have
          Changes   \* the changes a history can be made of

VARIABLES held,     \* the history held under each id, {} when there is none
          erased    \* the ids erased for good

regVars == <<held, erased>>

RegTypeOK ==
  /\ held \in [Ids -> SUBSET Changes]
  /\ erased \in SUBSET Ids

RegInit ==
  /\ held = [n \in Ids |-> {}]
  /\ erased = {}

(* Some documents that were not erased gain changes; the others keep theirs. *)
Gain ==
  /\ held' \in [Ids -> SUBSET Changes]
  /\ \A n \in Ids : held[n] \subseteq held'[n]
  /\ \A n \in erased : held'[n] = held[n]
  /\ UNCHANGED erased

(* The documents of a set of ids are erased, in one step. *)
Erase(gone) ==
  /\ held' = [n \in Ids |-> IF n \in gone THEN {} ELSE held[n]]
  /\ erased' = erased \cup gone

RegNext == Gain \/ \E gone \in SUBSET Ids : Erase(gone)

RegSpec == RegInit /\ [][RegNext]_regVars
=============================================================================
