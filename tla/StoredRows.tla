----------------------------- MODULE StoredRows -----------------------------
(***************************************************************************)
(* What the store keeps of decoded Events (codess/store.py): the Events of *)
(* one Session, grouped one after the other (SessionGrouping), and the     *)
(* rows that several Sessions share (NormalizedStore).  The grouping reads *)
(* no shared row and the shared rows do not depend on it: their            *)
(* composition is that each behaves as it does alone.                      *)
(***************************************************************************)
EXTENDS SessionGrouping, NormalizedStore

StoredRowsSpec == GroupingSpec /\ StoreSpec

\* Rows that Sessions share are there as long as one of them refers to them, and
\* the rows of one Session are grouped alike in every order (store.py).
StoredRowsCohere == GroupingIsCoherent /\ SharedRowsAreHeld
=============================================================================
