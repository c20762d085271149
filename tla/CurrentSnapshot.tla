--------------------------- MODULE CurrentSnapshot ---------------------------
(***************************************************************************)
(* What publication and retention promise a reader of one Project: there   *)
(* is one current snapshot, it is always one that can be read whole, it    *)
(* changes in one step, and nothing removes it while it is current.        *)
(***************************************************************************)
EXTENDS Naturals

CONSTANT Snapshot      \* the identities snapshots may be given; 0 is none

VARIABLES
  current,             \* the snapshot readers are served, or 0
  held                 \* the snapshots that can be read whole

vars == <<current, held>>

Init == current = 0 /\ held = {}

\* A new snapshot is built beside the others.
Build(id) ==
  /\ id \notin held
  /\ held' = held \cup {id}
  /\ UNCHANGED current

\* A snapshot that is held becomes the current one.
Publish(id) ==
  /\ id \in held
  /\ current' = id
  /\ UNCHANGED held

\* A snapshot nobody is served is dropped.
Discard(id) ==
  /\ id \in held \ {current}
  /\ held' = held \ {id}
  /\ UNCHANGED current

Next == \E id \in Snapshot : Build(id) \/ Publish(id) \/ Discard(id)

Spec == Init /\ [][Next]_vars

\* A reader always finds the current snapshot whole (current_snapshot).
CurrentIsHeld == current # 0 => current \in held
==============================================================================
