------------------------------ MODULE SystemImage ------------------------------
(***************************************************************************)
(* What a managed installation promises: the set of managed files that the *)
(* system has settled on, or will settle on once an interrupted operation  *)
(* has been recovered, only ever changes                                   *)
(*   - all at once, from whatever it was to one complete release (Switch); *)
(*   - one unit file at a time, to the text some release declares, when a  *)
(*     repair rewrites it (Repair);                                        *)
(*   - one unit file at a time, by the hand of an administrator (Edit).    *)
(* A crash, a failure, a rollback or a recovery does not change it at all. *)
(* Installation implements this specification, and so does Uninstallation, *)
(* whose only release is the one with no files: their Outcome is the image *)
(***************************************************************************)
CONSTANTS
  Versions,     \* the releases of the product
  Units,        \* the managed files that are unit files
  Contents,     \* Contents[v][i]: what release v puts in managed file i
  Edits,        \* what an administrator may leave in a unit file
  Images        \* the images the system may start from

VARIABLE image

Switch(v) == image' = Contents[v]

Repair(v, i) == image' = [image EXCEPT ![i] = Contents[v][i]]

Edit(i, blob) == image' = [image EXCEPT ![i] = blob]

Init == image \in Images

Next ==
  \/ \E v \in Versions : Switch(v)
  \/ \E v \in Versions, i \in Units : Repair(v, i)
  \/ \E i \in Units, blob \in Edits : Edit(i, blob)

Spec == Init /\ [][Next]_image
================================================================================
