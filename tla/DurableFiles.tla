------------------------------ MODULE DurableFiles -----------------------------
(***************************************************************************)
(* Files that are replaced whole (capulus/src/store.rs).                   *)
(*                                                                         *)
(* atomic_write fills a temporary file beside its target, syncs it,        *)
(* renames it over the target and syncs the directory.  A power loss       *)
(* forgets what was not synced: the content of a file, the rename that     *)
(* gave it its name, or the directory that the first save of a store has   *)
(* created, whose own parent nobody syncs.                                 *)
(***************************************************************************)
EXTENDS Naturals

CONSTANTS
  Absent,   \* the content of a file that does not exist
  Partial   \* a content of which only some has been written

VARIABLES
  visible,  \* visible[f]: what the path f names: its content and whether it is synced
  durable,  \* durable[f]: what it named when its directory was last synced
  temp,     \* temp[p]: the temporary file of process p
  folder    \* folder[f]: the directory of the store f: "absent", "new" until its
            \* entry is on the disk, or "firm"

files == <<visible, durable, temp, folder>>

NoFile == [content |-> Absent, synced |-> TRUE]

Content(f) == visible[f].content

(* load_toml_or_default: a file that is missing gives the default.         *)
LoadOrDefault(f, default) == IF Content(f) = Absent THEN default ELSE Content(f)

--------------------------------------------------------------------------------
(* The steps of atomic_write, and what is left of it *)

(* ensure_directory: a missing directory is made, with those above it.     *)
EnsureDirectory(f) ==
  folder' = [d \in DOMAIN folder |->
               IF d = f /\ folder[d] = "absent" THEN "new" ELSE folder[d]]

(* ensure_directory, NamedTempFile::new_in, write_all and flush.           *)
WriteTemp(p, f, content) ==
  /\ EnsureDirectory(f)
  /\ temp' = [temp EXCEPT ![p] = [content |-> content, synced |-> FALSE]]
  /\ UNCHANGED <<visible, durable>>

\* mutant: the temporary file is renamed before its content is on the disk
SyncNothing(p) == UNCHANGED <<visible, durable, temp, folder>>

SyncTemp(p) ==
  /\ temp' = [temp EXCEPT ![p].synced = TRUE]
  /\ UNCHANGED <<visible, durable, folder>>

PersistTemp(p, f) ==
  /\ visible' = [visible EXCEPT ![f] = temp[p]]
  /\ temp' = [temp EXCEPT ![p] = NoFile]
  /\ UNCHANGED <<durable, folder>>

(* The directory of the file only, not the one that this is in.            *)
SyncDirectory(f) ==
  /\ durable' = [durable EXCEPT ![f] = visible[f]]
  /\ UNCHANGED <<visible, temp, folder>>

(* NamedTempFile::drop.  A process that is killed leaves the file behind,  *)
(* under a name that nothing reads.                                        *)
DropTemp(p) ==
  /\ temp' = [temp EXCEPT ![p] = NoFile]
  /\ UNCHANGED <<visible, durable, folder>>

(* What is left of a file after a power loss.                              *)
Recovered(file) == IF file.synced THEN file ELSE [content |-> Partial, synced |-> TRUE]

(* The renames of the paths in lost are forgotten, and so is the whole     *)
(* directory of the paths in gone.                                         *)
LosePower(lost, gone) ==
  /\ visible' = [f \in DOMAIN visible |->
                   IF f \in gone THEN NoFile
                   ELSE Recovered(IF f \in lost THEN durable[f] ELSE visible[f])]
  /\ durable' = visible'
  /\ temp' = [p \in DOMAIN temp |-> NoFile]
  /\ folder' = [d \in DOMAIN folder |->
                  IF d \in gone THEN "absent"
                  ELSE IF folder[d] = "new" THEN "firm" ELSE folder[d]]
================================================================================
