--------------------------- MODULE MCUninstallation ----------------------------
(***************************************************************************)
(* A product of four managed files: its service, its two sockets, and its  *)
(* program.                                                                *)
(***************************************************************************)
EXTENDS Uninstallation

CONSTANTS Foreign

MCRelease == << <<"service">>, <<"socket", 1>>, <<"socket", 2>>, <<"program">> >>

MCBlobs == {MCRelease[i] : i \in 1..4} \union {Foreign}

(* An administrator removes a unit file or replaces it. *)
MCEdits == {Absent, Foreign}

(* Nobody edits the managed files. *)
NoEdits == {}

================================================================================
