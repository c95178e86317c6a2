---------------------------- MODULE MCInstallation -----------------------------
(***************************************************************************)
(* A product of three managed files, its program, its service and one      *)
(* socket, and two releases.  The service unit is the same text in both    *)
(* releases, as unit files mostly are; the program and the socket differ.  *)
(***************************************************************************)
EXTENDS Installation

CONSTANTS Foreign

MCVersions == {1, 2}

MCBlobs == {<<"program", v>> : v \in MCVersions} \union {<<"socket", v>> : v \in MCVersions}
           \union {<<"service">>, Torn, Foreign}

MCContents == [v \in MCVersions |-> << <<"program", v>>, <<"service">>, <<"socket", v>> >>]

(* An administrator removes a unit file or replaces it. *)
MCEdits == {Absent, Foreign}

(* Nobody edits the managed files. *)
NoEdits == {}

================================================================================
