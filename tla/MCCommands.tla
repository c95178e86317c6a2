------------------------------ MODULE MCCommands -------------------------------
(* A small instance of Commands. *)
EXTENDS Commands

CONSTANTS first, second, child, build, serve

MCProcesses == {first, second, child}
MCTools     == {build, serve}
MCNested    == {<<build, serve>>}

\* Three IDs, two of which begin alike.
MCIds == {<<"k", "1">>, <<"k", "2">>, <<"m", "1">>}

MCSelectors == {<<>>, <<"k">>, <<"m", "1">>, <<"c">>}

Metadata(schema, id, created, features) ==
  [schema |-> schema, id |-> id, crate |-> <<"c">>, created |-> created, features |-> features]

MCDescribe(p, id) == Metadata(3, id, IF p = child THEN 1 ELSE 2, IF p = child THEN <<>> ELSE << <<"f">>, <<"g">> >>)

Task(tool, job, mode, named) == [tool |-> tool, job |-> job, mode |-> mode, named |-> named]

\* The first invocation delegates, updates or resolves; the second does
\* everything; the child asks for the lock of either tool, by name too.
MCCalls(p) ==
  CASE p = first ->
         {Task(build, "delegate", mode, named) : mode \in {"refuse", "task"}, named \in BOOLEAN}
         \cup {Task(build, "update", "spinner", FALSE), Task(build, "resolve", "none", FALSE),
               Task(build, "remove", "refuse", FALSE)}
    [] p = second ->
         {Task(tool, "update", "task", FALSE) : tool \in Tools}
         \cup {Task(build, "update", "notice", FALSE), Task(build, "build", "refuse", FALSE),
               Task(build, "remove", "task", FALSE), Task(build, "resolve", "none", FALSE),
               Task(build, "delegate", "refuse", FALSE)}
    [] OTHER ->
         {Task(tool, "update", "task", named) : tool \in Tools, named \in BOOLEAN}
         \cup {Task(build, "build", "refuse", FALSE)}

\* One artifact that is listed and one of an older schema.
MCStored == {Metadata(3, <<"k", "1">>, 1, << <<"f">> >>), Metadata(2, <<"m", "1">>, 1, <<>>)}

\* Lists of up to two features, which have neither commas nor spaces in them.
MCFeatures == UNION {[1..n -> {<<"f">>, <<"f", "-">>, <<"g">>}] : n \in 0..2}

(* The labels of an image say of an artifact what its metadata do: what    *)
(* artifact_summary_from_labels reads is ArtifactSummary::from.            *)
ASSUME LabelsDescribe ==
  \A id \in MCIds, created \in Times, features \in MCFeatures :
    LET m == Metadata(CURRENT_SCHEMA_VERSION, id, created, features)
    IN  SummaryFromLabels(ImageLabels(m)) = Summary(m)
================================================================================
