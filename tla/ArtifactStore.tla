------------------------------ MODULE ArtifactStore ----------------------------
(***************************************************************************)
(* Built artifacts, each a directory with an image and its metadata        *)
(* (capulus/src/artifact_store.rs).                                        *)
(***************************************************************************)
EXTENDS DurableFiles, FiniteSets, SequencesExt

CONSTANTS
  Ids,       \* the artifact IDs, as sequences of characters
  Times,     \* the times at which an artifact may be made
  NoMatch    \* no artifact

VARIABLES
  dirs,    \* the artifacts with a directory
  images,  \* those with an image in it
  firm     \* those whose directory survives a power loss

artifacts == <<dirs, images, firm>>

CURRENT_SCHEMA_VERSION == 3

(* create_artifact_dir draws an ID until mkdir finds it unused.            *)
Allocate(id) ==
  /\ id \notin dirs
  /\ dirs' = dirs \cup {id}
  /\ UNCHANGED <<images, firm>>

\* mutant: the metadata is saved without its image
SaveNothing(id) == UNCHANGED artifacts

(* The caller puts the image under archive_path before it saves metadata.  *)
SaveImage(id) == images' = images \cup {id} /\ UNCHANGED <<dirs, firm>>

Described(id) == id \in dirs /\ Content(id) # Absent

(* load_stored_artifacts skips what it cannot parse and other schemas.     *)
Readable(content) ==
  content # Partial /\ content.schema = CURRENT_SCHEMA_VERSION

Whole(id) == Described(id) /\ Readable(Content(id))

--------------------------------------------------------------------------------
(* resolve_artifact: what a selector stands for among the artifacts found  *)

Newest(found) == {m \in found : \A n \in found : n.created <= m.created}

Matches(found, selector) ==
  LET exact    == {m \in found : m.id = selector}
      prefixed == {m \in found : IsPrefix(selector, m.id)}
  IN  IF exact # {} THEN exact
      ELSE IF prefixed # {} THEN prefixed
      ELSE {m \in found : m.crate = selector}

(* Without a selector the first of the newest; with one, an error unless   *)
(* it stands for a single artifact.                                        *)
Resolutions(found, selector) ==
  IF found = {} THEN {NoMatch}
  ELSE IF selector = <<>> THEN Newest(found)
  ELSE LET matches == Matches(found, selector)
       IN  IF Cardinality(matches) = 1 THEN matches ELSE {NoMatch}

--------------------------------------------------------------------------------
(* The labels of an image, which carry the metadata to a registry and back *)

Join(features) ==
  IF features = <<>> THEN <<>>
  ELSE Tail(FlattenSeq([i \in DOMAIN features |-> <<",">> \o features[i]]))

Trim(text) ==
  LET solid == {i \in DOMAIN text : text[i] # " "}
  IN  IF solid = {} THEN <<>> ELSE SubSeq(text, Min(solid), Max(solid))

Split(text) ==
  LET cuts == {0, Len(text) + 1} \cup {i \in DOMAIN text : text[i] = ","}
      cut  == SetToSortSeq(cuts, <)
  IN  [k \in 1..(Len(cut) - 1) |-> SubSeq(text, cut[k] + 1, cut[k + 1] - 1)]

(* parse_label_features                                                    *)
ParseFeatures(text) ==
  LET parts == Split(text)
  IN  SelectSeq([k \in DOMAIN parts |-> Trim(parts[k])], LAMBDA part : part # <<>>)

ImageLabels(m) ==
  [schema |-> ToString(m.schema), id |-> m.id, crate |-> m.crate,
   created |-> ToString(m.created), features |-> Join(m.features)]

(* ArtifactSummary::from                                                   *)
Summary(m) == [id |-> m.id, crate |-> m.crate, created |-> m.created, features |-> m.features]

(* artifact_summary_from_labels                                            *)
SummaryFromLabels(labels) ==
  IF labels.schema # ToString(CURRENT_SCHEMA_VERSION) THEN NoMatch
  ELSE [id |-> labels.id, crate |-> labels.crate,
        created |-> CHOOSE n \in Times : ToString(n) = labels.created,
        features |-> ParseFeatures(labels.features)]
================================================================================
