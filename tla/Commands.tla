-------------------------------- MODULE Commands -------------------------------
(***************************************************************************)
(* Invocations of tools that share a lock, a store of settings and a store *)
(* of artifacts (capulus/src/lock.rs, store.rs, artifact_store.rs and      *)
(* temp.rs).                                                               *)
(*                                                                         *)
(* A tool takes its lock and updates its settings, builds or removes an    *)
(* artifact, or starts a child that does, to which it passes its lock and  *)
(* from which it gets an answer in a temporary file.  A tool that resolves *)
(* an artifact takes no lock.  A process may be killed, a call to the      *)
(* system may fail and the power may go at any step.                       *)
(***************************************************************************)
EXTENDS ArtifactStore, InvocationLock, TLC

CONSTANTS
  Children,    \* the processes that are started by others
  Calls(_),    \* Calls(p): the tasks that p may be started for
  Selectors,   \* what an artifact is looked for by
  Describe(_, _), \* Describe(p, id): the metadata that p gives the artifact id
  Stored,      \* the metadata of the artifacts that are there at first
  Settled,     \* the tools that have a directory for their settings at first
  Nested,      \* the pairs of tools whose locks are taken one after the other
  MaxTroubles  \* how many kills, failed calls and power losses there may be

JobNames == {"update", "build", "remove", "delegate", "resolve"}
Modes    == {"none", "refuse"} \cup Displays

ASSUME CommandsAssumption ==
  /\ Children \subseteq Processes
  /\ Tools \intersect Ids = {}
  /\ \A settings \in SUBSET Processes : settings # Absent
  /\ \A p \in Processes :
       Calls(p) \subseteq [tool : Tools, job : JobNames, mode : Modes, named : BOOLEAN]
  /\ \A p \in Processes, id \in Ids : Describe(p, id) # Absent /\ Describe(p, id).id = id
  /\ \A m \in Stored : m # Absent /\ m.id \in Ids
  /\ Settled \subseteq Tools
  /\ Nested \subseteq Tools \X Tools

VARIABLES
  pc,        \* what a process does next, or how it ended
  task,      \* task[p]: what p was started for: its tool, its job, whether it waits
             \* for its lock and how it shows it, whether it asks for it by name
  want,      \* want[p]: the lock that p asks for
  parent,    \* parent[p]: the process that started p
  text,      \* text[p]: what p writes
  at,        \* at[p]: the artifact that p works on
  todo,      \* todo[p]: the directories that p has still to look into
  found,     \* found[p]: the metadata it has read
  got,       \* got[p]: what it resolved, or what its child answered
  answer,    \* answer[p]: the file for the answer of the child of p
  saved,     \* the processes that were told that what they saved is stored
  taken,     \* those of them whose store was new and went in a power loss
  loose,     \* an update was made on the lock of a process that has lost it
  removed,   \* the artifacts that were removed
  before,    \* before[p]: the artifacts that were whole when p began to list
  troubles   \* how many kills, failed calls and power losses there were

memory  == <<task, want, parent, text, at>>
listing == <<todo, found, before>>
answers == <<got, answer>>
history == <<saved, taken, loose, removed>>
vars    == <<pc, lock, files, artifacts, memory, listing, answers, history, troubles>>

Ends == {"done", "refused", "interrupted", "failed", "broken", "killed"}

Running(p) == pc[p] \notin Ends \cup {"idle"}

Goto(p, label) == pc' = [pc EXCEPT ![p] = label]

(* The process ends, or its InvocationLock is dropped just before.         *)
End(p, how) ==
  /\ Goto(p, how)
  /\ Unlock(p)
  /\ UNCHANGED <<pid, env, token>>

Trouble == troubles < MaxTroubles /\ troubles' = troubles + 1

Init ==
  /\ pc = [p \in Processes |-> "idle"]
  /\ holder = [t \in Tools |-> Nobody]
  /\ pid = holder
  /\ env = [p \in Processes |-> NoTool]
  /\ token = env
  /\ want = env
  /\ display = [p \in Processes |-> "none"]
  /\ dirs = {m.id : m \in Stored}
  /\ images = dirs
  /\ firm = dirs
  /\ visible = [f \in Tools \cup Ids |->
                  IF f \in dirs
                  THEN [content |-> CHOOSE m \in Stored : m.id = f, synced |-> TRUE]
                  ELSE NoFile]
  /\ durable = visible
  /\ temp = [p \in Processes |-> NoFile]
  /\ folder = [t \in Tools |-> IF t \in Settled THEN "firm" ELSE "absent"]
  /\ task = [p \in Processes |-> [tool |-> NoTool, job |-> "none", mode |-> "none", named |-> FALSE]]
  /\ parent = [p \in Processes |-> Nobody]
  /\ text = [p \in Processes |-> Absent]
  /\ at = [p \in Processes |-> <<>>]
  /\ todo = [p \in Processes |-> {}]
  /\ found = todo
  /\ before = todo
  /\ got = [p \in Processes |-> NoMatch]
  /\ answer = [p \in Processes |-> "absent"]
  /\ saved = {}
  /\ taken = {}
  /\ loose = FALSE
  /\ removed = {}
  /\ troubles = 0

--------------------------------------------------------------------------------
(* Acquiring the lock *)

(* A top-level invocation; resolving an artifact takes no lock.            *)
Start(p) ==
  /\ pc[p] = "idle" /\ p \notin Children
  /\ \E t \in Calls(p) :
       /\ task' = [task EXCEPT ![p] = t]
       /\ want' = [want EXCEPT ![p] = t.tool]
       /\ Goto(p, IF t.job = "resolve" THEN "list" ELSE "acquire")
  /\ UNCHANGED <<lock, files, artifacts, parent, text, at, listing, answers, history, troubles>>

(* acquire_in and acquire_named_in, up to the open lock file               *)
Acquire(p) ==
  /\ pc[p] = "acquire"
  /\ IF task[p].named
     THEN Goto(p, "try") /\ UNCHANGED token
     ELSE /\ Remember(p, want[p])
          /\ Goto(p, IF Bypasses(p, want[p]) THEN "work" ELSE "try")
  /\ UNCHANGED <<holder, pid, env, display, files, artifacts, memory, listing, answers, history,
                 troubles>>

Try(p) ==
  /\ pc[p] = "try"
  /\ TryLock(p, want[p])
  /\ Goto(p, "record")
  /\ UNCHANGED <<pid, env, token, display, files, artifacts, memory, listing, answers, history,
                 troubles>>

(* AlreadyRunning.  A tool that only wants help may go on without.         *)
Refuse(p) ==
  /\ pc[p] = "try" /\ ~Free(want[p]) /\ task[p].mode = "refuse"
  /\ \/ End(p, "refused")
     \/ task[p].job = "delegate" /\ Goto(p, "spawn") /\ UNCHANGED <<holder, pid, env, token>>
  /\ UNCHANGED <<display, files, artifacts, memory, listing, answers, history, troubles>>

(* The wait is shown once; then the lock is tried every 100 ms.            *)
Wait(p) ==
  /\ pc[p] = "try" /\ ~Free(want[p]) /\ task[p].mode # "refuse"
  /\ display[p] # task[p].mode
  /\ Show(p, task[p].mode)
  /\ UNCHANGED <<pc, holder, pid, env, token, files, artifacts, memory, listing, answers, history,
                 troubles>>

(* Ui::sleep is cancelled, which only a wait with a Ui can be.             *)
Interrupt(p) ==
  /\ pc[p] = "try" /\ display[p] = "task"
  /\ Clear(p)
  /\ End(p, "interrupted")
  /\ UNCHANGED <<files, artifacts, memory, listing, answers, history, troubles>>

Record(p) ==
  /\ pc[p] = "record"
  /\ WriteMetadata(p, want[p])
  /\ Clear(p)
  /\ Goto(p, IF want[p] = task[p].tool THEN "work" ELSE "spawn")
  /\ UNCHANGED <<holder, env, token, files, artifacts, memory, listing, answers, history, troubles>>

(* The lock file cannot be written: it is closed, and its lock free.       *)
RecordFails(p) ==
  /\ Trouble
  /\ pc[p] = "record"
  /\ EmptyMetadata(want[p])
  /\ Clear(p)
  /\ Goto(p, "failed")
  /\ Unlock(p)
  /\ UNCHANGED <<env, token, files, artifacts, memory, listing, answers, history>>

--------------------------------------------------------------------------------
(* Settings and metadata that are saved *)

(* The lock that p passes is no longer with the process that passed it on. *)
Uncovered(p) ==
  LET t == task[p].tool
  IN  ~task[p].named /\ Bypasses(p, t) /\ holder[t] # parent[p]

(* TomlStore::load_or_default and value_mut                                *)
Load(p) ==
  /\ pc[p] = "work" /\ task[p].job = "update"
  /\ text' = [text EXCEPT ![p] = LoadOrDefault(task[p].tool, {}) \cup {p}]
  /\ loose' = (loose \/ Uncovered(p))
  /\ Goto(p, "write")
  /\ UNCHANGED <<lock, files, artifacts, task, want, parent, at, listing, answers, saved, taken,
                 removed, troubles>>

Target(p) == IF task[p].job = "update" THEN task[p].tool ELSE at[p]

Write(p) ==
  /\ pc[p] = "write"
  /\ WriteTemp(p, Target(p), text[p])
  /\ Goto(p, "sync")
  /\ UNCHANGED <<lock, artifacts, memory, listing, answers, history, troubles>>

Sync(p) ==
  /\ pc[p] = "sync"
  /\ SyncTemp(p)
  /\ Goto(p, "persist")
  /\ UNCHANGED <<lock, artifacts, memory, listing, answers, history, troubles>>

Persist(p) ==
  /\ pc[p] = "persist"
  /\ PersistTemp(p, Target(p))
  /\ loose' = (loose \/ (task[p].job = "update" /\ Uncovered(p)))
  /\ Goto(p, "directory")
  /\ UNCHANGED <<lock, artifacts, memory, listing, answers, saved, taken, removed, troubles>>

(* The save has returned Ok: a child answers, another process ends.        *)
FinishSave(p) ==
  /\ pc[p] = "directory"
  /\ SyncDirectory(Target(p))
  /\ saved' = saved \cup {p}
  /\ IF p \in Children THEN Goto(p, "reply") /\ UNCHANGED <<holder, pid, env, token>>
                       ELSE End(p, "done")
  /\ UNCHANGED <<display, artifacts, memory, listing, answers, taken, loose, removed, troubles>>

(* A call of atomic_write fails.  After the rename the new value stays.    *)
SaveFails(p) ==
  /\ Trouble
  /\ pc[p] \in {"write", "sync", "persist", "directory"}
  /\ DropTemp(p)
  /\ End(p, "failed")
  /\ UNCHANGED <<display, artifacts, memory, listing, answers, history>>

--------------------------------------------------------------------------------
(* Artifacts *)

CreateArtifact(p) ==
  /\ pc[p] = "work" /\ task[p].job = "build"
  /\ \E id \in Ids :
       /\ Allocate(id)
       /\ at' = [at EXCEPT ![p] = id]
       /\ text' = [text EXCEPT ![p] = Describe(p, id)]
  /\ Goto(p, "image")
  /\ UNCHANGED <<lock, files, task, want, parent, listing, answers, history, troubles>>

(* All 128 draws are taken.                                                *)
NoIdIsFree(p) ==
  /\ pc[p] = "work" /\ task[p].job = "build" /\ dirs = Ids
  /\ End(p, "failed")
  /\ UNCHANGED <<display, files, artifacts, memory, listing, answers, history, troubles>>

BuildImage(p) ==
  /\ pc[p] = "image"
  /\ SaveImage(at[p])
  /\ Goto(p, "write")
  /\ UNCHANGED <<lock, files, memory, listing, answers, history, troubles>>

(* The tool removes one of the artifacts that are listed, its metadata and *)
(* its image in any order.                                                 *)
RemoveArtifact(p) ==
  /\ pc[p] = "work" /\ task[p].job = "remove"
  /\ \E id \in {i \in dirs : Whole(i)} :
       /\ at' = [at EXCEPT ![p] = id]
       /\ removed' = removed \cup {id}
       /\ \/ images' = images \ {id} /\ UNCHANGED visible
          \/ visible' = [visible EXCEPT ![id] = NoFile] /\ UNCHANGED images
  /\ Goto(p, "unlink")
  /\ UNCHANGED <<lock, durable, temp, folder, dirs, firm, task, want, parent, text, listing, answers,
                 saved, taken, loose, troubles>>

NothingToRemove(p) ==
  /\ pc[p] = "work" /\ task[p].job = "remove" /\ \A id \in dirs : ~Whole(id)
  /\ End(p, "done")
  /\ UNCHANGED <<display, files, artifacts, memory, listing, answers, history, troubles>>

Unlink(p) ==
  /\ pc[p] = "unlink"
  /\ visible' = [visible EXCEPT ![at[p]] = NoFile]
  /\ durable' = [durable EXCEPT ![at[p]] = NoFile]
  /\ images' = images \ {at[p]}
  /\ dirs' = dirs \ {at[p]}
  /\ End(p, "done")
  /\ UNCHANGED <<display, temp, folder, firm, memory, listing, answers, history, troubles>>

(* load_stored_artifacts: the directory, then one entry after another      *)
List(p) ==
  /\ pc[p] = "list"
  /\ todo' = [todo EXCEPT ![p] = dirs]
  /\ before' = [before EXCEPT ![p] = {id \in dirs : Whole(id)}]
  /\ Goto(p, "visit")
  /\ UNCHANGED <<lock, files, artifacts, memory, found, answers, history, troubles>>

Visit(p) ==
  /\ pc[p] = "visit"
  /\ \E id \in todo[p] :
       IF Described(id)
       THEN /\ at' = [at EXCEPT ![p] = id]
            /\ Goto(p, "read")
            /\ UNCHANGED todo
       ELSE todo' = [todo EXCEPT ![p] = @ \ {id}] /\ UNCHANGED <<pc, at>>
  /\ UNCHANGED <<lock, files, artifacts, task, want, parent, text, found, before, answers, history,
                 troubles>>

Read(p) ==
  LET content == Content(at[p])
  IN  /\ pc[p] = "read" /\ content # Absent
      /\ todo' = [todo EXCEPT ![p] = @ \ {at[p]}]
      /\ found' = IF Readable(content) THEN [found EXCEPT ![p] = @ \cup {content}] ELSE found
      /\ Goto(p, "visit")
      /\ UNCHANGED <<lock, files, artifacts, memory, before, answers, history, troubles>>

(* The metadata was there a moment ago: the whole listing fails.           *)
ReadFails(p) ==
  /\ pc[p] = "read" /\ Content(at[p]) = Absent
  /\ End(p, "broken")
  /\ UNCHANGED <<display, files, artifacts, memory, listing, answers, history, troubles>>

(* resolve_artifact                                                        *)
Resolve(p) ==
  /\ pc[p] = "visit" /\ todo[p] = {}
  /\ \E selector \in Selectors : \E m \in Resolutions(found[p], selector) :
       got' = [got EXCEPT ![p] = m]
  /\ End(p, "done")
  /\ UNCHANGED <<display, files, artifacts, memory, listing, answer, history, troubles>>

--------------------------------------------------------------------------------
(* Children *)

(* The caller takes the lock of a second tool, in the order of the tools,  *)
(* before it starts its child.                                             *)
AcquireSecond(p) ==
  /\ pc[p] = "work" /\ task[p].job = "delegate" /\ want[p] = task[p].tool
  /\ \E t \in Tools :
       /\ <<task[p].tool, t>> \in Nested
       /\ want' = [want EXCEPT ![p] = t]
       /\ Remember(p, t)
  /\ Goto(p, "try")
  /\ UNCHANGED <<holder, pid, env, display, files, artifacts, task, parent, text, at, listing,
                 answers, history, troubles>>

Prepare(p) ==
  /\ pc[p] = "work" /\ task[p].job = "delegate"
  /\ Goto(p, "spawn")
  /\ UNCHANGED <<lock, files, artifacts, memory, listing, answers, history, troubles>>

(* create_secure_temp_file, configure_child_command and spawn              *)
Spawn(p) ==
  /\ pc[p] = "spawn"
  /\ \E c \in {d \in Children : pc[d] = "idle"} : \E t \in Calls(c) :
       /\ pc' = [pc EXCEPT ![p] = "wait", ![c] = "acquire"]
       /\ task' = [task EXCEPT ![c] = t]
       /\ want' = [want EXCEPT ![c] = t.tool]
       /\ parent' = [parent EXCEPT ![c] = p]
       /\ ConfigureChild(p, c)
  /\ answer' = [answer EXCEPT ![p] = "empty"]
  /\ UNCHANGED <<holder, pid, token, display, files, artifacts, text, at, listing, got, history,
                 troubles>>

SpawnFails(p) ==
  /\ pc[p] = "spawn" /\ \A c \in Children : pc[c] # "idle"
  /\ End(p, "failed")
  /\ UNCHANGED <<display, files, artifacts, memory, listing, answers, history, troubles>>

(* write_toml_file of temp.rs empties the file, which it is, and writes in *)
(* place.                                                                  *)
Reply(p) ==
  /\ \/ /\ pc[p] = "reply"
        /\ answer' = [answer EXCEPT ![parent[p]] = "partial"]
        /\ Goto(p, "replying")
     \/ /\ pc[p] = "replying"
        /\ answer' = [answer EXCEPT ![parent[p]] = "whole"]
        /\ Goto(p, "answered")
  /\ UNCHANGED <<lock, files, artifacts, memory, listing, got, history, troubles>>

(* flush, sync_all and the mode; then the child ends.                      *)
FinishReply(p) ==
  /\ pc[p] = "answered"
  /\ End(p, "done")
  /\ UNCHANGED <<display, files, artifacts, memory, listing, answers, history, troubles>>

(* A call of write_bytes fails.  What is written stays.                    *)
ReplyFails(p) ==
  /\ Trouble
  /\ pc[p] \in {"reply", "replying", "answered"}
  /\ End(p, "failed")
  /\ UNCHANGED <<display, files, artifacts, memory, listing, answers, history>>

(* read_toml_file and cleanup_temp_file, once the child has ended.  A part *)
(* of an answer may be an answer of its own.                               *)
Collect(p) ==
  /\ pc[p] = "wait"
  /\ \E c \in Children : parent[c] = p /\ pc[c] \in Ends
  /\ got' = [got EXCEPT ![p] = answer[p]]
  /\ answer' = [answer EXCEPT ![p] = "absent"]
  /\ \/ End(p, "done")
     \/ answer[p] = "partial" /\ End(p, "failed")
  /\ UNCHANGED <<display, files, artifacts, memory, listing, history, troubles>>

--------------------------------------------------------------------------------
(* What the system does *)

Kill(p) ==
  /\ Trouble
  /\ Running(p)
  /\ End(p, "killed")
  /\ DropTemp(p)
  /\ display' = [display EXCEPT ![p] = "none"]
  /\ UNCHANGED <<artifacts, memory, listing, answers, history>>

(* Everything that runs is gone, and with it all locks.                    *)
PowerLoss ==
  /\ Trouble
  /\ pc' = [p \in Processes |-> IF Running(p) THEN "killed" ELSE pc[p]]
  /\ holder' = [t \in Tools |-> Nobody]
  /\ display' = [p \in Processes |-> IF Running(p) THEN "none" ELSE display[p]]
  /\ \E lost \in SUBSET {f \in DOMAIN visible : visible[f] # durable[f]},
        gone \in SUBSET ((dirs \ firm) \cup {t \in Tools : folder[t] = "new"}) :
       /\ LosePower(lost, gone)
       /\ taken' = taken \cup {p \in saved : Target(p) \in gone}
       /\ dirs' = dirs \ gone
       /\ images' = images \ gone
  /\ firm' = dirs'
  /\ UNCHANGED <<pid, env, token, memory, listing, answers, saved, loose, removed>>

Step(p) ==
  \/ Acquire(p) \/ Try(p) \/ Refuse(p) \/ Wait(p) \/ Record(p)
  \/ Load(p) \/ Write(p) \/ Sync(p) \/ Persist(p) \/ FinishSave(p)
  \/ CreateArtifact(p) \/ NoIdIsFree(p) \/ BuildImage(p)
  \/ RemoveArtifact(p) \/ NothingToRemove(p) \/ Unlink(p)
  \/ List(p) \/ Visit(p) \/ Read(p) \/ ReadFails(p) \/ Resolve(p)
  \/ AcquireSecond(p) \/ Prepare(p) \/ Spawn(p) \/ SpawnFails(p) \/ Reply(p)
  \/ FinishReply(p) \/ Collect(p)

Next ==
  \/ \E p \in Processes :
       \/ Start(p) \/ Step(p)
       \/ Interrupt(p) \/ RecordFails(p) \/ SaveFails(p) \/ ReplyFails(p) \/ Kill(p)
  \/ PowerLoss

Spec == Init /\ [][Next]_vars

(* A process that runs goes on; nothing has to be started, fail or be      *)
(* killed.                                                                 *)
FairSpec == Spec /\ \A p \in Processes : WF_vars(Step(p))

--------------------------------------------------------------------------------
(* Properties *)

(* An update that was reported as saved stays in the settings, whatever    *)
(* other invocations save, fail to save or lose in a power failure, unless *)
(* a child went on with the lock of a parent that no longer had it.  The   *)
(* one loss there is, is that of a whole store: the save that created its  *)
(* directory has not synced the directory's own parent, nor do later ones. *)
UpdatesAreKept ==
  ~loose => \A p \in saved \ taken :
              task[p].job = "update" => p \in LoadOrDefault(task[p].tool, {})

(* What the stores of all tools show is an atomic cell, in which a write   *)
(* is seen whole or not at all, and which is durable once its directory is. *)
Shown == [t \in Tools |-> visible[t].content]
Kept  == [t \in Tools |-> durable[t].content]

New   == {t \in Tools : folder[t] = "new"}

Cell == INSTANCE DurableCell WITH
  Cells <- Tools, Values <- {Absent} \cup SUBSET Processes, Empty <- Absent,
  value <- Shown, safe <- Kept, new <- New

StoreIsAtomic == Cell!Spec

(* A process that resolves an artifact fails because of another one only   *)
(* when an artifact was removed.  When it has looked into every directory  *)
(* it has missed none that was there all the time, and whatever it has     *)
(* read has an image, unless it was removed since.                         *)
ListingsAreSound ==
  \A p \in Processes :
    /\ pc[p] = "broken" => removed # {}
    /\ pc[p] = "visit" /\ todo[p] = {} =>
         \A id \in before[p] \ removed : Whole(id) /\ Content(id) \in found[p]
    /\ pc[p] \in {"visit", "read"} =>
         \A m \in found[p] : m.schema = CURRENT_SCHEMA_VERSION /\ m.id \in images \cup removed

(* A lock file names the process that has the lock.  A wait that is over   *)
(* is no longer shown.  A child that ended well has answered whole, and    *)
(* whatever a parent reads as an answer, or as a part of one that parses,  *)
(* comes from a child whose work was saved, even if it was killed or       *)
(* failed afterwards.                                                      *)
HandoversAreClean ==
  /\ \A t \in Tools, p \in Processes :
       (holder[t] = p /\ ~(pc[p] = "record" /\ want[p] = t)) => pid[t] = p
  /\ \A p \in Processes :
       pc[p] \notin {"try", "record"} => display[p] \in {"none", "notice"}
  /\ \A c \in Children :
       (parent[c] # Nobody /\ pc[parent[c]] = "done")
         => /\ pc[c] = "done" => got[parent[c]] = "whole"
            /\ got[parent[c]] \in {"partial", "whole"} => c \in saved

(* Whoever waits for a lock gets it, is refused or is interrupted, unless  *)
(* the lock is with a parent that waits in turn: a child is only kept from *)
(* it when it asks by name, or when its parent had taken another lock      *)
(* before or this one by name.                                             *)
KeptByParent(p) ==
  /\ parent[p] # Nobody
  /\ holder[want[p]] = parent[p]
  /\ task[p].named \/ token[parent[p]] # want[p]

EveryWaitEnds ==
  \A p \in Processes :
    pc[p] = "try" ~> (pc[p] # "try" \/ \E c \in Children : pc[c] = "try" /\ KeptByParent(c))
================================================================================
