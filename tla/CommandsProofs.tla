----------------------------- MODULE CommandsProofs ----------------------------
(***************************************************************************)
(* What Commands guarantees, for any processes, tools and artifacts and    *)
(* any number of kills, failed calls and power losses.                     *)
(***************************************************************************)
EXTENDS Commands, TLAPS

Labels ==
  {"idle", "acquire", "try", "record", "work", "write", "sync", "persist", "directory", "image",
   "unlink", "list", "visit", "read", "spawn", "wait", "reply", "replying", "answered"} \cup Ends

(* Labels under which a process has something to save.                     *)
Writing == {"write", "sync", "persist"}

(* What may be saved: the settings of a tool, named by the processes that  *)
(* updated them, and the metadata of an artifact.                          *)
Settings     == SUBSET Processes
Descriptions == Stored \cup UNION {{Describe(p, id) : id \in Ids} : p \in Processes}
Contents     == {Absent} \cup Settings \cup Descriptions

Entries  == [content : Contents, synced : {TRUE}]
TempFile == [content : Contents, synced : BOOLEAN]

(* The type of every variable.  Of what is resolved only the domain        *)
(* matters.                                                                *)
ControlType ==
  /\ pc \in [Processes -> Labels]
  /\ holder \in [Tools -> Processes \cup {Nobody}]
  /\ pid \in [Tools -> Processes \cup {Nobody}]
  /\ env \in [Processes -> Tools \cup {NoTool}]
  /\ token \in [Processes -> Tools \cup {NoTool}]
  /\ want \in [Processes -> Tools \cup {NoTool}]
  /\ display \in [Processes -> Modes]
  /\ task \in [Processes -> [tool : Tools \cup {NoTool}, job : JobNames \cup {"none"},
                             mode : Modes, named : BOOLEAN]]
  /\ parent \in [Processes -> Processes \cup {Nobody}]
  /\ got = [p \in Processes |-> got[p]]
  /\ answer \in [Processes -> {"absent", "empty", "partial", "whole"}]
  /\ saved \subseteq Processes
  /\ taken \subseteq Processes
  /\ loose \in BOOLEAN

DataType ==
  /\ at \in [Processes -> Ids \cup {<<>>}]
  /\ todo \in [Processes -> SUBSET Ids]
  /\ before \in [Processes -> SUBSET Ids]
  /\ found \in [Processes -> SUBSET Contents]
  /\ removed \subseteq Ids
  /\ dirs \subseteq Ids /\ images \subseteq Ids /\ firm \subseteq Ids
  /\ visible \in [Tools \cup Ids -> Entries]
  /\ durable \in [Tools \cup Ids -> Entries]
  /\ temp \in [Processes -> TempFile]
  /\ folder \in [Tools -> {"absent", "new", "firm"}]
  /\ text \in [Processes -> Contents]

TypeInv == ControlType /\ DataType

(* Which task a process has at which label, and what it works on.          *)
RoleInv ==
  \A p \in Processes :
    /\ pc[p] # "idle" => task[p].tool \in Tools /\ task[p].job \in JobNames /\ want[p] \in Tools
    /\ pc[p] # "idle" /\ task[p].job # "delegate" => want[p] = task[p].tool
    /\ pc[p] \in Writing \cup {"directory"} => task[p].job \in {"update", "build"}
    /\ pc[p] = "image" => task[p].job = "build"
    /\ pc[p] = "unlink" => task[p].job = "remove"
    /\ pc[p] \in {"list", "visit", "read"} => task[p].job = "resolve"
    /\ pc[p] \in {"spawn", "wait"} => task[p].job = "delegate"
    /\ pc[p] \in {"image", "unlink", "read"} => at[p] \in Ids
    /\ pc[p] \in Writing \cup {"directory"} /\ task[p].job = "build" => at[p] \in Ids
    /\ pc[p] \in {"reply", "replying", "answered"} => p \in Children

(* A child has its token from the one process that started it, which waits *)
(* for it or has ended.                                                    *)
ParentInv ==
  \A c \in Processes :
    /\ env[c] # NoTool => parent[c] # Nobody
    /\ parent[c] # Nobody => c \in Children /\ pc[c] # "idle" /\ pc[parent[c]] \in {"wait"} \cup Ends
    /\ \A d \in Processes : parent[d] = parent[c] /\ parent[c] # Nobody => d = c

(* Whoever has a lock runs; whoever updates without passing the lock has   *)
(* it.                                                                     *)
Passes(p) == ~task[p].named /\ Bypasses(p, task[p].tool)

LockInv ==
  /\ \A t \in Tools, p \in Processes : holder[t] = p => Running(p)
  /\ \A p \in Processes :
       /\ pc[p] = "record" => holder[want[p]] = p
       /\ pc[p] \in {"work", "directory"} \cup Writing /\ task[p].job = "update" /\ ~Passes(p) =>
            holder[task[p].tool] = p

(* The files of tools hold settings and those of artifacts the metadata of *)
(* that artifact, of which a temporary file has what is to be saved.       *)
FileInv ==
  /\ \A t \in Tools : /\ visible[t].content \in {Absent} \cup Settings
                      /\ durable[t].content \in {Absent} \cup Settings
  /\ \A id \in Ids : \A m \in {visible[id].content, durable[id].content} \ {Absent} :
       m \in Descriptions /\ m.id = id
  /\ \A p \in Processes :
       /\ pc[p] \in Writing /\ task[p].job = "update" => text[p] \in Settings /\ p \in text[p]
       /\ pc[p] = "image" \/ (pc[p] \in Writing /\ task[p].job = "build") =>
            text[p] \in Descriptions /\ text[p].id = at[p]
       /\ pc[p] \in {"sync", "persist"} => temp[p].content = text[p]
       /\ pc[p] = "persist" => temp[p].synced

(* A store without a directory is empty, and nobody is about to rename a   *)
(* file into it.                                                           *)
FolderInv ==
  /\ \A t \in Tools : folder[t] = "absent" =>
       visible[t].content = Absent /\ durable[t].content = Absent
  /\ \A p \in Processes :
       pc[p] \in {"sync", "persist"} /\ task[p].job = "update" => folder[task[p].tool] # "absent"

BaseInv == TypeInv /\ RoleInv /\ ParentInv /\ LockInv /\ FileInv /\ FolderInv

(* As long as no child went on with a lock that its parent had lost: what  *)
(* a process is about to save has in it all that is saved already, and     *)
(* what was reported as saved is seen and survives a power loss, unless    *)
(* its store went in one when it was new.                                  *)
Seen(t)    == LoadOrDefault(t, {})
Secured(t) == IF durable[t].content = Absent THEN {} ELSE durable[t].content

UpdateInv ==
  /\ \A p \in saved : /\ pc[p] \in {"reply", "replying", "answered"} \cup Ends
                      /\ task[p].tool \in Tools
  /\ ~loose =>
       /\ \A p \in Processes :
            /\ pc[p] \in Writing /\ task[p].job = "update" /\ ~Uncovered(p) =>
                 Seen(task[p].tool) \subseteq text[p]
            /\ pc[p] = "directory" /\ task[p].job = "update" => p \in Seen(task[p].tool)
       /\ \A p \in saved \ taken : task[p].job = "update" =>
            p \in Seen(task[p].tool) \intersect Secured(task[p].tool)

(* The children that answer are those that update settings or build.       *)
ChildrenAnswer == \A c \in Children : \A t \in Calls(c) : t.job \in {"update", "build"}

(* A lock file names the holder of the lock.                               *)
LockFileInv ==
  \A t \in Tools, p \in Processes :
    (holder[t] = p /\ ~(pc[p] = "record" /\ want[p] = t)) => pid[t] = p

(* Only a process that tries a lock shows that it waits.                   *)
WaitInv ==
  \A p \in Processes :
    \/ display[p] \in {"none", "notice"}
    \/ pc[p] \in {"try", "record"} /\ task[p].mode # "refuse"

(* A child answers once it has saved.  While its parent waits, there is    *)
(* nothing in the file for the answer before that, and the whole answer    *)
(* once the child ends well; the parent goes on with what is there.        *)
AnswerInv ==
  \A c \in Children :
    /\ pc[c] \in {"reply", "replying", "answered"} => c \in saved
    /\ parent[c] # Nobody =>
         /\ task[c].job \in {"update", "build"}
         /\ pc[parent[c]] = "wait" =>
              /\ pc[c] \in {"answered", "done"} => answer[parent[c]] = "whole"
              /\ answer[parent[c]] \in {"partial", "whole"} => c \in saved
         /\ pc[parent[c]] = "done" =>
              /\ pc[c] \in Ends
              /\ pc[c] = "done" => got[parent[c]] = "whole"
              /\ got[parent[c]] \in {"partial", "whole"} => c \in saved

HandoverInv == LockFileInv /\ WaitInv /\ AnswerInv

(* Of an artifact that nobody removed: its directory was there before its  *)
(* image, its image before its metadata, and one process saves them once.  *)
Builds(p) == task[p].job = "build" /\ pc[p] \in Writing \cup {"image"} /\ at[p] \notin removed

BuildInv ==
  /\ \A p \in Processes : pc[p] = "unlink" => at[p] \in removed
  /\ \A p \in Processes : Builds(p) =>
       /\ at[p] \in dirs
       /\ visible[at[p]].content = Absent /\ durable[at[p]].content = Absent
       /\ pc[p] # "image" => at[p] \in images
       /\ \A q \in Processes : Builds(q) /\ at[q] = at[p] => q = p
  /\ \A id \in Ids \ removed : \A m \in {visible[id].content, durable[id].content} :
       m # Absent => id \in dirs \intersect images

(* A listing goes from one directory to the next and has read, or will     *)
(* read, every artifact that was there when it began.                      *)
ListingInv ==
  \A p \in Processes :
    /\ pc[p] = "broken" => removed # {}
    /\ pc[p] = "read" /\ at[p] \notin removed => Content(at[p]) # Absent
    /\ pc[p] \in {"idle", "list"} => found[p] = {}
    /\ pc[p] \in {"visit", "read"} =>
         /\ \A m \in found[p] : m.schema = CURRENT_SCHEMA_VERSION /\ m.id \in images \cup removed
         /\ \A id \in before[p] \ removed :
              Whole(id) /\ (id \in todo[p] \/ Content(id) \in found[p])

ArtifactInv == BuildInv /\ ListingInv

--------------------------------------------------------------------------------
(* What may be a file, and what is left of one after a power loss. *)

LEMMA FileTypes ==
  /\ NoFile \in Entries /\ NoFile \in TempFile /\ NoFile.content = Absent /\ NoFile.synced
  /\ \A file \in TempFile : file.content \in Contents /\ (file.synced => file \in Entries)
  /\ \A file \in TempFile : /\ [file EXCEPT !.synced = TRUE] \in TempFile
                            /\ [file EXCEPT !.synced = TRUE].content = file.content
                            /\ [file EXCEPT !.synced = TRUE].synced
  /\ \A c \in Contents : [content |-> c, synced |-> FALSE] \in TempFile
  /\ \A file \in Entries : file.content \in Contents /\ Recovered(file) = file
<1>1. Absent \in Contents
  BY DEF Contents
<1> QED
  BY <1>1 DEF NoFile, Entries, TempFile, Recovered

LEMMA ContentTypes ==
  /\ Absent \in Contents
  /\ \A s \in SUBSET Processes : s \in Contents
  /\ \A p \in Processes, id \in Ids : Describe(p, id) \in Contents
<1>1. ASSUME NEW p \in Processes, NEW id \in Ids PROVE Describe(p, id) \in Descriptions
  BY DEF Descriptions
<1> QED
  BY <1>1 DEF Contents, Settings

--------------------------------------------------------------------------------

(* Every step keeps the types.                                             *)
LEMMA ControlStep ==
  ASSUME BaseInv, [Next]_vars
  PROVE  ControlType'
<1> USE DEF Goto, lock, files, artifacts, memory, listing, answers, history, vars,
   BaseInv, TypeInv, ControlType, Labels, Ends, Modes, Displays, JobNames, Writing,
   RoleInv
<1>1. ASSUME NEW p \in Processes, Start(p) PROVE ControlType'
  BY <1>1, CommandsAssumption DEF Start
<1>2. ASSUME NEW p \in Processes, Acquire(p) PROVE ControlType'
  <2>1. token' \in [Processes -> Tools \cup {NoTool}]
    BY <1>2 DEF Acquire, Remember
  <2>2. pc' \in [Processes -> Labels]
    <3>1. \E label \in {"try", "work"} : pc' = [pc EXCEPT ![p] = label]
      BY <1>2 DEF Acquire
    <3> QED
      BY <3>1
  <2> QED
    BY <1>2, <2>1, <2>2 DEF Acquire
<1>3. ASSUME NEW p \in Processes, Try(p) PROVE ControlType'
  BY <1>3 DEF Try, TryLock, Free
<1>4. ASSUME NEW p \in Processes, Refuse(p) PROVE ControlType'
  BY SMTT(30), <1>4 DEF Refuse, End, Unlock, Free
<1>5. ASSUME NEW p \in Processes, Wait(p) PROVE ControlType'
  BY <1>5 DEF Wait, Show, Free
<1>6. ASSUME NEW p \in Processes, Interrupt(p) PROVE ControlType'
  BY <1>6 DEF Interrupt, Clear, End, Unlock
<1>7. ASSUME NEW p \in Processes, Record(p) PROVE ControlType'
  BY <1>7 DEF Record, WriteMetadata, Clear
<1>8. ASSUME NEW p \in Processes, RecordFails(p) PROVE ControlType'
  BY <1>8 DEF RecordFails, EmptyMetadata, Clear, Unlock, Trouble
<1>9. ASSUME NEW p \in Processes, Load(p) PROVE ControlType'
  BY <1>9 DEF Load, LoadOrDefault, Content
<1>10. ASSUME NEW p \in Processes, Write(p) PROVE ControlType'
  BY <1>10 DEF Write, WriteTemp
<1>11. ASSUME NEW p \in Processes, Sync(p) PROVE ControlType'
  BY <1>11 DEF Sync, SyncTemp
<1>12. ASSUME NEW p \in Processes, Persist(p) PROVE ControlType'
  BY <1>12 DEF Persist, PersistTemp, Target, NoFile
<1>13. ASSUME NEW p \in Processes, FinishSave(p) PROVE ControlType'
  <2>1. saved' \subseteq Processes
    BY <1>13 DEF FinishSave
  <2>2. UNCHANGED <<pid, env, token, want, display, task, parent, got, answer, taken, loose>>
    BY <1>13 DEF FinishSave, End
  <2>3. /\ pc' = [pc EXCEPT ![p] = "reply"] \/ pc' = [pc EXCEPT ![p] = "done"]
        /\ UNCHANGED holder \/ Unlock(p)
    BY <1>13 DEF FinishSave, End
  <2>4. pc' \in [Processes -> Labels] /\ holder' \in [Tools -> Processes \cup {Nobody}]
    BY <2>3 DEF Unlock
  <2> QED
    BY <2>1, <2>2, <2>4
<1>14. ASSUME NEW p \in Processes, SaveFails(p) PROVE ControlType'
  BY <1>14 DEF SaveFails, DropTemp, NoFile, End, Unlock, Trouble
<1>15. ASSUME NEW p \in Processes, CreateArtifact(p) PROVE ControlType'
  BY <1>15 DEF CreateArtifact, Allocate
<1>16. ASSUME NEW p \in Processes, NoIdIsFree(p) PROVE ControlType'
  BY <1>16 DEF NoIdIsFree, End, Unlock
<1>17. ASSUME NEW p \in Processes, BuildImage(p) PROVE ControlType'
  BY <1>17 DEF BuildImage, SaveImage
<1>18. ASSUME NEW p \in Processes, RemoveArtifact(p) PROVE ControlType'
  BY <1>18 DEF RemoveArtifact, NoFile
<1>19. ASSUME NEW p \in Processes, NothingToRemove(p) PROVE ControlType'
  BY <1>19 DEF NothingToRemove, End, Unlock
<1>20. ASSUME NEW p \in Processes, Unlink(p) PROVE ControlType'
  BY <1>20 DEF Unlink, NoFile, End, Unlock
<1>21. ASSUME NEW p \in Processes, List(p) PROVE ControlType'
  BY <1>21 DEF List
<1>22. ASSUME NEW p \in Processes, Visit(p) PROVE ControlType'
  <2>1. pc' = [pc EXCEPT ![p] = "read"] \/ UNCHANGED pc
    BY <1>22 DEF Visit
  <2>2. UNCHANGED <<lock, task, want, parent, answers, history>>
    BY <1>22 DEF Visit
  <2>3. pc' \in [Processes -> Labels]
    BY <2>1
  <2> QED
    BY <2>2, <2>3
<1>23. ASSUME NEW p \in Processes, Read(p) PROVE ControlType'
  BY <1>23 DEF Read, Content
<1>24. ASSUME NEW p \in Processes, ReadFails(p) PROVE ControlType'
  BY <1>24 DEF ReadFails, Content, End, Unlock
<1>25. ASSUME NEW p \in Processes, Resolve(p) PROVE ControlType'
  BY <1>25 DEF Resolve, End, Unlock
<1>26. ASSUME NEW p \in Processes, AcquireSecond(p) PROVE ControlType'
  BY <1>26 DEF AcquireSecond, Remember
<1>27. ASSUME NEW p \in Processes, Prepare(p) PROVE ControlType'
  BY <1>27 DEF Prepare
<1>28. ASSUME NEW p \in Processes, Spawn(p) PROVE ControlType'
  BY SMTT(30), <1>28, CommandsAssumption DEF Spawn, ConfigureChild
<1>29. ASSUME NEW p \in Processes, SpawnFails(p) PROVE ControlType'
  BY <1>29 DEF SpawnFails, End, Unlock
<1>30. ASSUME NEW p \in Processes, Reply(p) PROVE ControlType'
  <2>1. UNCHANGED <<lock, files, artifacts, memory, listing, history>>
    BY <1>30 DEF Reply
  <2>2. PICK label \in {"replying", "answered"} : pc' = [pc EXCEPT ![p] = label]
    BY <1>30 DEF Reply
  <2>3. pc[p] \in {"reply", "replying"}
    BY <1>30 DEF Reply
  <2>4. answer' \in [Processes -> {"absent", "empty", "partial", "whole"}] /\ UNCHANGED got
    BY <1>30 DEF Reply
  <2> QED
    BY <2>1, <2>2, <2>3, <2>4
<1>31. ASSUME NEW p \in Processes, FinishReply(p) PROVE ControlType'
  BY <1>31 DEF FinishReply, End, Unlock
<1>32. ASSUME NEW p \in Processes, ReplyFails(p) PROVE ControlType'
  BY <1>32 DEF ReplyFails, End, Unlock, Trouble
<1>33. ASSUME NEW p \in Processes, Collect(p) PROVE ControlType'
  <2>1. /\ pc' = [pc EXCEPT ![p] = "failed"] \/ pc' = [pc EXCEPT ![p] = "done"]
        /\ Unlock(p)
        /\ got' = [got EXCEPT ![p] = answer[p]] /\ answer' = [answer EXCEPT ![p] = "absent"]
        /\ UNCHANGED <<pid, env, token, want, display, task, parent, saved, taken, loose>>
    BY <1>33 DEF Collect, End
  <2>2. pc' \in [Processes -> Labels] /\ holder' \in [Tools -> Processes \cup {Nobody}]
    BY <2>1 DEF Unlock
  <2>3. answer' \in [Processes -> {"absent", "empty", "partial", "whole"}]
    BY <2>1
  <2>4. got' = [q \in Processes |-> got'[q]]
    BY <2>1
  <2> QED
    BY <2>1, <2>2, <2>3, <2>4
<1>34. ASSUME NEW p \in Processes, Kill(p) PROVE ControlType'
  BY <1>34 DEF Kill, End, Unlock, DropTemp, NoFile, Trouble
<1>35. ASSUME PowerLoss PROVE ControlType'
  BY <1>35 DEF PowerLoss, LosePower, Recovered, NoFile, Trouble
<1>36. CASE UNCHANGED vars
  BY <1>36
<1> HIDE DEF Goto, lock, files, artifacts, memory, listing, answers, history, vars,
   BaseInv, TypeInv, ControlType, Labels, Ends, Modes, Displays, JobNames, Writing,
   RoleInv
<1> QED
  BY <1>1, <1>2, <1>3, <1>4, <1>5, <1>6, <1>7, <1>8, <1>9, <1>10, <1>11, <1>12, <1>13,
     <1>14, <1>15, <1>16, <1>17, <1>18, <1>19, <1>20, <1>21, <1>22, <1>23, <1>24, <1>25,
     <1>26, <1>27, <1>28, <1>29, <1>30, <1>31, <1>32, <1>33, <1>34, <1>35, <1>36
  DEF Next, Step



LEMMA DataStep ==
  ASSUME BaseInv, [Next]_vars
  PROVE  DataType'
<1> USE DEF Goto, lock, files, artifacts, memory, listing, answers, history, vars,
   BaseInv, TypeInv, DataType, Writing, RoleInv
<1>1. ASSUME NEW p \in Processes, Start(p) \/ Acquire(p) \/ Try(p) \/ Refuse(p) \/
   Wait(p) \/ Interrupt(p) \/ Record(p) \/ RecordFails(p) \/ NoIdIsFree(p) \/
   NothingToRemove(p) \/ ReadFails(p) \/ Resolve(p) \/ AcquireSecond(p) \/ Prepare(p) \/
   Spawn(p) \/ SpawnFails(p) \/ Reply(p) \/ FinishReply(p) \/ ReplyFails(p) \/ Collect(p)
   PROVE DataType'
  <2>1. UNCHANGED <<files, artifacts, at, text, listing, removed>>
    BY <1>1 DEF Start, Acquire, Remember, Try, TryLock, Free, Refuse, End, Unlock, Wait,
       Show, Interrupt, Clear, Record, WriteMetadata, RecordFails, EmptyMetadata, Trouble,
       NoIdIsFree, NothingToRemove, ReadFails, Content, Resolve, AcquireSecond, Prepare,
       Spawn, ConfigureChild, SpawnFails, Reply, FinishReply, ReplyFails, Collect
  <2> QED
    BY <2>1
<1>2. ASSUME NEW p \in Processes, Load(p) PROVE DataType'
  <2>1. text[p] \in Contents /\ text' = [text EXCEPT ![p] = LoadOrDefault(task[p].tool, {}) \cup {p}]
    BY <1>2 DEF Load
  <2>2. task[p].tool \in Tools
    BY <1>2 DEF Load
  <2>3. LoadOrDefault(task[p].tool, {}) \cup {p} \in Contents
    BY <2>2, ContentTypes DEF LoadOrDefault, Content, FileInv, Settings
  <2>4. text' \in [Processes -> Contents]
    BY <2>1, <2>3
  <2> QED
    BY <1>2, <2>4 DEF Load
<1>3. ASSUME NEW p \in Processes, Write(p) PROVE DataType'
  <2>1. folder' \in [Tools -> {"absent", "new", "firm"}]
    BY <1>3 DEF Write, WriteTemp, EnsureDirectory
  <2>2. temp' \in [Processes -> TempFile]
    BY <1>3, FileTypes, ContentTypes DEF Write, WriteTemp
  <2> QED
    BY <1>3, <2>1, <2>2 DEF Write, WriteTemp
<1>4. ASSUME NEW p \in Processes, Sync(p) PROVE DataType'
  <2>1. temp' \in [Processes -> TempFile]
    BY <1>4, FileTypes DEF Sync, SyncTemp
  <2> QED
    BY <1>4, <2>1 DEF Sync, SyncTemp
<1>5. ASSUME NEW p \in Processes, Persist(p) PROVE DataType'
  <2>1. UNCHANGED <<durable, at, listing, removed, artifacts, text, folder>>
    BY <1>5 DEF Persist, PersistTemp
  <2>2. /\ visible' = [visible EXCEPT ![Target(p)] = temp[p]]
        /\ temp' = [temp EXCEPT ![p] = NoFile]
    BY <1>5 DEF Persist, PersistTemp
  <2>3. temp[p] \in Entries
    BY <1>5, FileTypes DEF Persist, FileInv
  <2>4. visible' \in [Tools \cup Ids -> Entries] /\ temp' \in [Processes -> TempFile]
    BY <2>2, <2>3, FileTypes
  <2> QED
    BY <2>1, <2>4
<1>6. ASSUME NEW p \in Processes, FinishSave(p) PROVE DataType'
  <2>1. UNCHANGED <<visible, temp, at, listing, removed, artifacts, text, folder>>
    BY <1>6 DEF FinishSave, SyncDirectory
  <2>2. durable' = [durable EXCEPT ![Target(p)] = visible[Target(p)]]
    BY <1>6 DEF FinishSave, SyncDirectory
  <2>3. Target(p) \in Tools \cup Ids
    BY <1>6 DEF FinishSave, Target
  <2>4. durable' \in [Tools \cup Ids -> Entries]
    BY <2>2, <2>3
  <2> QED
    BY <2>1, <2>4
<1>7. ASSUME NEW p \in Processes, SaveFails(p) PROVE DataType'
  BY <1>7, FileTypes, ContentTypes DEF SaveFails, DropTemp, NoFile, End, Unlock,
     Trouble
<1>8. ASSUME NEW p \in Processes, CreateArtifact(p) PROVE DataType'
  <2>1. PICK id \in Ids : Allocate(id) /\ at' = [at EXCEPT ![p] = id]
                          /\ text' = [text EXCEPT ![p] = Describe(p, id)]
    BY <1>8 DEF CreateArtifact
  <2>2. text' \in [Processes -> Contents] /\ at' \in [Processes -> Ids \cup {<<>>}]
    BY <2>1, ContentTypes
  <2> QED
    BY <1>8, <2>1, <2>2 DEF CreateArtifact, Allocate
<1>9. ASSUME NEW p \in Processes, BuildImage(p) PROVE DataType'
  BY <1>9 DEF BuildImage, SaveImage
<1>10. ASSUME NEW p \in Processes, RemoveArtifact(p) PROVE DataType'
  <2>1. PICK id \in Ids : /\ at' = [at EXCEPT ![p] = id] /\ removed' = removed \cup {id}
                          /\ \/ images' = images \ {id} /\ UNCHANGED visible
                             \/ visible' = [visible EXCEPT ![id] = NoFile] /\ UNCHANGED images
    BY <1>10 DEF RemoveArtifact
  <2>2. visible' \in [Tools \cup Ids -> Entries]
    BY <2>1, FileTypes
  <2> QED
    BY <1>10, <2>1, <2>2 DEF RemoveArtifact
<1>11. ASSUME NEW p \in Processes, Unlink(p) PROVE DataType'
  BY <1>11, FileTypes, ContentTypes DEF Unlink, NoFile, End, Unlock
<1>12. ASSUME NEW p \in Processes, List(p) PROVE DataType'
  BY <1>12 DEF List
<1>13. ASSUME NEW p \in Processes, Visit(p) PROVE DataType'
  BY <1>13 DEF Visit, Described, Content
<1>14. ASSUME NEW p \in Processes, Read(p) PROVE DataType'
  BY <1>14, FileTypes, ContentTypes DEF Read, Content
<1>15. ASSUME NEW p \in Processes, Kill(p) PROVE DataType'
  BY <1>15, FileTypes, ContentTypes DEF Kill, End, Unlock, DropTemp, NoFile, Trouble
<1>16. ASSUME PowerLoss PROVE DataType'
  <2>1. PICK lost \in SUBSET {f \in DOMAIN visible : visible[f] # durable[f]},
             gone \in SUBSET ((dirs \ firm) \cup {t \in Tools : folder[t] = "new"}) :
               LosePower(lost, gone) /\ dirs' = dirs \ gone /\ images' = images \ gone
    BY <1>16 DEF PowerLoss
  <2>2. /\ visible' \in [Tools \cup Ids -> Entries] /\ durable' = visible'
        /\ temp' \in [Processes -> TempFile] /\ folder' \in [Tools -> {"absent", "new", "firm"}]
    BY <2>1, FileTypes DEF LosePower
  <2> QED
    BY <1>16, <2>1, <2>2 DEF PowerLoss
<1>17. CASE UNCHANGED vars
  BY <1>17
<1> HIDE DEF Goto, lock, files, artifacts, memory, listing, answers, history, vars,
   BaseInv, TypeInv, DataType, Writing, RoleInv
<1> QED
  BY <1>1, <1>2, <1>3, <1>4, <1>5, <1>6, <1>7, <1>8, <1>9, <1>10, <1>11, <1>12, <1>13,
     <1>14, <1>15, <1>16, <1>17 DEF Next, Step


(* A process is at a label of its task.                                    *)
LEMMA RoleStep ==
  ASSUME BaseInv, [Next]_vars
  PROVE  RoleInv'
<1> USE DEF Goto, lock, files, artifacts, memory, listing, answers, history, vars,
   BaseInv, TypeInv, ControlType, DataType, RoleInv, Labels, Ends, Modes, Displays,
   JobNames, Writing
<1>1. ASSUME NEW p \in Processes, Start(p) PROVE RoleInv'
  BY <1>1, CommandsAssumption DEF Start
<1>2. ASSUME NEW p \in Processes, Acquire(p) PROVE RoleInv'
  BY <1>2 DEF Acquire, Remember
<1>3. ASSUME NEW p \in Processes, Try(p) PROVE RoleInv'
  BY <1>3 DEF Try, TryLock, Free
<1>4. ASSUME NEW p \in Processes, Refuse(p) PROVE RoleInv'
  BY <1>4 DEF Refuse, End, Unlock, Free
<1>5. ASSUME NEW p \in Processes, Wait(p) PROVE RoleInv'
  BY <1>5 DEF Wait, Show, Free
<1>6. ASSUME NEW p \in Processes, Interrupt(p) PROVE RoleInv'
  BY <1>6 DEF Interrupt, Clear, End, Unlock
<1>7. ASSUME NEW p \in Processes, Record(p) PROVE RoleInv'
  BY <1>7 DEF Record, WriteMetadata, Clear
<1>8. ASSUME NEW p \in Processes, RecordFails(p) PROVE RoleInv'
  BY <1>8 DEF RecordFails, EmptyMetadata, Clear, Unlock, Trouble
<1>9. ASSUME NEW p \in Processes, Load(p) PROVE RoleInv'
  BY <1>9 DEF Load, LoadOrDefault, Content
<1>10. ASSUME NEW p \in Processes, Write(p) PROVE RoleInv'
  BY <1>10 DEF Write, WriteTemp
<1>11. ASSUME NEW p \in Processes, Sync(p) PROVE RoleInv'
  BY <1>11 DEF Sync, SyncTemp
<1>12. ASSUME NEW p \in Processes, Persist(p) PROVE RoleInv'
  BY <1>12 DEF Persist, PersistTemp, Target, NoFile
<1>13. ASSUME NEW p \in Processes, FinishSave(p) PROVE RoleInv'
  BY <1>13 DEF FinishSave, SyncDirectory, Target, End, Unlock
<1>14. ASSUME NEW p \in Processes, SaveFails(p) PROVE RoleInv'
  BY <1>14 DEF SaveFails, DropTemp, NoFile, End, Unlock, Trouble
<1>15. ASSUME NEW p \in Processes, CreateArtifact(p) PROVE RoleInv'
  BY <1>15 DEF CreateArtifact, Allocate
<1>16. ASSUME NEW p \in Processes, NoIdIsFree(p) PROVE RoleInv'
  BY <1>16 DEF NoIdIsFree, End, Unlock
<1>17. ASSUME NEW p \in Processes, BuildImage(p) PROVE RoleInv'
  BY <1>17 DEF BuildImage, SaveImage
<1>18. ASSUME NEW p \in Processes, RemoveArtifact(p) PROVE RoleInv'
  BY <1>18 DEF RemoveArtifact, NoFile
<1>19. ASSUME NEW p \in Processes, NothingToRemove(p) PROVE RoleInv'
  BY <1>19 DEF NothingToRemove, End, Unlock
<1>20. ASSUME NEW p \in Processes, Unlink(p) PROVE RoleInv'
  BY <1>20 DEF Unlink, NoFile, End, Unlock
<1>21. ASSUME NEW p \in Processes, List(p) PROVE RoleInv'
  BY <1>21 DEF List
<1>22. ASSUME NEW p \in Processes, Visit(p) PROVE RoleInv'
  BY <1>22 DEF Visit, Described, Content
<1>23. ASSUME NEW p \in Processes, Read(p) PROVE RoleInv'
  BY <1>23 DEF Read, Content
<1>24. ASSUME NEW p \in Processes, ReadFails(p) PROVE RoleInv'
  BY <1>24 DEF ReadFails, Content, End, Unlock
<1>25. ASSUME NEW p \in Processes, Resolve(p) PROVE RoleInv'
  BY <1>25 DEF Resolve, End, Unlock
<1>26. ASSUME NEW p \in Processes, AcquireSecond(p) PROVE RoleInv'
  BY <1>26 DEF AcquireSecond, Remember
<1>27. ASSUME NEW p \in Processes, Prepare(p) PROVE RoleInv'
  BY <1>27 DEF Prepare
<1>28. ASSUME NEW p \in Processes, Spawn(p) PROVE RoleInv'
  BY <1>28, CommandsAssumption DEF Spawn, ConfigureChild
<1>29. ASSUME NEW p \in Processes, SpawnFails(p) PROVE RoleInv'
  BY <1>29 DEF SpawnFails, End, Unlock
<1>30. ASSUME NEW p \in Processes, Reply(p) PROVE RoleInv'
  <2>1. UNCHANGED <<lock, files, artifacts, memory, listing, history>>
    BY <1>30 DEF Reply
  <2>2. PICK label \in {"replying", "answered"} : pc' = [pc EXCEPT ![p] = label]
    BY <1>30 DEF Reply
  <2>3. pc[p] \in {"reply", "replying"}
    BY <1>30 DEF Reply
  <2> QED
    BY <2>1, <2>2, <2>3
<1>31. ASSUME NEW p \in Processes, FinishReply(p) PROVE RoleInv'
  BY <1>31 DEF FinishReply, End, Unlock
<1>32. ASSUME NEW p \in Processes, ReplyFails(p) PROVE RoleInv'
  BY <1>32 DEF ReplyFails, End, Unlock, Trouble
<1>33. ASSUME NEW p \in Processes, Collect(p) PROVE RoleInv'
  BY <1>33 DEF Collect, End, Unlock
<1>34. ASSUME NEW p \in Processes, Kill(p) PROVE RoleInv'
  BY <1>34 DEF Kill, End, Unlock, DropTemp, NoFile, Trouble, Running
<1>35. ASSUME PowerLoss PROVE RoleInv'
  BY <1>35 DEF PowerLoss, LosePower, Recovered, NoFile, Trouble, Running
<1>36. CASE UNCHANGED vars
  BY <1>36
<1> HIDE DEF Goto, lock, files, artifacts, memory, listing, answers, history, vars,
   BaseInv, TypeInv, ControlType, DataType, RoleInv, Labels, Ends, Modes, Displays,
   JobNames, Writing
<1> QED
  BY <1>1, <1>2, <1>3, <1>4, <1>5, <1>6, <1>7, <1>8, <1>9, <1>10, <1>11, <1>12, <1>13,
     <1>14, <1>15, <1>16, <1>17, <1>18, <1>19, <1>20, <1>21, <1>22, <1>23, <1>24, <1>25,
     <1>26, <1>27, <1>28, <1>29, <1>30, <1>31, <1>32, <1>33, <1>34, <1>35, <1>36
  DEF Next, Step


(* A child has one parent, which waits for it or has ended.                *)
LEMMA ParentStep ==
  ASSUME BaseInv, [Next]_vars
  PROVE  ParentInv'
<1> USE DEF Goto, lock, files, artifacts, memory, listing, answers, history, vars,
   BaseInv, TypeInv, ControlType, RoleInv, ParentInv, Labels, Ends, Modes, Displays,
   JobNames, Writing
<1>1. ASSUME NEW p \in Processes, Start(p) PROVE ParentInv'
  BY <1>1, CommandsAssumption, InvocationLockAssumption DEF Start
<1>2. ASSUME NEW p \in Processes, Acquire(p) PROVE ParentInv'
  <2>1. UNCHANGED <<env, parent>> /\ pc[p] \notin {"idle", "wait"} \cup Ends
    BY <1>2 DEF Acquire, Remember
  <2>2. PICK label \in {"try", "work"} : pc' = [pc EXCEPT ![p] = label]
    BY <1>2 DEF Acquire, Remember
  <2> QED
    BY <2>1, <2>2
<1>3. ASSUME NEW p \in Processes, Try(p) PROVE ParentInv'
  BY <1>3, CommandsAssumption, InvocationLockAssumption DEF Try, TryLock, Free
<1>4. ASSUME NEW p \in Processes, Refuse(p) PROVE ParentInv'
  <2>1. UNCHANGED <<env, parent>> /\ pc[p] \notin {"idle", "wait"} \cup Ends
    BY <1>4 DEF Refuse, End
  <2>2. PICK label \in {"refused", "spawn"} : pc' = [pc EXCEPT ![p] = label]
    BY <1>4 DEF Refuse, End
  <2> QED
    BY <2>1, <2>2
<1>5. ASSUME NEW p \in Processes, Wait(p) PROVE ParentInv'
  BY <1>5, CommandsAssumption, InvocationLockAssumption DEF Wait, Show, Free
<1>6. ASSUME NEW p \in Processes, Interrupt(p) PROVE ParentInv'
  BY <1>6, CommandsAssumption, InvocationLockAssumption DEF Interrupt, Clear, End,
     Unlock
<1>7. ASSUME NEW p \in Processes, Record(p) PROVE ParentInv'
  BY <1>7, CommandsAssumption, InvocationLockAssumption DEF Record, WriteMetadata,
     Clear
<1>8. ASSUME NEW p \in Processes, RecordFails(p) PROVE ParentInv'
  BY <1>8, CommandsAssumption, InvocationLockAssumption DEF RecordFails,
     EmptyMetadata, Clear, Unlock, Trouble
<1>9. ASSUME NEW p \in Processes, Load(p) PROVE ParentInv'
  BY <1>9, CommandsAssumption, InvocationLockAssumption DEF Load, LoadOrDefault,
     Content
<1>10. ASSUME NEW p \in Processes, Write(p) PROVE ParentInv'
  BY <1>10, CommandsAssumption, InvocationLockAssumption DEF Write, WriteTemp
<1>11. ASSUME NEW p \in Processes, Sync(p) PROVE ParentInv'
  BY <1>11, CommandsAssumption, InvocationLockAssumption DEF Sync, SyncTemp
<1>12. ASSUME NEW p \in Processes, Persist(p) PROVE ParentInv'
  BY <1>12, CommandsAssumption, InvocationLockAssumption DEF Persist, PersistTemp,
     Target, NoFile
<1>13. ASSUME NEW p \in Processes, FinishSave(p) PROVE ParentInv'
  <2>1. UNCHANGED <<env, parent, task, want>> /\ pc[p] = "directory"
    BY <1>13 DEF FinishSave, End
  <2>2. PICK label \in {"reply", "done"} : pc' = [pc EXCEPT ![p] = label]
    BY <1>13 DEF FinishSave, End
  <2> QED
    BY <2>1, <2>2, CommandsAssumption, InvocationLockAssumption
<1>14. ASSUME NEW p \in Processes, SaveFails(p) PROVE ParentInv'
  BY <1>14, CommandsAssumption, InvocationLockAssumption DEF SaveFails, DropTemp,
     NoFile, End, Unlock, Trouble
<1>15. ASSUME NEW p \in Processes, CreateArtifact(p) PROVE ParentInv'
  BY <1>15, CommandsAssumption, InvocationLockAssumption DEF CreateArtifact, Allocate
<1>16. ASSUME NEW p \in Processes, NoIdIsFree(p) PROVE ParentInv'
  BY <1>16, CommandsAssumption, InvocationLockAssumption DEF NoIdIsFree, End, Unlock
<1>17. ASSUME NEW p \in Processes, BuildImage(p) PROVE ParentInv'
  BY <1>17, CommandsAssumption, InvocationLockAssumption DEF BuildImage, SaveImage
<1>18. ASSUME NEW p \in Processes, RemoveArtifact(p) PROVE ParentInv'
  BY <1>18, CommandsAssumption, InvocationLockAssumption DEF RemoveArtifact, NoFile
<1>19. ASSUME NEW p \in Processes, NothingToRemove(p) PROVE ParentInv'
  BY <1>19, CommandsAssumption, InvocationLockAssumption DEF NothingToRemove, End,
     Unlock
<1>20. ASSUME NEW p \in Processes, Unlink(p) PROVE ParentInv'
  BY <1>20, CommandsAssumption, InvocationLockAssumption DEF Unlink, NoFile, End,
     Unlock
<1>21. ASSUME NEW p \in Processes, List(p) PROVE ParentInv'
  BY <1>21, CommandsAssumption, InvocationLockAssumption DEF List
<1>22. ASSUME NEW p \in Processes, Visit(p) PROVE ParentInv'
  <2>1. UNCHANGED <<env, parent>> /\ pc[p] \notin {"idle", "wait"} \cup Ends
    BY <1>22 DEF Visit
  <2>2. PICK label \in {"read", "visit"} : pc' = [pc EXCEPT ![p] = label]
    BY <1>22 DEF Visit
  <2> QED
    BY <2>1, <2>2
<1>23. ASSUME NEW p \in Processes, Read(p) PROVE ParentInv'
  BY <1>23, CommandsAssumption, InvocationLockAssumption DEF Read, Content
<1>24. ASSUME NEW p \in Processes, ReadFails(p) PROVE ParentInv'
  BY <1>24, CommandsAssumption, InvocationLockAssumption DEF ReadFails, Content, End,
     Unlock
<1>25. ASSUME NEW p \in Processes, Resolve(p) PROVE ParentInv'
  BY <1>25, CommandsAssumption, InvocationLockAssumption DEF Resolve, End, Unlock
<1>26. ASSUME NEW p \in Processes, AcquireSecond(p) PROVE ParentInv'
  BY <1>26, CommandsAssumption, InvocationLockAssumption DEF AcquireSecond, Remember
<1>27. ASSUME NEW p \in Processes, Prepare(p) PROVE ParentInv'
  BY <1>27, CommandsAssumption, InvocationLockAssumption DEF Prepare
<1>28. ASSUME NEW p \in Processes, Spawn(p) PROVE ParentInv'
  <2>1. PICK c \in Children :
          /\ pc[c] = "idle" /\ pc[p] = "spawn"
          /\ pc' = [pc EXCEPT ![p] = "wait", ![c] = "acquire"]
          /\ parent' = [parent EXCEPT ![c] = p]
          /\ env' = [env EXCEPT ![c] = token[p]]
    BY <1>28 DEF Spawn, ConfigureChild
  <2>2. \A d \in Processes : parent[d] \notin {p, c}
    <3> SUFFICES ASSUME NEW d \in Processes, parent[d] \in {p, c} PROVE FALSE
      OBVIOUS
    <3>1. parent[d] # Nobody
      BY InvocationLockAssumption, CommandsAssumption
    <3>2. pc[parent[d]] \in {"wait"} \cup Ends
      BY <3>1
    <3> QED
      BY <2>1, <3>2
  <2> QED
    BY <2>1, <2>2, InvocationLockAssumption, CommandsAssumption
<1>29. ASSUME NEW p \in Processes, SpawnFails(p) PROVE ParentInv'
  BY <1>29, CommandsAssumption, InvocationLockAssumption DEF SpawnFails, End, Unlock
<1>30. ASSUME NEW p \in Processes, Reply(p) PROVE ParentInv'
  <2>1. UNCHANGED <<lock, files, artifacts, memory, listing, history>>
    BY <1>30 DEF Reply
  <2>2. PICK label \in {"replying", "answered"} : pc' = [pc EXCEPT ![p] = label]
    BY <1>30 DEF Reply
  <2>3. pc[p] \in {"reply", "replying"}
    BY <1>30 DEF Reply
  <2> QED
    BY <2>1, <2>2, <2>3, CommandsAssumption, InvocationLockAssumption
<1>31. ASSUME NEW p \in Processes, FinishReply(p) PROVE ParentInv'
  BY <1>31, CommandsAssumption, InvocationLockAssumption DEF FinishReply, End, Unlock
<1>32. ASSUME NEW p \in Processes, ReplyFails(p) PROVE ParentInv'
  BY <1>32, CommandsAssumption, InvocationLockAssumption DEF ReplyFails, End, Unlock, Trouble
<1>33. ASSUME NEW p \in Processes, Collect(p) PROVE ParentInv'
  BY <1>33, CommandsAssumption, InvocationLockAssumption DEF Collect, End, Unlock
<1>34. ASSUME NEW p \in Processes, Kill(p) PROVE ParentInv'
  BY <1>34, CommandsAssumption, InvocationLockAssumption DEF Kill, End, Unlock,
     DropTemp, NoFile, Trouble
<1>35. ASSUME PowerLoss PROVE ParentInv'
  BY <1>35, CommandsAssumption, InvocationLockAssumption DEF PowerLoss, LosePower,
     Recovered, NoFile, Trouble
<1>36. CASE UNCHANGED vars
  BY <1>36, CommandsAssumption, InvocationLockAssumption
<1> HIDE DEF Goto, lock, files, artifacts, memory, listing, answers, history, vars,
   BaseInv, TypeInv, ControlType, RoleInv, ParentInv, Labels, Ends, Modes, Displays,
   JobNames, Writing
<1> QED
  BY <1>1, <1>2, <1>3, <1>4, <1>5, <1>6, <1>7, <1>8, <1>9, <1>10, <1>11, <1>12, <1>13,
     <1>14, <1>15, <1>16, <1>17, <1>18, <1>19, <1>20, <1>21, <1>22, <1>23, <1>24, <1>25,
     <1>26, <1>27, <1>28, <1>29, <1>30, <1>31, <1>32, <1>33, <1>34, <1>35, <1>36
  DEF Next, Step


(* Only who runs has a lock.                                               *)
LEMMA LockStep ==
  ASSUME BaseInv, [Next]_vars
  PROVE  LockInv'
<1> USE DEF Goto, lock, files, artifacts, memory, listing, answers, history, vars,
   BaseInv, TypeInv, ControlType, RoleInv, ParentInv, LockInv, Running, Passes, Bypasses,
   Labels, Ends, Modes, Displays, JobNames, Writing
<1>1. ASSUME NEW p \in Processes, Start(p) PROVE LockInv'
  BY <1>1, CommandsAssumption, InvocationLockAssumption DEF Start
<1>2. ASSUME NEW p \in Processes, Acquire(p) PROVE LockInv'
  BY <1>2, CommandsAssumption, InvocationLockAssumption DEF Acquire, Remember
<1>3. ASSUME NEW p \in Processes, Try(p) PROVE LockInv'
  BY <1>3, CommandsAssumption, InvocationLockAssumption DEF Try, TryLock, Free
<1>4. ASSUME NEW p \in Processes, Refuse(p) PROVE LockInv'
  BY <1>4, CommandsAssumption, InvocationLockAssumption DEF Refuse, End, Unlock, Free
<1>5. ASSUME NEW p \in Processes, Wait(p) PROVE LockInv'
  BY <1>5, CommandsAssumption, InvocationLockAssumption DEF Wait, Show, Free
<1>6. ASSUME NEW p \in Processes, Interrupt(p) PROVE LockInv'
  BY <1>6, CommandsAssumption, InvocationLockAssumption DEF Interrupt, Clear, End,
     Unlock
<1>7. ASSUME NEW p \in Processes, Record(p) PROVE LockInv'
  BY <1>7, CommandsAssumption, InvocationLockAssumption DEF Record, WriteMetadata,
     Clear
<1>8. ASSUME NEW p \in Processes, RecordFails(p) PROVE LockInv'
  BY <1>8, CommandsAssumption, InvocationLockAssumption DEF RecordFails,
     EmptyMetadata, Clear, Unlock, Trouble
<1>9. ASSUME NEW p \in Processes, Load(p) PROVE LockInv'
  BY <1>9, CommandsAssumption, InvocationLockAssumption DEF Load, LoadOrDefault,
     Content
<1>10. ASSUME NEW p \in Processes, Write(p) PROVE LockInv'
  BY <1>10, CommandsAssumption, InvocationLockAssumption DEF Write, WriteTemp
<1>11. ASSUME NEW p \in Processes, Sync(p) PROVE LockInv'
  BY <1>11, CommandsAssumption, InvocationLockAssumption DEF Sync, SyncTemp
<1>12. ASSUME NEW p \in Processes, Persist(p) PROVE LockInv'
  BY <1>12, CommandsAssumption, InvocationLockAssumption DEF Persist, PersistTemp,
     Target, NoFile
<1>13. ASSUME NEW p \in Processes, FinishSave(p) PROVE LockInv'
  <2>1. UNCHANGED <<env, parent, task, want>> /\ pc[p] = "directory"
    BY <1>13 DEF FinishSave, End
  <2>2. PICK label \in {"reply", "done"} : pc' = [pc EXCEPT ![p] = label]
    BY <1>13 DEF FinishSave, End
  <2>3. label = "done" => Unlock(p)
    BY <1>13, <2>2 DEF FinishSave, End
  <2>4. label = "reply" => UNCHANGED holder
    BY <1>13, <2>2 DEF FinishSave, End
  <2>5. CASE label = "done"
    BY <2>1, <2>2, <2>3, <2>5, CommandsAssumption, InvocationLockAssumption DEF Unlock
  <2>6. CASE label = "reply"
    BY <2>1, <2>2, <2>4, <2>6, CommandsAssumption, InvocationLockAssumption
  <2> QED
    BY <2>5, <2>6
<1>14. ASSUME NEW p \in Processes, SaveFails(p) PROVE LockInv'
  BY <1>14, CommandsAssumption, InvocationLockAssumption DEF SaveFails, DropTemp,
     NoFile, End, Unlock, Trouble
<1>15. ASSUME NEW p \in Processes, CreateArtifact(p) PROVE LockInv'
  BY <1>15, CommandsAssumption, InvocationLockAssumption DEF CreateArtifact, Allocate
<1>16. ASSUME NEW p \in Processes, NoIdIsFree(p) PROVE LockInv'
  BY <1>16, CommandsAssumption, InvocationLockAssumption DEF NoIdIsFree, End, Unlock
<1>17. ASSUME NEW p \in Processes, BuildImage(p) PROVE LockInv'
  BY <1>17, CommandsAssumption, InvocationLockAssumption DEF BuildImage, SaveImage
<1>18. ASSUME NEW p \in Processes, RemoveArtifact(p) PROVE LockInv'
  BY <1>18, CommandsAssumption, InvocationLockAssumption DEF RemoveArtifact, NoFile
<1>19. ASSUME NEW p \in Processes, NothingToRemove(p) PROVE LockInv'
  BY <1>19, CommandsAssumption, InvocationLockAssumption DEF NothingToRemove, End,
     Unlock
<1>20. ASSUME NEW p \in Processes, Unlink(p) PROVE LockInv'
  BY <1>20, CommandsAssumption, InvocationLockAssumption DEF Unlink, NoFile, End,
     Unlock
<1>21. ASSUME NEW p \in Processes, List(p) PROVE LockInv'
  BY <1>21, CommandsAssumption, InvocationLockAssumption DEF List
<1>22. ASSUME NEW p \in Processes, Visit(p) PROVE LockInv'
  BY <1>22, CommandsAssumption, InvocationLockAssumption DEF Visit, Described, Content
<1>23. ASSUME NEW p \in Processes, Read(p) PROVE LockInv'
  BY <1>23, CommandsAssumption, InvocationLockAssumption DEF Read, Content
<1>24. ASSUME NEW p \in Processes, ReadFails(p) PROVE LockInv'
  BY <1>24, CommandsAssumption, InvocationLockAssumption DEF ReadFails, Content, End,
     Unlock
<1>25. ASSUME NEW p \in Processes, Resolve(p) PROVE LockInv'
  BY <1>25, CommandsAssumption, InvocationLockAssumption DEF Resolve, End, Unlock
<1>26. ASSUME NEW p \in Processes, AcquireSecond(p) PROVE LockInv'
  BY <1>26, CommandsAssumption, InvocationLockAssumption DEF AcquireSecond, Remember
<1>27. ASSUME NEW p \in Processes, Prepare(p) PROVE LockInv'
  BY <1>27, CommandsAssumption, InvocationLockAssumption DEF Prepare
<1>28. ASSUME NEW p \in Processes, Spawn(p) PROVE LockInv'
  BY <1>28, CommandsAssumption, InvocationLockAssumption DEF Spawn, ConfigureChild
<1>29. ASSUME NEW p \in Processes, SpawnFails(p) PROVE LockInv'
  BY <1>29, CommandsAssumption, InvocationLockAssumption DEF SpawnFails, End, Unlock
<1>30. ASSUME NEW p \in Processes, Reply(p) PROVE LockInv'
  <2>1. UNCHANGED <<lock, files, artifacts, memory, listing, history>>
    BY <1>30 DEF Reply
  <2>2. PICK label \in {"replying", "answered"} : pc' = [pc EXCEPT ![p] = label]
    BY <1>30 DEF Reply
  <2>3. pc[p] \in {"reply", "replying"}
    BY <1>30 DEF Reply
  <2> QED
    BY <2>1, <2>2, <2>3, CommandsAssumption, InvocationLockAssumption
<1>31. ASSUME NEW p \in Processes, FinishReply(p) PROVE LockInv'
  BY <1>31, CommandsAssumption, InvocationLockAssumption DEF FinishReply, End, Unlock
<1>32. ASSUME NEW p \in Processes, ReplyFails(p) PROVE LockInv'
  BY <1>32, CommandsAssumption, InvocationLockAssumption DEF ReplyFails, End, Unlock, Trouble
<1>33. ASSUME NEW p \in Processes, Collect(p) PROVE LockInv'
  <2>1. UNCHANGED <<env, parent, task, want>> /\ pc[p] = "wait" /\ Unlock(p)
    BY <1>33 DEF Collect, End
  <2>2. PICK label \in {"failed", "done"} : pc' = [pc EXCEPT ![p] = label]
    BY <1>33 DEF Collect, End
  <2> QED
    BY <2>1, <2>2, CommandsAssumption, InvocationLockAssumption DEF Unlock
<1>34. ASSUME NEW p \in Processes, Kill(p) PROVE LockInv'
  BY <1>34, CommandsAssumption, InvocationLockAssumption DEF Kill, End, Unlock,
     DropTemp, NoFile, Trouble
<1>35. ASSUME PowerLoss PROVE LockInv'
  BY <1>35, CommandsAssumption, InvocationLockAssumption DEF PowerLoss, LosePower,
     Recovered, NoFile, Trouble
<1>36. CASE UNCHANGED vars
  BY <1>36, CommandsAssumption, InvocationLockAssumption
<1> HIDE DEF Goto, lock, files, artifacts, memory, listing, answers, history, vars,
   BaseInv, TypeInv, ControlType, RoleInv, ParentInv, LockInv, Running, Passes, Bypasses,
   Labels, Ends, Modes, Displays, JobNames, Writing
<1> QED
  BY <1>1, <1>2, <1>3, <1>4, <1>5, <1>6, <1>7, <1>8, <1>9, <1>10, <1>11, <1>12, <1>13,
     <1>14, <1>15, <1>16, <1>17, <1>18, <1>19, <1>20, <1>21, <1>22, <1>23, <1>24, <1>25,
     <1>26, <1>27, <1>28, <1>29, <1>30, <1>31, <1>32, <1>33, <1>34, <1>35, <1>36
  DEF Next, Step


(* Files hold what is meant to be in them.                                 *)
LEMMA FileStep ==
  ASSUME BaseInv, [Next]_vars
  PROVE  FileInv'
<1> USE DEF Goto, lock, files, artifacts, memory, listing, answers, history, vars,
   BaseInv, TypeInv, ControlType, DataType, RoleInv, FileInv, Labels, Ends, Modes,
   Displays, JobNames, Writing
<1>1. ASSUME NEW p \in Processes, Start(p) PROVE FileInv'
  BY <1>1, CommandsAssumption DEF Start
<1>2. ASSUME NEW p \in Processes, Acquire(p) PROVE FileInv'
  BY <1>2, CommandsAssumption DEF Acquire, Remember
<1>3. ASSUME NEW p \in Processes, Try(p) PROVE FileInv'
  BY <1>3, CommandsAssumption DEF Try, TryLock, Free
<1>4. ASSUME NEW p \in Processes, Refuse(p) PROVE FileInv'
  BY <1>4, CommandsAssumption DEF Refuse, End, Unlock, Free
<1>5. ASSUME NEW p \in Processes, Wait(p) PROVE FileInv'
  BY <1>5, CommandsAssumption DEF Wait, Show, Free
<1>6. ASSUME NEW p \in Processes, Interrupt(p) PROVE FileInv'
  BY <1>6, CommandsAssumption DEF Interrupt, Clear, End, Unlock
<1>7. ASSUME NEW p \in Processes, Record(p) PROVE FileInv'
  BY <1>7, CommandsAssumption DEF Record, WriteMetadata, Clear
<1>8. ASSUME NEW p \in Processes, RecordFails(p) PROVE FileInv'
  BY <1>8, CommandsAssumption DEF RecordFails, EmptyMetadata, Clear, Unlock, Trouble
<1>9. ASSUME NEW p \in Processes, Load(p) PROVE FileInv'
  <2>1. /\ text' = [text EXCEPT ![p] = LoadOrDefault(task[p].tool, {}) \cup {p}]
        /\ pc' = [pc EXCEPT ![p] = "write"]
        /\ task[p].tool \in Tools /\ task[p].job = "update"
        /\ UNCHANGED <<visible, durable, temp, task, at>>
    BY <1>9 DEF Load
  <2>2. LoadOrDefault(task[p].tool, {}) \subseteq Processes
    BY <2>1 DEF LoadOrDefault, Content, Settings
  <2>3. text'[p] \in Settings /\ p \in text'[p]
    BY <2>1, <2>2 DEF Settings
  <2> QED
    BY <2>1, <2>3
<1>10. ASSUME NEW p \in Processes, Write(p) PROVE FileInv'
  BY <1>10, CommandsAssumption DEF Write, WriteTemp
<1>11. ASSUME NEW p \in Processes, Sync(p) PROVE FileInv'
  BY <1>11, CommandsAssumption DEF Sync, SyncTemp
<1>12. ASSUME NEW p \in Processes, Persist(p) PROVE FileInv'
  BY <1>12, CommandsAssumption DEF Persist, PersistTemp, Target, NoFile
<1>13. ASSUME NEW p \in Processes, FinishSave(p) PROVE FileInv'
  BY <1>13, CommandsAssumption DEF FinishSave, SyncDirectory, Target, End, Unlock
<1>14. ASSUME NEW p \in Processes, SaveFails(p) PROVE FileInv'
  BY <1>14, CommandsAssumption DEF SaveFails, DropTemp, NoFile, End, Unlock, Trouble
<1>15. ASSUME NEW p \in Processes, CreateArtifact(p) PROVE FileInv'
  <2>1. PICK id \in Ids : at' = [at EXCEPT ![p] = id] /\ text' = [text EXCEPT ![p] = Describe(p, id)]
    BY <1>15 DEF CreateArtifact
  <2>2. /\ pc' = [pc EXCEPT ![p] = "image"] /\ task[p].job = "build"
        /\ UNCHANGED <<visible, durable, temp, task>>
    BY <1>15 DEF CreateArtifact
  <2>3. text'[p] \in Descriptions /\ text'[p].id = at'[p]
    BY <2>1, CommandsAssumption DEF Descriptions
  <2> QED
    BY <2>1, <2>2, <2>3
<1>16. ASSUME NEW p \in Processes, NoIdIsFree(p) PROVE FileInv'
  BY <1>16, CommandsAssumption DEF NoIdIsFree, End, Unlock
<1>17. ASSUME NEW p \in Processes, BuildImage(p) PROVE FileInv'
  BY <1>17, CommandsAssumption DEF BuildImage, SaveImage
<1>18. ASSUME NEW p \in Processes, RemoveArtifact(p) PROVE FileInv'
  <2>1. PICK id \in Ids : /\ at' = [at EXCEPT ![p] = id]
                          /\ UNCHANGED visible \/ visible' = [visible EXCEPT ![id] = NoFile]
    BY <1>18 DEF RemoveArtifact
  <2>2. /\ pc' = [pc EXCEPT ![p] = "unlink"]
        /\ UNCHANGED <<durable, temp, task, text>>
    BY <1>18 DEF RemoveArtifact
  <2>3. /\ visible \in [Tools \cup Ids -> Entries]
        /\ pc \in [Processes -> Labels] /\ FileInv
        /\ at \in [Processes -> Ids \cup {<<>>}]
    OBVIOUS
  <2> HIDE DEF BaseInv, TypeInv, DataType, ControlType, RoleInv, FileInv
  <2>4. \A t \in Tools : visible'[t] = visible[t]
    BY <2>1, <2>3, CommandsAssumption
  <2>5. \A f \in Ids : visible'[f] = visible[f] \/ visible'[f] = NoFile
    BY <2>1, <2>3
  <2>6. \A i \in Ids : \A m \in {visible'[i].content, durable'[i].content} \ {Absent} :
          m \in Descriptions /\ m.id = i
    BY <2>2, <2>3, <2>5, FileTypes DEF FileInv
  <2>7. pc'[p] = "unlink" /\ \A q \in Processes \ {p} : pc'[q] = pc[q] /\ at'[q] = at[q]
    BY <2>1, <2>2, <2>3
  <2> QED
    BY <2>2, <2>3, <2>4, <2>6, <2>7 DEF FileInv
<1>19. ASSUME NEW p \in Processes, NothingToRemove(p) PROVE FileInv'
  BY <1>19, CommandsAssumption DEF NothingToRemove, End, Unlock
<1>20. ASSUME NEW p \in Processes, Unlink(p) PROVE FileInv'
  BY <1>20, CommandsAssumption DEF Unlink, NoFile, End, Unlock
<1>21. ASSUME NEW p \in Processes, List(p) PROVE FileInv'
  BY <1>21, CommandsAssumption DEF List
<1>22. ASSUME NEW p \in Processes, Visit(p) PROVE FileInv'
  BY <1>22, CommandsAssumption DEF Visit, Described, Content
<1>23. ASSUME NEW p \in Processes, Read(p) PROVE FileInv'
  BY <1>23, CommandsAssumption DEF Read, Content
<1>24. ASSUME NEW p \in Processes, ReadFails(p) PROVE FileInv'
  BY <1>24, CommandsAssumption DEF ReadFails, Content, End, Unlock
<1>25. ASSUME NEW p \in Processes, Resolve(p) PROVE FileInv'
  BY <1>25, CommandsAssumption DEF Resolve, End, Unlock
<1>26. ASSUME NEW p \in Processes, AcquireSecond(p) PROVE FileInv'
  BY <1>26, CommandsAssumption DEF AcquireSecond, Remember
<1>27. ASSUME NEW p \in Processes, Prepare(p) PROVE FileInv'
  BY <1>27, CommandsAssumption DEF Prepare
<1>28. ASSUME NEW p \in Processes, Spawn(p) PROVE FileInv'
  BY <1>28, CommandsAssumption DEF Spawn, ConfigureChild
<1>29. ASSUME NEW p \in Processes, SpawnFails(p) PROVE FileInv'
  BY <1>29, CommandsAssumption DEF SpawnFails, End, Unlock
<1>30. ASSUME NEW p \in Processes, Reply(p) PROVE FileInv'
  <2>1. UNCHANGED <<lock, files, artifacts, memory, listing, history>>
    BY <1>30 DEF Reply
  <2>2. PICK label \in {"replying", "answered"} : pc' = [pc EXCEPT ![p] = label]
    BY <1>30 DEF Reply
  <2>3. pc[p] \in {"reply", "replying"}
    BY <1>30 DEF Reply
  <2> QED
    BY <2>1, <2>2, <2>3, CommandsAssumption
<1>31. ASSUME NEW p \in Processes, FinishReply(p) PROVE FileInv'
  BY <1>31, CommandsAssumption DEF FinishReply, End, Unlock
<1>32. ASSUME NEW p \in Processes, ReplyFails(p) PROVE FileInv'
  BY <1>32, CommandsAssumption DEF ReplyFails, End, Unlock, Trouble
<1>33. ASSUME NEW p \in Processes, Collect(p) PROVE FileInv'
  BY <1>33, CommandsAssumption DEF Collect, End, Unlock
<1>34. ASSUME NEW p \in Processes, Kill(p) PROVE FileInv'
  BY <1>34, CommandsAssumption DEF Kill, End, Unlock, DropTemp, NoFile, Trouble
<1>35. ASSUME PowerLoss PROVE FileInv'
  <2>1. PICK lost \in SUBSET {f \in DOMAIN visible : visible[f] # durable[f]},
             gone \in SUBSET ((dirs \ firm) \cup {t \in Tools : folder[t] = "new"}) : LosePower(lost, gone)
    BY <1>35 DEF PowerLoss
  <2>2. \A p \in Processes : pc'[p] \in Ends \cup {"idle"}
    BY <1>35 DEF PowerLoss, Running
  <2>3. durable' = visible'
    BY <2>1 DEF LosePower
  <2>4. \A f \in Tools \cup Ids :
          visible'[f].content \in {visible[f].content, durable[f].content, Absent}
    BY <2>1, FileTypes DEF LosePower
  <2>5. \A t \in Tools : visible'[t].content \in {Absent} \cup Settings
    BY <2>4
  <2>6. \A id \in Ids : \A m \in {visible'[id].content, durable'[id].content} \ {Absent} :
          m \in Descriptions /\ m.id = id
    <3> SUFFICES ASSUME NEW id \in Ids, visible'[id].content # Absent
                 PROVE  visible'[id].content \in Descriptions /\ visible'[id].content.id = id
      BY <2>3
    <3>1. visible'[id].content \in {visible[id].content, durable[id].content} \ {Absent}
      BY <2>4
    <3>2. \A m \in {visible[id].content, durable[id].content} \ {Absent} :
            m \in Descriptions /\ m.id = id
      BY DEF FileInv
    <3> HIDE DEF BaseInv, TypeInv, RoleInv, ParentInv, LockInv, FileInv, ControlType, DataType
    <3> QED
      BY <3>1, <3>2
  <2> QED
    BY <2>2, <2>3, <2>5, <2>6
<1>36. CASE UNCHANGED vars
  BY <1>36, CommandsAssumption
<1> HIDE DEF Goto, lock, files, artifacts, memory, listing, answers, history, vars,
   BaseInv, TypeInv, ControlType, DataType, RoleInv, FileInv, Labels, Ends, Modes,
   Displays, JobNames, Writing
<1> QED
  BY <1>1, <1>2, <1>3, <1>4, <1>5, <1>6, <1>7, <1>8, <1>9, <1>10, <1>11, <1>12, <1>13,
     <1>14, <1>15, <1>16, <1>17, <1>18, <1>19, <1>20, <1>21, <1>22, <1>23, <1>24, <1>25,
     <1>26, <1>27, <1>28, <1>29, <1>30, <1>31, <1>32, <1>33, <1>34, <1>35, <1>36
  DEF Next, Step


(* A store has its directory before anything is renamed into it.           *)
LEMMA FolderStep ==
  ASSUME BaseInv, [Next]_vars
  PROVE  FolderInv'
<1> USE DEF Goto, lock, files, artifacts, memory, listing, answers, history, vars,
   BaseInv, TypeInv, ControlType, DataType, RoleInv, FolderInv, Labels, Ends, Modes,
   Displays, JobNames, Writing
<1>1. ASSUME UNCHANGED <<visible, durable, folder>>,
             \A q \in Processes : pc'[q] \in {"sync", "persist"} =>
               pc'[q] = pc[q] /\ task'[q] = task[q]
      PROVE  FolderInv'
  BY <1>1
<1>2. ASSUME NEW p \in Processes, NEW label \in Labels \ {"sync", "persist"},
             pc' = [pc EXCEPT ![p] = label], UNCHANGED <<visible, durable, folder, task>>
      PROVE  FolderInv'
  BY <1>1, <1>2
<1>3. ASSUME NEW p \in Processes, Start(p) PROVE FolderInv'
  BY <1>1, <1>3 DEF Start
<1>4. ASSUME NEW p \in Processes, Acquire(p) \/ Try(p) \/ Refuse(p) \/ Interrupt(p) \/
   Record(p) \/ RecordFails(p) \/ Load(p) \/ SaveFails(p) \/ CreateArtifact(p) \/
   NoIdIsFree(p) \/ BuildImage(p) \/ NothingToRemove(p) \/ List(p) \/ Read(p) \/
   ReadFails(p) \/ Resolve(p) \/ AcquireSecond(p) \/ Prepare(p) \/ SpawnFails(p) \/
   Reply(p) \/ FinishReply(p) \/ ReplyFails(p) \/ Collect(p) \/ Kill(p)
      PROVE  FolderInv'
  <2>1. UNCHANGED <<visible, durable, folder, task>>
    BY <1>4 DEF Acquire, Try, Refuse, End, Interrupt, Record, RecordFails, Load, SaveFails,
       DropTemp, CreateArtifact, NoIdIsFree, BuildImage, NothingToRemove, List, Read,
       ReadFails, Resolve, AcquireSecond, Prepare, SpawnFails, Reply, FinishReply,
       ReplyFails, Collect, Kill
  <2>2. \E label \in Labels \ {"sync", "persist"} : pc' = [pc EXCEPT ![p] = label]
    BY <1>4 DEF Acquire, Try, Refuse, End, Interrupt, Record, RecordFails, Load, SaveFails,
       CreateArtifact, NoIdIsFree, BuildImage, NothingToRemove, List, Read,
       ReadFails, Resolve, AcquireSecond, Prepare, SpawnFails, Reply, FinishReply,
       ReplyFails, Collect, Kill
  <2> QED
    BY <1>2, <2>1, <2>2
<1>5. ASSUME NEW p \in Processes, Wait(p) \/ Visit(p) PROVE FolderInv'
  <2>1. /\ UNCHANGED <<visible, durable, folder, task>>
        /\ UNCHANGED pc \/ pc' = [pc EXCEPT ![p] = "read"]
    BY <1>5 DEF Wait, Visit
  <2> QED
    BY <1>1, <1>2, <2>1
<1>6. ASSUME NEW p \in Processes, Write(p) PROVE FolderInv'
  <2>1. UNCHANGED <<visible, durable, task>> /\ pc' = [pc EXCEPT ![p] = "sync"]
    BY <1>6 DEF Write, WriteTemp
  <2>2. \A t \in Tools : folder'[t] = IF t = Target(p) /\ folder[t] = "absent" THEN "new" ELSE folder[t]
    BY <1>6 DEF Write, WriteTemp, EnsureDirectory
  <2>3. task[p].job = "update" => folder'[task[p].tool] # "absent"
    BY <1>6, <2>2 DEF Write, Target
  <2>4. \A t \in Tools : folder'[t] = "absent" => folder[t] = "absent"
    BY <2>2
  <2>5. \A q \in Processes : pc'[q] \in {"sync", "persist"} =>
          task[q].tool \in Tools /\ (q = p \/ pc[q] \in {"sync", "persist"})
    BY <1>6, <2>1 DEF Write
  <2> QED
    BY <2>1, <2>3, <2>4, <2>5
<1>7. ASSUME NEW p \in Processes, Sync(p) PROVE FolderInv'
  BY <1>7 DEF Sync, SyncTemp
<1>8. ASSUME NEW p \in Processes, Persist(p) PROVE FolderInv'
  <2>1. /\ visible' = [visible EXCEPT ![Target(p)] = temp[p]] /\ pc[p] = "persist"
        /\ UNCHANGED <<durable, folder, task>> /\ pc' = [pc EXCEPT ![p] = "directory"]
    BY <1>8 DEF Persist, PersistTemp
  <2>2. \A t \in Tools : folder[t] = "absent" => visible'[t] = visible[t]
    BY <2>1, CommandsAssumption DEF Target
  <2> QED
    BY <2>1, <2>2
<1>9. ASSUME NEW p \in Processes, FinishSave(p) PROVE FolderInv'
  <2>1. /\ durable' = [durable EXCEPT ![Target(p)] = visible[Target(p)]]
        /\ UNCHANGED <<visible, folder, task>>
        /\ pc' = [pc EXCEPT ![p] = "reply"] \/ pc' = [pc EXCEPT ![p] = "done"]
    BY <1>9 DEF FinishSave, SyncDirectory, End
  <2>2. \A t \in Tools : durable'[t] \in {durable[t], visible[t]}
    BY <2>1
  <2>3. \A q \in Processes : pc'[q] \in {"sync", "persist"} => pc[q] = pc'[q]
    BY <2>1
  <2> QED
    BY <2>1, <2>2, <2>3
<1>10. ASSUME NEW p \in Processes, RemoveArtifact(p) \/ Unlink(p) PROVE FolderInv'
  <2>1. \A t \in Tools : visible'[t] = visible[t] /\ durable'[t] = durable[t]
    BY <1>10, CommandsAssumption DEF RemoveArtifact, Unlink
  <2>2. /\ UNCHANGED <<folder, task>>
        /\ pc' = [pc EXCEPT ![p] = "unlink"] \/ pc' = [pc EXCEPT ![p] = "done"]
    BY <1>10 DEF RemoveArtifact, Unlink, End
  <2> QED
    BY <2>1, <2>2
<1>11. ASSUME NEW p \in Processes, Spawn(p) PROVE FolderInv'
  <2>1. UNCHANGED <<visible, durable, folder>>
    BY <1>11 DEF Spawn
  <2>2. \E c \in Children : \E t \in Calls(c) : /\ pc' = [pc EXCEPT ![p] = "wait", ![c] = "acquire"]
                                              /\ task' = [task EXCEPT ![c] = t]
    BY <1>11 DEF Spawn
  <2> QED
    BY <1>1, <2>1, <2>2, CommandsAssumption
<1>12. ASSUME PowerLoss PROVE FolderInv'
  <2>1. PICK lost \in SUBSET {f \in DOMAIN visible : visible[f] # durable[f]},
             gone \in SUBSET ((dirs \ firm) \cup {t \in Tools : folder[t] = "new"}) :
               LosePower(lost, gone)
    BY <1>12 DEF PowerLoss
  <2>2. \A q \in Processes : pc'[q] \notin {"sync", "persist"}
    BY <1>12 DEF PowerLoss, Running
  <2>3. \A t \in Tools : folder'[t] = "absent" => t \in gone \/ folder[t] = "absent"
    BY <2>1 DEF LosePower
  <2>4. \A t \in Tools :
          /\ durable'[t] = visible'[t]
          /\ t \in gone => visible'[t].content = Absent
          /\ t \notin gone => visible'[t] \in {visible[t], durable[t]}
    BY <2>1, FileTypes DEF LosePower
  <2>5. ASSUME NEW t \in Tools, folder'[t] = "absent"
        PROVE  visible'[t].content = Absent /\ durable'[t].content = Absent
    <3>1. folder[t] = "absent" => visible[t].content = Absent /\ durable[t].content = Absent
      OBVIOUS
    <3>2. t \notin gone => folder[t] = "absent"
      BY <2>3, <2>5
    <3> HIDE DEF BaseInv, TypeInv, ControlType, DataType, RoleInv, FolderInv
    <3> QED
      BY <2>4, <3>1, <3>2
  <2> QED
    BY <2>2, <2>5
<1>13. CASE UNCHANGED vars
  BY <1>13
<1> HIDE DEF Goto, lock, files, artifacts, memory, listing, answers, history, vars,
   BaseInv, TypeInv, ControlType, DataType, RoleInv, FolderInv, Labels, Ends, Modes,
   Displays, JobNames, Writing
<1> QED
  BY <1>3, <1>4, <1>5, <1>6, <1>7, <1>8, <1>9, <1>10, <1>11, <1>12, <1>13 DEF Next, Step


LEMMA InitBase == Init => BaseInv
<1> SUFFICES ASSUME Init PROVE BaseInv
  OBVIOUS
<1> USE CommandsAssumption, InvocationLockAssumption DEF Init, Labels, Ends, Modes, Displays, Writing
<1>1. \A id \in dirs : \E m \in Stored : m.id = id
  OBVIOUS
<1>2. \A id \in dirs : /\ (CHOOSE m \in Stored : m.id = id) \in Stored
                       /\ (CHOOSE m \in Stored : m.id = id).id = id
  BY <1>1
<1>3. \A f \in Tools \cup Ids : visible[f] = NoFile \/ (f \in dirs /\ visible[f].content \in Stored /\ visible[f].content.id = f /\ visible[f] \in Entries)
  BY <1>2 DEF Entries, Contents, Descriptions
<1>4. ControlType
  BY DEF ControlType
<1>5. DataType
  <2>1. visible \in [Tools \cup Ids -> Entries]
    <3>1. \A f \in Tools \cup Ids : visible[f] \in Entries
      BY <1>3, FileTypes
    <3> QED
      BY <3>1
  <2>2. durable = visible /\ temp \in [Processes -> TempFile] /\ text \in [Processes -> Contents]
    BY FileTypes, ContentTypes
  <2> QED
    BY <2>1, <2>2 DEF DataType
<1>6. RoleInv /\ ParentInv /\ LockInv
  BY DEF RoleInv, ParentInv, LockInv
<1>7. FolderInv
  BY <1>3, FileTypes DEF FolderInv
<1>8. FileInv
  <2> SUFFICES \A id \in Ids : \A m \in {visible[id].content, durable[id].content} \ {Absent} :
                 m \in Descriptions /\ m.id = id
    BY <1>3, FileTypes DEF FileInv
  <2> QED
    BY <1>3, FileTypes DEF Descriptions
<1> QED
  BY <1>4, <1>5, <1>6, <1>7, <1>8 DEF BaseInv, TypeInv

LEMMA BaseStep == BaseInv /\ [Next]_vars => BaseInv'
BY ControlStep, DataStep, RoleStep, ParentStep, LockStep, FileStep, FolderStep DEF BaseInv, TypeInv


(* Each step does to the stores of the tools what DurableCell allows.       *)
LEMMA CellStep ==
  ASSUME BaseInv, [Next]_vars
  PROVE  [Cell!Next]_<<Shown, Kept, New>>
<1> USE DEF Goto, lock, files, artifacts, memory, listing, answers, history, vars,
   BaseInv, TypeInv, ControlType, DataType, RoleInv, FileInv, FolderInv, Labels, Ends, Modes,
   Displays, JobNames, Writing
<1>1. ASSUME NEW p \in Processes, Start(p) \/ Acquire(p) \/ Try(p) \/ Refuse(p) \/
   Wait(p) \/ Interrupt(p) \/ Record(p) \/ RecordFails(p) \/ Load(p) \/
   Sync(p) \/ SaveFails(p) \/ CreateArtifact(p) \/ NoIdIsFree(p) \/ BuildImage(p) \/
   NothingToRemove(p) \/ List(p) \/ Visit(p) \/ Read(p) \/ ReadFails(p) \/ Resolve(p) \/
   AcquireSecond(p) \/ Prepare(p) \/ Spawn(p) \/ SpawnFails(p) \/ Reply(p) \/
   FinishReply(p) \/ ReplyFails(p) \/ Collect(p) \/ Kill(p)
      PROVE  [Cell!Next]_<<Shown, Kept, New>>
  <2>1. UNCHANGED <<visible, durable, folder>>
    BY <1>1 DEF Start, Acquire, Remember, Try, TryLock, Free, Refuse, End, Unlock, Wait,
       Show, Interrupt, Clear, Record, WriteMetadata, RecordFails, EmptyMetadata, Trouble,
       Load, LoadOrDefault, Content, Sync, SyncTemp, SaveFails, DropTemp,
       NoFile, CreateArtifact, Allocate, NoIdIsFree, BuildImage, SaveImage,
       NothingToRemove, List, Visit, Described, Read, ReadFails, Resolve, AcquireSecond,
       Prepare, Spawn, ConfigureChild, SpawnFails, Reply, FinishReply, ReplyFails, Collect, Kill
  <2> QED
    BY <2>1 DEF Shown, Kept, New
<1>2. ASSUME NEW p \in Processes, Persist(p) PROVE [Cell!Next]_<<Shown, Kept, New>>
  <2>1. /\ visible' = [visible EXCEPT ![Target(p)] = temp[p]]
        /\ UNCHANGED <<durable, folder>>
    BY <1>2 DEF Persist, PersistTemp
  <2>2. CASE task[p].job = "update"
    <3>1. Target(p) \in Tools /\ temp[p].content \in {Absent} \cup Settings
      BY <1>2, <2>2 DEF Persist, Target
    <3>2. Shown' = [Shown EXCEPT ![Target(p)] = temp[p].content]
      BY <2>1, <3>1 DEF Shown
    <3>3. UNCHANGED <<Kept, New>>
      BY <2>1 DEF Kept, New
    <3> QED
      BY <3>1, <3>2, <3>3 DEF Cell!Next, Cell!Write, Settings
  <2>3. CASE task[p].job # "update"
    <3>1. Target(p) \in Ids
      BY <1>2, <2>3 DEF Persist, Target
    <3>2. UNCHANGED <<Shown, Kept, New>>
      BY <2>1, <3>1, CommandsAssumption DEF Shown, Kept, New
    <3> QED
      BY <3>2
  <2> QED
    BY <2>2, <2>3
<1>3. ASSUME NEW p \in Processes, FinishSave(p) PROVE [Cell!Next]_<<Shown, Kept, New>>
  <2>1. /\ durable' = [durable EXCEPT ![Target(p)] = visible[Target(p)]]
        /\ UNCHANGED <<visible, folder>>
    BY <1>3 DEF FinishSave, SyncDirectory
  <2>2. CASE task[p].job = "update"
    <3>1. Target(p) \in Tools
      BY <1>3, <2>2 DEF FinishSave, Target
    <3>2. Kept' = [Kept EXCEPT ![Target(p)] = Shown[Target(p)]]
      BY <2>1, <3>1 DEF Kept, Shown
    <3>3. UNCHANGED <<Shown, New>>
      BY <2>1 DEF Shown, New
    <3> QED
      BY <3>1, <3>2, <3>3 DEF Cell!Next, Cell!Secure
  <2>3. CASE task[p].job # "update"
    <3>1. Target(p) \in Ids
      BY <1>3, <2>3 DEF FinishSave, Target
    <3>2. UNCHANGED <<Shown, Kept, New>>
      BY <2>1, <3>1, CommandsAssumption DEF Shown, Kept, New
    <3> QED
      BY <3>2
  <2> QED
    BY <2>2, <2>3
<1>4. ASSUME NEW p \in Processes, RemoveArtifact(p) PROVE [Cell!Next]_<<Shown, Kept, New>>
  <2>1. PICK id \in Ids : UNCHANGED visible \/ visible' = [visible EXCEPT ![id] = NoFile]
    BY <1>4 DEF RemoveArtifact
  <2>2. UNCHANGED <<durable, folder>>
    BY <1>4 DEF RemoveArtifact
  <2>3. \A t \in Tools : visible'[t] = visible[t]
    BY <2>1, CommandsAssumption
  <2> QED
    BY <2>2, <2>3 DEF Shown, Kept, New
<1>5. ASSUME NEW p \in Processes, Unlink(p) PROVE [Cell!Next]_<<Shown, Kept, New>>
  <2>1. at[p] \in Ids
    BY <1>5 DEF Unlink
  <2> QED
    BY <1>5, <2>1, CommandsAssumption DEF Unlink, Shown, Kept, New
<1>6. ASSUME PowerLoss PROVE [Cell!Next]_<<Shown, Kept, New>>
  <2>1. PICK lost \in SUBSET {f \in DOMAIN visible : visible[f] # durable[f]},
             gone \in SUBSET ((dirs \ firm) \cup {t \in Tools : folder[t] = "new"}) : LosePower(lost, gone)
    BY <1>6 DEF PowerLoss
  <2>2. \A t \in Tools : visible'[t] = IF t \in gone THEN NoFile
                                      ELSE IF t \in lost THEN durable[t] ELSE visible[t]
    BY <2>1, FileTypes, CommandsAssumption DEF LosePower
  <2>3. Shown' = [t \in Tools |-> IF t \in gone \intersect Tools THEN Absent
                                 ELSE IF t \in lost \intersect Tools THEN Kept[t] ELSE Shown[t]]
    BY <2>2, FileTypes DEF Shown, Kept
  <2>4. Kept' = Shown'
    BY <2>1 DEF LosePower, Shown, Kept
  <2>5. New' = {}
    BY <2>1 DEF LosePower, New
  <2>6. Cell!Forget(lost \intersect Tools, gone \intersect Tools)
    BY <2>3, <2>4, <2>5 DEF Cell!Forget
  <2>7. lost \intersect Tools \in SUBSET Tools /\ gone \intersect Tools \in SUBSET New
    BY CommandsAssumption DEF New
  <2> QED
    BY <2>6, <2>7 DEF Cell!Next
<1>7. ASSUME NEW p \in Processes, Write(p) PROVE [Cell!Next]_<<Shown, Kept, New>>
  <2>1. UNCHANGED <<visible, durable>> /\ EnsureDirectory(Target(p))
    BY <1>7 DEF Write, WriteTemp
  <2>2. UNCHANGED <<Shown, Kept>>
    BY <2>1 DEF Shown, Kept
  <2>3. CASE Target(p) \in Tools /\ folder[Target(p)] = "absent"
    <3>1. Shown[Target(p)] = Absent /\ Kept[Target(p)] = Absent
      BY <2>3 DEF Shown, Kept
    <3>2. New' = New \cup {Target(p)}
      BY <2>1, <2>3 DEF EnsureDirectory, New
    <3> QED
      BY <2>2, <2>3, <3>1, <3>2 DEF Cell!Next, Cell!Create
  <2>4. CASE ~(Target(p) \in Tools /\ folder[Target(p)] = "absent")
    <3>1. UNCHANGED New
      BY <2>1, <2>4 DEF EnsureDirectory, New
    <3> QED
      BY <2>2, <3>1
  <2> QED
    BY <2>3, <2>4
<1>8. CASE UNCHANGED vars
  BY <1>8 DEF Shown, Kept, New
<1> HIDE DEF Goto, lock, files, artifacts, memory, listing, answers, history, vars,
   BaseInv, TypeInv, ControlType, DataType, RoleInv, FileInv, FolderInv, Labels, Ends, Modes,
   Displays, JobNames, Writing
<1> QED
  BY <1>1, <1>2, <1>3, <1>4, <1>5, <1>6, <1>7, <1>8 DEF Next, Step


(* A reader of settings finds what somebody wrote whole, and a power loss  *)
(* takes back only what nobody was told to be safe, or a whole store whose *)
(* directory is new, for any number of tools, processes and failures:      *)
(* Commands implements DurableCell.                                        *)
THEOREM StoresAreAtomic == Spec => StoreIsAtomic
<1>1. Init => Cell!Init
  <2> SUFFICES ASSUME Init PROVE Cell!Init
    OBVIOUS
  <2>1. \A t \in Tools : visible[t].content \in {Absent} \cup SUBSET Processes
    BY InitBase DEF BaseInv, FileInv, Settings
  <2>2. durable = visible /\ \A t \in Tools : folder[t] # "new"
    BY DEF Init
  <2> QED
    BY <2>1, <2>2 DEF Cell!Init, Shown, Kept, New
<1>2. BaseInv /\ [Next]_vars => [Cell!Next]_<<Shown, Kept, New>>
  BY CellStep
<1> QED
  BY <1>1, <1>2, InitBase, BaseStep, PTL DEF Spec, StoreIsAtomic, Cell!Spec


--------------------------------------------------------------------------------
(* Updates of settings *)

(* A step that saves nothing, and covers nobody, leaves what was saved.    *)
LEMMA UpdatesFrame ==
  ASSUME TypeInv, RoleInv, UpdateInv, UNCHANGED <<text, saved, taken, loose>>,
         \A t \in Tools : visible'[t] = visible[t] /\ durable'[t] = durable[t],
         \A q \in saved : pc'[q] \in {"reply", "replying", "answered"} \cup Ends /\ task'[q] = task[q],
         \A q \in Processes : pc'[q] \in Writing \cup {"directory"} =>
           pc'[q] = pc[q] /\ task'[q] = task[q] /\ (Uncovered(q) => Uncovered(q)')
  PROVE  UpdateInv'
<1>1. \A t \in Tools : Seen(t)' = Seen(t) /\ Secured(t)' = Secured(t)
  BY DEF Seen, Secured, LoadOrDefault, Content
<1>2. ASSUME NEW q \in saved
      PROVE  /\ pc'[q] \in {"reply", "replying", "answered"} \cup Ends
             /\ task'[q].tool \in Tools
  BY DEF UpdateInv
<1>3. ASSUME ~loose, NEW q \in Processes
      PROVE  /\ pc'[q] \in Writing /\ task'[q].job = "update" /\ ~Uncovered(q)' =>
                  Seen(task[q].tool)' \subseteq text[q]
             /\ pc'[q] = "directory" /\ task'[q].job = "update" => q \in Seen(task[q].tool)'
  <2>1. CASE pc'[q] \in Writing \cup {"directory"}
    <3>1. task[q].tool \in Tools
      BY <2>1 DEF RoleInv, Writing
    <3> QED
      BY <1>1, <1>3, <2>1, <3>1 DEF UpdateInv
  <2>2. CASE pc'[q] \notin Writing \cup {"directory"}
    BY <2>2
  <2> QED
    BY <2>1, <2>2
<1>4. ASSUME ~loose, NEW q \in saved \ taken, task[q].job = "update"
      PROVE  q \in Seen(task[q].tool)' \intersect Secured(task[q].tool)'
  BY <1>1, <1>4 DEF UpdateInv
<1> QED
  BY <1>2, <1>3, <1>4 DEF UpdateInv


(* Two processes do not update the same settings, unless one has lost its  *)
(* lock.                                                                   *)
LEMMA OneUpdater ==
  ASSUME ControlType, RoleInv, ParentInv, LockInv, NEW p \in Processes, NEW q \in Processes,
         pc[p] \in Writing, task[p].job = "update", ~Uncovered(p),
         pc[q] \in Writing, task[q].job = "update", ~Uncovered(q),
         task[p].tool = task[q].tool
  PROVE  p = q
<1> DEFINE t == task[p].tool
<1>1. t \in Tools
  BY DEF RoleInv, Writing
<1>2. ASSUME NEW r \in {p, q}
      PROVE  holder[t] = r \/ (holder[t] = parent[r] /\ parent[r] # Nobody)
  <2>1. CASE Passes(r)
    <3>1. holder[t] = parent[r] /\ env[r] = t
      BY <1>2, <2>1 DEF Uncovered, Passes, Bypasses
    <3> QED
      BY <1>1, <1>2, <3>1, InvocationLockAssumption DEF ParentInv
  <2>2. CASE ~Passes(r)
    BY <1>2, <2>2 DEF LockInv
  <2> QED
    BY <2>1, <2>2
<1>3. \A r \in {p, q} : parent[r] # Nobody => parent[r] \notin {p, q}
  BY DEF ParentInv, Writing, Ends
<1>4. parent[p] = parent[q] /\ parent[p] # Nobody => p = q
  BY DEF ParentInv
<1> QED
  BY <1>2, <1>3, <1>4


(* What was saved stays.                                                   *)
LEMMA UpdateStep ==
  ASSUME BaseInv, UpdateInv, [Next]_vars
  PROVE  UpdateInv'
<1> USE DEF Goto, lock, files, artifacts, memory, listing, answers, history, vars,
   BaseInv, TypeInv, ControlType, RoleInv, ParentInv, LockInv, UpdateInv, Passes,
   Uncovered, Bypasses, Running, Seen, Secured, LoadOrDefault, Content, Labels, Ends,
   Modes, Displays, JobNames, Writing
<1>1. ASSUME NEW p \in Processes, Start(p) PROVE UpdateInv'
  BY <1>1, CommandsAssumption, InvocationLockAssumption DEF Start
<1>2. ASSUME NEW p \in Processes, Acquire(p) PROVE UpdateInv'
  <2>1. /\ UNCHANGED <<text, saved, taken, loose, visible, durable, task, env, parent>>
        /\ pc[p] \notin {"idle", "reply", "replying", "answered"} \cup Ends
        /\ UNCHANGED holder
    BY <1>2 DEF Acquire
  <2>2. PICK label \in {"try", "work"} : pc' = [pc EXCEPT ![p] = label]
    BY <1>2 DEF Acquire, Remember
  <2>5. \A q \in saved : q \in Processes /\ pc[q] \in {"reply", "replying", "answered"} \cup Ends
    OBVIOUS
  <2>6. pc[p] \notin {"wait"} \cup Ends => \A q \in Processes : parent[q] # p
    BY InvocationLockAssumption
  <2>7. UNCHANGED <<text, saved, taken, loose>> /\ \A t \in Tools : visible'[t] = visible[t] /\ durable'[t] = durable[t]
    BY <2>1, <2>2
  <2>8. \A q \in saved : pc'[q] \in {"reply", "replying", "answered"} \cup Ends /\ task'[q] = task[q]
    BY <2>1, <2>2, <2>5
  <2>9. \A q \in Processes : pc'[q] \in Writing \cup {"directory"} =>
          pc'[q] = pc[q] /\ task'[q] = task[q] /\ (Uncovered(q) => Uncovered(q)')
    BY <2>1, <2>2, <2>6, InvocationLockAssumption
  <2> HIDE DEF UpdateInv, Uncovered, TypeInv, RoleInv, ParentInv, LockInv, ControlType, Writing, Ends
  <2> QED
    BY <2>7, <2>8, <2>9, UpdatesFrame
<1>3. ASSUME NEW p \in Processes, Try(p) PROVE UpdateInv'
  <2>1. /\ UNCHANGED <<text, saved, taken, loose, visible, durable, task, env, parent>>
        /\ pc[p] \notin {"idle", "reply", "replying", "answered"} \cup Ends
        /\ pc[p] = "try" /\ holder' = [holder EXCEPT ![want[p]] = p]
    BY <1>3 DEF Try, TryLock
  <2>2. PICK label \in {"record"} : pc' = [pc EXCEPT ![p] = label]
    BY <1>3 DEF Try
  <2>5. \A q \in saved : q \in Processes /\ pc[q] \in {"reply", "replying", "answered"} \cup Ends
    OBVIOUS
  <2>6. pc[p] \notin {"wait"} \cup Ends => \A q \in Processes : parent[q] # p
    BY InvocationLockAssumption
  <2>7. UNCHANGED <<text, saved, taken, loose>> /\ \A t \in Tools : visible'[t] = visible[t] /\ durable'[t] = durable[t]
    BY <2>1, <2>2
  <2>8. \A q \in saved : pc'[q] \in {"reply", "replying", "answered"} \cup Ends /\ task'[q] = task[q]
    BY <2>1, <2>2, <2>5
  <2>9. \A q \in Processes : pc'[q] \in Writing \cup {"directory"} =>
          pc'[q] = pc[q] /\ task'[q] = task[q] /\ (Uncovered(q) => Uncovered(q)')
    BY <2>1, <2>2, <2>6, InvocationLockAssumption
  <2> HIDE DEF UpdateInv, Uncovered, TypeInv, RoleInv, ParentInv, LockInv, ControlType, Writing, Ends
  <2> QED
    BY <2>7, <2>8, <2>9, UpdatesFrame
<1>4. ASSUME NEW p \in Processes, Refuse(p) PROVE UpdateInv'
  <2>1. /\ UNCHANGED <<text, saved, taken, loose, visible, durable, task, env, parent>>
        /\ pc[p] \notin {"idle", "reply", "replying", "answered"} \cup Ends
        /\ UNCHANGED holder \/ Unlock(p)
    BY <1>4 DEF Refuse, End
  <2>2. PICK label \in {"refused", "spawn"} : pc' = [pc EXCEPT ![p] = label]
    BY <1>4 DEF Refuse, End
  <2>5. \A q \in saved : q \in Processes /\ pc[q] \in {"reply", "replying", "answered"} \cup Ends
    OBVIOUS
  <2>6. pc[p] \notin {"wait"} \cup Ends => \A q \in Processes : parent[q] # p
    BY InvocationLockAssumption
  <2>7. UNCHANGED <<text, saved, taken, loose>> /\ \A t \in Tools : visible'[t] = visible[t] /\ durable'[t] = durable[t]
    BY <2>1, <2>2
  <2>8. \A q \in saved : pc'[q] \in {"reply", "replying", "answered"} \cup Ends /\ task'[q] = task[q]
    BY <2>1, <2>2, <2>5
  <2>9. \A q \in Processes : pc'[q] \in Writing \cup {"directory"} =>
          pc'[q] = pc[q] /\ task'[q] = task[q] /\ (Uncovered(q) => Uncovered(q)')
    BY <2>1, <2>2, <2>6, InvocationLockAssumption DEF Unlock
  <2> HIDE DEF UpdateInv, Uncovered, TypeInv, RoleInv, ParentInv, LockInv, ControlType, Writing, Ends
  <2> QED
    BY <2>7, <2>8, <2>9, UpdatesFrame
<1>5. ASSUME NEW p \in Processes, Wait(p) PROVE UpdateInv'
  BY <1>5, CommandsAssumption, InvocationLockAssumption DEF Wait, Show, Free
<1>6. ASSUME NEW p \in Processes, Interrupt(p) PROVE UpdateInv'
  BY <1>6, CommandsAssumption, InvocationLockAssumption DEF Interrupt, Clear, End,
     Unlock
<1>7. ASSUME NEW p \in Processes, Record(p) PROVE UpdateInv'
  BY <1>7, CommandsAssumption, InvocationLockAssumption DEF Record, WriteMetadata,
     Clear
<1>8. ASSUME NEW p \in Processes, RecordFails(p) PROVE UpdateInv'
  BY <1>8, CommandsAssumption, InvocationLockAssumption DEF RecordFails,
     EmptyMetadata, Clear, Unlock, Trouble
<1>9. ASSUME NEW p \in Processes, Load(p) PROVE UpdateInv'
  <2>1. /\ text' = [text EXCEPT ![p] = Seen(task[p].tool) \cup {p}]
        /\ loose' = (loose \/ Uncovered(p))
        /\ pc[p] = "work" /\ pc' = [pc EXCEPT ![p] = "write"]
        /\ UNCHANGED <<visible, durable, task, env, parent, holder, saved, taken>>
    BY <1>9 DEF Load
  <2>2. \A t \in Tools : Seen(t)' = Seen(t) /\ Secured(t)' = Secured(t)
    BY <2>1
  <2>3. \A q \in Processes : Uncovered(q)' = Uncovered(q)
    BY <2>1
  <2>4. \A q \in saved : q \in Processes /\ pc'[q] \in {"reply", "replying", "answered"} \cup Ends /\ task[q].tool \in Tools
    BY <2>1
  <2>5. \A q \in Processes : pc'[q] \in Writing \cup {"directory"} => task[q].tool \in Tools
    BY <2>1
  <2>6. \A q \in Processes \ {p} : pc'[q] = pc[q] /\ text'[q] = text[q]
    BY <2>1, <1>9 DEF DataType
  <2>7. pc'[p] = "write" /\ text'[p] = Seen(task[p].tool) \cup {p}
    BY SMTT(30), <2>1, <1>9 DEF DataType
  <2> HIDE DEF Uncovered, TypeInv, RoleInv, ParentInv, LockInv, ControlType, Seen, Secured
  <2>8. ASSUME ~loose', NEW q \in Processes
        PROVE  /\ pc'[q] \in Writing /\ task[q].job = "update" /\ ~Uncovered(q)' =>
                    Seen(task[q].tool)' \subseteq text'[q]
               /\ pc'[q] = "directory" /\ task[q].job = "update" => q \in Seen(task[q].tool)'
    <3>1. CASE q = p
      BY <2>1, <2>2, <2>5, <2>7, <2>8, <3>1
    <3>2. CASE q # p
      BY <2>1, <2>2, <2>3, <2>5, <2>6, <2>8, <3>2
    <3> QED
      BY <3>1, <3>2
  <2>9. \A q \in saved \ taken : task[q].job = "update" /\ ~loose' =>
          q \in Seen(task[q].tool)' \intersect Secured(task[q].tool)'
    BY <2>1, <2>2, <2>4
  <2> QED
    BY <2>1, <2>4, <2>8, <2>9
<1>10. ASSUME NEW p \in Processes, Write(p) PROVE UpdateInv'
  BY <1>10, CommandsAssumption, InvocationLockAssumption DEF Write, WriteTemp
<1>11. ASSUME NEW p \in Processes, Sync(p) PROVE UpdateInv'
  BY <1>11, CommandsAssumption, InvocationLockAssumption DEF Sync, SyncTemp
<1>12. ASSUME NEW p \in Processes, Persist(p) PROVE UpdateInv'
  <2>1. /\ visible' = [visible EXCEPT ![Target(p)] = temp[p]]
        /\ loose' = (loose \/ (task[p].job = "update" /\ Uncovered(p)))
        /\ pc[p] = "persist" /\ pc' = [pc EXCEPT ![p] = "directory"]
        /\ UNCHANGED <<text, durable, task, env, parent, holder, saved, taken>>
    BY <1>12 DEF Persist, PersistTemp
  <2>2. CASE task[p].job # "update"
    <3>1. Target(p) \in Ids /\ UNCHANGED loose
      BY <2>1, <2>2 DEF Target
    <3>2. \A t \in Tools : visible'[t] = visible[t] /\ durable'[t] = durable[t]
      BY SMTT(30), <2>1, <3>1, CommandsAssumption DEF DataType
    <3>3. \A t \in Tools : Seen(t)' = Seen(t) /\ Secured(t)' = Secured(t)
      BY <3>2
    <3>4. \A q \in Processes : Uncovered(q)' = Uncovered(q)
      BY <2>1
    <3>5. \A q \in saved : q \in Processes /\ pc'[q] \in {"reply", "replying", "answered"} \cup Ends /\ task[q].tool \in Tools
      BY <2>1
    <3>6. \A q \in Processes : pc'[q] \in Writing \cup {"directory"} => task[q].tool \in Tools
      BY <2>1
    <3>7. pc'[p] = "directory" /\ \A q \in Processes \ {p} : pc'[q] = pc[q]
      BY <2>1
    <3> HIDE DEF Uncovered, TypeInv, RoleInv, ParentInv, LockInv, ControlType, Seen, Secured
    <3> QED
      BY <2>1, <2>2, <3>1, <3>3, <3>4, <3>5, <3>6, <3>7
  <2>3. CASE task[p].job = "update"
    <3> DEFINE t == task[p].tool
    <3> SUFFICES ASSUME ~loose, ~Uncovered(p) PROVE UpdateInv'
      <4>1. CASE loose' = FALSE
        BY <2>1, <2>3, <4>1
      <4>2. CASE loose'
        BY <2>1, <4>2
      <4> QED
        BY <2>1, <4>1, <4>2
    <3>1. t \in Tools /\ Target(p) = t
      BY <2>1, <2>3 DEF Target
    <3>2. Seen(t) \subseteq text[p] /\ p \in text[p]
      BY <2>1, <2>3 DEF FileInv
    <3>3. Seen(t)' = text[p]
      BY <2>1, <2>3, <3>1, CommandsAssumption DEF DataType, FileInv, Settings
    <3>4. \A s \in Tools : (s # t => Seen(s)' = Seen(s)) /\ Secured(s)' = Secured(s)
      BY <2>1, <3>1 DEF DataType
    <3>5. \A q \in Processes : Uncovered(q)' = Uncovered(q)
      BY <2>1
    <3>6. \A q \in saved : q \in Processes /\ pc'[q] \in {"reply", "replying", "answered"} \cup Ends /\ task[q].tool \in Tools
      BY <2>1
    <3>7. \A q \in Processes : pc'[q] \in Writing \cup {"directory"} => task[q].tool \in Tools
      BY <2>1
    <3>8. pc'[p] = "directory" /\ \A q \in Processes \ {p} : pc'[q] = pc[q]
      BY <2>1
    <3>9. ASSUME NEW q \in Processes, pc'[q] \in Writing, task[q].job = "update", ~Uncovered(q)
          PROVE  task[q].tool # t
      BY SMTT(30), <2>1, <2>3, <3>8, <3>9, OneUpdater
    <3> HIDE DEF Uncovered, TypeInv, RoleInv, ParentInv, LockInv, ControlType, Seen, Secured, t
    <3> QED
      BY <2>1, <2>3, <3>1, <3>2, <3>3, <3>4, <3>5, <3>6, <3>7, <3>8, <3>9 DEF t
  <2> QED
    BY <2>2, <2>3
<1>13. ASSUME NEW p \in Processes, FinishSave(p) PROVE UpdateInv'
  <2>1. /\ durable' = [durable EXCEPT ![Target(p)] = visible[Target(p)]]
        /\ saved' = saved \cup {p}
        /\ pc[p] = "directory"
        /\ UNCHANGED <<text, visible, task, env, parent, taken, loose>>
    BY <1>13 DEF FinishSave, SyncDirectory, End
  <2>2. /\ pc' = [pc EXCEPT ![p] = "reply"] \/ pc' = [pc EXCEPT ![p] = "done"]
        /\ UNCHANGED holder \/ Unlock(p)
    BY <1>13 DEF FinishSave, End
  <2>3. pc'[p] \in {"reply", "done"} /\ \A q \in Processes \ {p} : pc'[q] = pc[q]
    BY <2>2
  <2>4. \A q \in Processes : pc'[q] \in Writing => (Uncovered(q) => Uncovered(q)')
    BY <2>1, <2>2, <2>3, InvocationLockAssumption DEF Unlock
  <2>5. \A t \in Tools : Seen(t)' = Seen(t)
    BY <2>1
  <2>6. \A q \in saved : task[q].tool \in Tools /\ q \in Processes /\ pc'[q] \in {"reply", "replying", "answered"} \cup Ends
    BY <2>1, <2>3
  <2>7. \A t \in Tools : Secured(t)' \in {Secured(t), Seen(t)}
    BY <2>1 DEF DataType
  <2>8. task[p].tool \in Tools
    BY <2>1
  <2>9. task[p].job = "update" => Secured(task[p].tool)' = Seen(task[p].tool)
    BY <2>1, <2>8 DEF Target, DataType
  <2>10. \A q \in Processes : pc'[q] \in Writing \cup {"directory"} => task[q].tool \in Tools
    BY <2>1, <2>3
  <2> HIDE DEF Uncovered, TypeInv, RoleInv, ParentInv, LockInv, ControlType, Seen, Secured
  <2>11. ASSUME ~loose, NEW q \in saved' \ taken, task[q].job = "update"
         PROVE  q \in Seen(task[q].tool)' \intersect Secured(task[q].tool)'
    <3>1. CASE q \in saved
      BY <2>1, <2>5, <2>6, <2>7, <2>11, <3>1
    <3>2. CASE q = p
      BY <2>1, <2>5, <2>8, <2>9, <2>11, <3>2
    <3> QED
      BY <2>1, <2>11, <3>1, <3>2
  <2>12. \A q \in saved' : /\ pc'[q] \in {"reply", "replying", "answered"} \cup Ends
                           /\ task[q].tool \in Tools
    BY <2>1, <2>3, <2>6, <2>8
  <2>13. ASSUME ~loose, NEW q \in Processes
         PROVE  /\ pc'[q] \in Writing /\ task[q].job = "update" /\ ~Uncovered(q)' =>
                     Seen(task[q].tool)' \subseteq text[q]
                /\ pc'[q] = "directory" /\ task[q].job = "update" => q \in Seen(task[q].tool)'
    BY <2>1, <2>3, <2>4, <2>5, <2>10, <2>13
  <2> QED
    BY <2>1, <2>11, <2>12, <2>13
<1>14. ASSUME NEW p \in Processes, SaveFails(p) PROVE UpdateInv'
  BY SMTT(30), <1>14, CommandsAssumption, InvocationLockAssumption DEF SaveFails, DropTemp,
     NoFile, End, Unlock, Trouble
<1>15. ASSUME NEW p \in Processes, CreateArtifact(p) PROVE UpdateInv'
  BY <1>15, CommandsAssumption, InvocationLockAssumption DEF CreateArtifact, Allocate
<1>16. ASSUME NEW p \in Processes, NoIdIsFree(p) PROVE UpdateInv'
  BY <1>16, CommandsAssumption, InvocationLockAssumption DEF NoIdIsFree, End, Unlock
<1>17. ASSUME NEW p \in Processes, BuildImage(p) PROVE UpdateInv'
  BY <1>17, CommandsAssumption, InvocationLockAssumption DEF BuildImage, SaveImage
<1>18. ASSUME NEW p \in Processes, RemoveArtifact(p) PROVE UpdateInv'
  <2>1. PICK id \in Ids : UNCHANGED visible \/ visible' = [visible EXCEPT ![id] = NoFile]
    BY <1>18 DEF RemoveArtifact, DataType
  <2>2. /\ UNCHANGED <<text, saved, taken, loose, durable, task, env, parent, holder>>
        /\ pc[p] = "work" /\ pc' = [pc EXCEPT ![p] = "unlink"]
    BY <1>18 DEF RemoveArtifact
  <2>5. \A q \in saved : q \in Processes /\ pc[q] \in {"reply", "replying", "answered"} \cup Ends
    OBVIOUS
  <2>6. pc[p] \notin {"wait"} \cup Ends => \A q \in Processes : parent[q] # p
    BY InvocationLockAssumption
  <2>7. UNCHANGED <<text, saved, taken, loose>> /\ \A t \in Tools : visible'[t] = visible[t] /\ durable'[t] = durable[t]
    BY <2>1, <2>2, CommandsAssumption DEF DataType
  <2>8. \A q \in saved : pc'[q] \in {"reply", "replying", "answered"} \cup Ends /\ task'[q] = task[q]
    BY <2>1, <2>2, <2>5, CommandsAssumption
  <2>9. \A q \in Processes : pc'[q] \in Writing \cup {"directory"} =>
          pc'[q] = pc[q] /\ task'[q] = task[q] /\ (Uncovered(q) => Uncovered(q)')
    BY <2>1, <2>2, <2>6, CommandsAssumption, InvocationLockAssumption
  <2> HIDE DEF UpdateInv, Uncovered, TypeInv, RoleInv, ParentInv, LockInv, ControlType, Writing, Ends
  <2> QED
    BY <2>7, <2>8, <2>9, UpdatesFrame
<1>19. ASSUME NEW p \in Processes, NothingToRemove(p) PROVE UpdateInv'
  BY <1>19, CommandsAssumption, InvocationLockAssumption DEF NothingToRemove, End,
     Unlock
<1>20. ASSUME NEW p \in Processes, Unlink(p) PROVE UpdateInv'
  <2>1. /\ UNCHANGED <<text, saved, taken, loose, task, env, parent>>
        /\ pc[p] = "unlink" /\ at[p] \in Ids
        /\ visible' = [visible EXCEPT ![at[p]] = NoFile]
        /\ durable' = [durable EXCEPT ![at[p]] = NoFile]
    BY <1>20 DEF Unlink, End
  <2>3. Unlock(p)
    BY <1>20 DEF Unlink, End
  <2>4. \A t \in Tools : holder'[t] \in {holder[t], Nobody}
    BY <2>3 DEF Unlock
  <2>2. pc' = [pc EXCEPT ![p] = "done"]
    BY <1>20 DEF Unlink, End
  <2>5. \A q \in saved : q \in Processes /\ pc[q] \in {"reply", "replying", "answered"} \cup Ends
    OBVIOUS
  <2>7. UNCHANGED <<text, saved, taken, loose>> /\ \A t \in Tools : visible'[t] = visible[t] /\ durable'[t] = durable[t]
    BY <2>1, <2>2, CommandsAssumption DEF DataType
  <2>8. \A q \in saved : pc'[q] \in {"reply", "replying", "answered"} \cup Ends /\ task'[q] = task[q]
    BY <2>1, <2>2, <2>5
  <2>9. \A q \in Processes : pc'[q] \in Writing \cup {"directory"} =>
          pc'[q] = pc[q] /\ task'[q] = task[q] /\ (Uncovered(q) => Uncovered(q)')
    <3>1. \A q \in Processes \ {p} : pc'[q] = pc[q] /\ (env[q] # NoTool => parent[q] # Nobody)
      BY <2>2 DEF ParentInv
    <3>2. \A q \in Processes : pc[q] \in Writing \cup {"directory"} => task[q].tool \in Tools
      OBVIOUS
    <3>3. pc'[p] \notin Writing \cup {"directory"}
      BY <2>2
    <3> HIDE DEF UpdateInv, TypeInv, RoleInv, ParentInv, LockInv, ControlType, Writing, Ends
    <3> QED
      BY <2>1, <2>4, <3>1, <3>2, <3>3, InvocationLockAssumption
  <2> HIDE DEF UpdateInv, Uncovered, TypeInv, RoleInv, ParentInv, LockInv, ControlType, Writing, Ends
  <2> QED
    BY <2>7, <2>8, <2>9, UpdatesFrame
<1>21. ASSUME NEW p \in Processes, List(p) PROVE UpdateInv'
  BY <1>21, CommandsAssumption, InvocationLockAssumption DEF List
<1>22. ASSUME NEW p \in Processes, Visit(p) PROVE UpdateInv'
  <2>1. /\ UNCHANGED <<text, saved, taken, loose, visible, durable, task, env, parent>>
        /\ pc[p] \notin {"idle", "reply", "replying", "answered"} \cup Ends
        /\ UNCHANGED holder
    BY <1>22 DEF Visit
  <2>2. PICK label \in {"read", "visit"} : pc' = [pc EXCEPT ![p] = label]
    BY <1>22 DEF Visit
  <2>5. \A q \in saved : q \in Processes /\ pc[q] \in {"reply", "replying", "answered"} \cup Ends
    OBVIOUS
  <2>6. pc[p] \notin {"wait"} \cup Ends => \A q \in Processes : parent[q] # p
    BY InvocationLockAssumption
  <2>7. UNCHANGED <<text, saved, taken, loose>> /\ \A t \in Tools : visible'[t] = visible[t] /\ durable'[t] = durable[t]
    BY <2>1, <2>2
  <2>8. \A q \in saved : pc'[q] \in {"reply", "replying", "answered"} \cup Ends /\ task'[q] = task[q]
    BY <2>1, <2>2, <2>5
  <2>9. \A q \in Processes : pc'[q] \in Writing \cup {"directory"} =>
          pc'[q] = pc[q] /\ task'[q] = task[q] /\ (Uncovered(q) => Uncovered(q)')
    BY <2>1, <2>2, <2>6, InvocationLockAssumption
  <2> HIDE DEF UpdateInv, Uncovered, TypeInv, RoleInv, ParentInv, LockInv, ControlType, Writing, Ends
  <2> QED
    BY <2>7, <2>8, <2>9, UpdatesFrame
<1>23. ASSUME NEW p \in Processes, Read(p) PROVE UpdateInv'
  <2>1. /\ UNCHANGED <<text, saved, taken, loose, visible, durable, task, env, parent, holder>>
        /\ pc[p] = "read"
    BY <1>23 DEF Read
  <2>2. pc' = [pc EXCEPT ![p] = "visit"]
    BY <1>23 DEF Read
  <2>5. \A q \in saved : q \in Processes /\ pc[q] \in {"reply", "replying", "answered"} \cup Ends
    OBVIOUS
  <2>7. UNCHANGED <<text, saved, taken, loose>> /\ \A t \in Tools : visible'[t] = visible[t] /\ durable'[t] = durable[t]
    BY <2>1, <2>2, CommandsAssumption
  <2>8. \A q \in saved : pc'[q] \in {"reply", "replying", "answered"} \cup Ends /\ task'[q] = task[q]
    BY <2>1, <2>2, <2>5
  <2>9. \A q \in Processes : pc'[q] \in Writing \cup {"directory"} =>
          pc'[q] = pc[q] /\ task'[q] = task[q] /\ (Uncovered(q) => Uncovered(q)')
    <3>1. \A q \in Processes : Uncovered(q)' = Uncovered(q)
      BY <2>1
    <3> HIDE DEF Uncovered
    <3> QED
      BY <2>1, <2>2, <3>1
  <2> HIDE DEF UpdateInv, Uncovered, TypeInv, RoleInv, ParentInv, LockInv, ControlType, Writing, Ends
  <2> QED
    BY <2>7, <2>8, <2>9, UpdatesFrame
<1>24. ASSUME NEW p \in Processes, ReadFails(p) PROVE UpdateInv'
  BY <1>24, CommandsAssumption, InvocationLockAssumption DEF ReadFails, Content, End,
     Unlock
<1>25. ASSUME NEW p \in Processes, Resolve(p) PROVE UpdateInv'
  BY <1>25, CommandsAssumption, InvocationLockAssumption DEF Resolve, End, Unlock
<1>26. ASSUME NEW p \in Processes, AcquireSecond(p) PROVE UpdateInv'
  BY <1>26, CommandsAssumption, InvocationLockAssumption DEF AcquireSecond, Remember
<1>27. ASSUME NEW p \in Processes, Prepare(p) PROVE UpdateInv'
  BY <1>27, CommandsAssumption, InvocationLockAssumption DEF Prepare
<1>28. ASSUME NEW p \in Processes, Spawn(p) PROVE UpdateInv'
  <2>1. UNCHANGED <<text, saved, taken, loose, visible, durable, holder>> /\ pc[p] = "spawn"
    BY <1>28 DEF Spawn
  <2>2. PICK c \in Children :
          /\ pc[c] = "idle"
          /\ pc' = [pc EXCEPT ![p] = "wait", ![c] = "acquire"]
          /\ \E t \in Calls(c) : task' = [task EXCEPT ![c] = t]
          /\ parent' = [parent EXCEPT ![c] = p]
          /\ env' = [env EXCEPT ![c] = token[p]]
    BY <1>28 DEF Spawn, ConfigureChild
  <2>5. \A q \in saved : q \in Processes /\ pc[q] \in {"reply", "replying", "answered"} \cup Ends
    OBVIOUS
  <2>6. pc[p] \notin {"wait"} \cup Ends => \A q \in Processes : parent[q] # p
    BY InvocationLockAssumption
  <2>7. UNCHANGED <<text, saved, taken, loose>> /\ \A t \in Tools : visible'[t] = visible[t] /\ durable'[t] = durable[t]
    BY <2>1, <2>2, CommandsAssumption
  <2>8. \A q \in saved : pc'[q] \in {"reply", "replying", "answered"} \cup Ends /\ task'[q] = task[q]
    BY SMTT(30), <2>1, <2>2, <2>5, CommandsAssumption
  <2>9. \A q \in Processes : pc'[q] \in Writing \cup {"directory"} =>
          pc'[q] = pc[q] /\ task'[q] = task[q] /\ (Uncovered(q) => Uncovered(q)')
    BY <2>1, <2>2, <2>6, CommandsAssumption, InvocationLockAssumption
  <2> HIDE DEF UpdateInv, Uncovered, TypeInv, RoleInv, ParentInv, LockInv, ControlType, Writing, Ends
  <2> QED
    BY <2>7, <2>8, <2>9, UpdatesFrame
<1>29. ASSUME NEW p \in Processes, SpawnFails(p) PROVE UpdateInv'
  BY <1>29, CommandsAssumption, InvocationLockAssumption DEF SpawnFails, End, Unlock
<1>30. ASSUME NEW p \in Processes, Reply(p) PROVE UpdateInv'
  <2>1. /\ UNCHANGED <<text, saved, taken, loose, visible, durable, task, env, parent>>
        /\ pc[p] \notin {"idle", "wait"} \cup Ends
        /\ UNCHANGED holder
    BY <1>30 DEF Reply
  <2>2. PICK label \in {"replying", "answered"} : pc' = [pc EXCEPT ![p] = label]
    BY <1>30 DEF Reply
  <2>5. \A q \in saved : q \in Processes /\ pc[q] \in {"reply", "replying", "answered"} \cup Ends
    OBVIOUS
  <2>6. pc[p] \notin {"wait"} \cup Ends => \A q \in Processes : parent[q] # p
    BY InvocationLockAssumption
  <2>7. UNCHANGED <<text, saved, taken, loose>> /\ \A t \in Tools : visible'[t] = visible[t] /\ durable'[t] = durable[t]
    BY <2>1, <2>2
  <2>8. \A q \in saved : pc'[q] \in {"reply", "replying", "answered"} \cup Ends /\ task'[q] = task[q]
    BY <2>1, <2>2, <2>5
  <2>9. \A q \in Processes : pc'[q] \in Writing \cup {"directory"} =>
          pc'[q] = pc[q] /\ task'[q] = task[q] /\ (Uncovered(q) => Uncovered(q)')
    BY <2>1, <2>2, <2>6, InvocationLockAssumption DEF Unlock
  <2> HIDE DEF UpdateInv, Uncovered, TypeInv, RoleInv, ParentInv, LockInv, ControlType, Writing, Ends
  <2> QED
    BY <2>7, <2>8, <2>9, UpdatesFrame
<1>31. ASSUME NEW p \in Processes, FinishReply(p) PROVE UpdateInv'
  <2>1. /\ UNCHANGED <<text, saved, taken, loose, visible, durable, task, env, parent>>
        /\ pc[p] \notin {"idle", "wait"} \cup Ends
        /\ Unlock(p)
    BY <1>31 DEF FinishReply, End
  <2>2. PICK label \in {"done"} : pc' = [pc EXCEPT ![p] = label]
    BY <1>31 DEF FinishReply, End
  <2>5. \A q \in saved : q \in Processes /\ pc[q] \in {"reply", "replying", "answered"} \cup Ends
    OBVIOUS
  <2>6. pc[p] \notin {"wait"} \cup Ends => \A q \in Processes : parent[q] # p
    BY InvocationLockAssumption
  <2>7. UNCHANGED <<text, saved, taken, loose>> /\ \A t \in Tools : visible'[t] = visible[t] /\ durable'[t] = durable[t]
    BY <2>1, <2>2
  <2>8. \A q \in saved : pc'[q] \in {"reply", "replying", "answered"} \cup Ends /\ task'[q] = task[q]
    BY <2>1, <2>2, <2>5
  <2>9. \A q \in Processes : pc'[q] \in Writing \cup {"directory"} =>
          pc'[q] = pc[q] /\ task'[q] = task[q] /\ (Uncovered(q) => Uncovered(q)')
    BY <2>1, <2>2, <2>6, InvocationLockAssumption DEF Unlock
  <2> HIDE DEF UpdateInv, Uncovered, TypeInv, RoleInv, ParentInv, LockInv, ControlType, Writing, Ends
  <2> QED
    BY <2>7, <2>8, <2>9, UpdatesFrame
<1>32. ASSUME NEW p \in Processes, ReplyFails(p) PROVE UpdateInv'
  <2>1. /\ UNCHANGED <<text, saved, taken, loose, visible, durable, task, env, parent>>
        /\ pc[p] \notin {"idle", "wait"} \cup Ends
        /\ Unlock(p)
    BY <1>32 DEF ReplyFails, End
  <2>2. PICK label \in {"failed"} : pc' = [pc EXCEPT ![p] = label]
    BY <1>32 DEF ReplyFails, End
  <2>5. \A q \in saved : q \in Processes /\ pc[q] \in {"reply", "replying", "answered"} \cup Ends
    OBVIOUS
  <2>6. pc[p] \notin {"wait"} \cup Ends => \A q \in Processes : parent[q] # p
    BY InvocationLockAssumption
  <2>7. UNCHANGED <<text, saved, taken, loose>> /\ \A t \in Tools : visible'[t] = visible[t] /\ durable'[t] = durable[t]
    BY <2>1, <2>2
  <2>8. \A q \in saved : pc'[q] \in {"reply", "replying", "answered"} \cup Ends /\ task'[q] = task[q]
    BY <2>1, <2>2, <2>5
  <2>9. \A q \in Processes : pc'[q] \in Writing \cup {"directory"} =>
          pc'[q] = pc[q] /\ task'[q] = task[q] /\ (Uncovered(q) => Uncovered(q)')
    BY <2>1, <2>2, <2>6, InvocationLockAssumption DEF Unlock
  <2> HIDE DEF UpdateInv, Uncovered, TypeInv, RoleInv, ParentInv, LockInv, ControlType, Writing, Ends
  <2> QED
    BY <2>7, <2>8, <2>9, UpdatesFrame
<1>33. ASSUME NEW p \in Processes, Collect(p) PROVE UpdateInv'
  <2>1. /\ UNCHANGED <<text, saved, taken, loose, visible, durable, task, env, parent>>
        /\ pc[p] = "wait"
        /\ Unlock(p)
    BY <1>33 DEF Collect, End
  <2>2. PICK label \in {"done", "failed"} : pc' = [pc EXCEPT ![p] = label]
    BY <1>33 DEF Collect, End
  <2>5. \A q \in saved : q \in Processes /\ pc[q] \in {"reply", "replying", "answered"} \cup Ends
    OBVIOUS
  <2>7. UNCHANGED <<text, saved, taken, loose>> /\ \A t \in Tools : visible'[t] = visible[t] /\ durable'[t] = durable[t]
    BY <2>1, <2>2
  <2>8. \A q \in saved : pc'[q] \in {"reply", "replying", "answered"} \cup Ends /\ task'[q] = task[q]
    BY <2>1, <2>2, <2>5
  <2>9. \A q \in Processes : pc'[q] \in Writing \cup {"directory"} =>
          pc'[q] = pc[q] /\ task'[q] = task[q] /\ (Uncovered(q) => Uncovered(q)')
    <3>1. \A q \in Processes \ {p} : pc'[q] = pc[q] /\ (env[q] # NoTool => parent[q] # Nobody)
      BY <2>2 DEF ParentInv
    <3>2. \A q \in Processes : pc[q] \in Writing \cup {"directory"} => task[q].tool \in Tools
      OBVIOUS
    <3>3. pc'[p] \notin Writing \cup {"directory"}
      BY <2>2
    <3>4. \A t \in Tools : holder'[t] \in {holder[t], Nobody}
      BY <2>1 DEF Unlock
    <3> HIDE DEF UpdateInv, TypeInv, RoleInv, ParentInv, LockInv, ControlType, Writing, Ends
    <3> QED
      BY <2>1, <3>1, <3>2, <3>3, <3>4, InvocationLockAssumption
  <2> HIDE DEF UpdateInv, Uncovered, TypeInv, RoleInv, ParentInv, LockInv, ControlType, Writing, Ends
  <2> QED
    BY <2>7, <2>8, <2>9, UpdatesFrame
<1>34. ASSUME NEW p \in Processes, Kill(p) PROVE UpdateInv'
  BY <1>34, CommandsAssumption, InvocationLockAssumption DEF Kill, End, Unlock,
     DropTemp, NoFile, Trouble
<1>35. ASSUME PowerLoss PROVE UpdateInv'
  <2>1. PICK lost \in SUBSET {f \in DOMAIN visible : visible[f] # durable[f]},
             gone \in SUBSET ((dirs \ firm) \cup {t \in Tools : folder[t] = "new"}) :
               /\ LosePower(lost, gone)
               /\ taken' = taken \cup {q \in saved : Target(q) \in gone}
    BY <1>35 DEF PowerLoss
  <2>2. /\ \A p \in Processes : pc'[p] = IF Running(p) THEN "killed" ELSE pc[p]
        /\ UNCHANGED <<text, saved, loose, task>>
    BY <1>35 DEF PowerLoss
  <2>3. \A t \in Tools \ gone : /\ visible'[t] \in {visible[t], durable[t]}
                                /\ durable'[t] = visible'[t]
    BY <2>1, FileTypes DEF LosePower, DataType
  <2>4. \A t \in Tools \ gone : Seen(t)' \in {Seen(t), Secured(t)} /\ Secured(t)' = Seen(t)'
    BY <2>3
  <2>5. \A q \in saved : task[q].tool \in Tools /\ pc'[q] \in {"reply", "replying", "answered"} \cup Ends
    BY <2>2
  <2>6. \A q \in Processes : pc'[q] \notin Writing \cup {"directory"}
    BY <2>2
  <2>7. \A q \in saved \ taken' : task[q].job = "update" => task[q].tool \in Tools \ gone /\ q \notin taken
    BY <2>1, <2>5 DEF Target
  <2> HIDE DEF Uncovered, TypeInv, RoleInv, ParentInv, LockInv, ControlType, Seen, Secured
  <2> QED
    BY <2>2, <2>4, <2>5, <2>6, <2>7
<1>36. CASE UNCHANGED vars
  BY <1>36, CommandsAssumption, InvocationLockAssumption
<1> HIDE DEF Goto, lock, files, artifacts, memory, listing, answers, history, vars,
   BaseInv, TypeInv, ControlType, RoleInv, ParentInv, LockInv, UpdateInv, Passes,
   Uncovered, Bypasses, Running, Seen, Secured, LoadOrDefault, Content, Labels, Ends,
   Modes, Displays, JobNames, Writing
<1> QED
  BY <1>1, <1>2, <1>3, <1>4, <1>5, <1>6, <1>7, <1>8, <1>9, <1>10, <1>11, <1>12, <1>13,
     <1>14, <1>15, <1>16, <1>17, <1>18, <1>19, <1>20, <1>21, <1>22, <1>23, <1>24, <1>25,
     <1>26, <1>27, <1>28, <1>29, <1>30, <1>31, <1>32, <1>33, <1>34, <1>35, <1>36
  DEF Next, Step


(* An update that was reported as saved stays in the settings, whatever    *)
(* other invocations save, fail to save or lose in a power failure, unless *)
(* a child went on with the lock of a parent that no longer had it, or     *)
(* the whole store went in a power loss, its directory being new.          *)
THEOREM SavedUpdatesAreKept == Spec => []UpdatesAreKept
<1>1. Init => BaseInv /\ UpdateInv
  <2> SUFFICES ASSUME Init PROVE UpdateInv
    BY InitBase
  <2> QED
    BY DEF Init, UpdateInv, Writing
<1>2. BaseInv /\ UpdateInv /\ [Next]_vars => BaseInv' /\ UpdateInv'
  BY BaseStep, UpdateStep
<1>3. UpdateInv => UpdatesAreKept
  BY DEF UpdateInv, UpdatesAreKept, Seen
<1> QED
  BY <1>1, <1>2, <1>3, PTL DEF Spec


--------------------------------------------------------------------------------
(* Artifacts *)

(* An artifact is described once it has its image.                         *)
LEMMA BuildStep ==
  ASSUME BaseInv, BuildInv, [Next]_vars
  PROVE  BuildInv'
<1> USE DEF Goto, lock, files, artifacts, memory, listing, answers, history, vars,
   BaseInv, TypeInv, ControlType, DataType, RoleInv, FileInv, BuildInv, Builds, Labels,
   Ends, Modes, Displays, JobNames, Writing
<1>1. ASSUME NEW p \in Processes, Start(p) PROVE BuildInv'
  BY <1>1, CommandsAssumption, FileTypes DEF Start
<1>2. ASSUME NEW p \in Processes, Acquire(p) PROVE BuildInv'
  BY <1>2, CommandsAssumption, FileTypes DEF Acquire, Remember
<1>3. ASSUME NEW p \in Processes, Try(p) PROVE BuildInv'
  BY <1>3, CommandsAssumption, FileTypes DEF Try, TryLock, Free
<1>4. ASSUME NEW p \in Processes, Refuse(p) PROVE BuildInv'
  BY <1>4, CommandsAssumption, FileTypes DEF Refuse, End, Unlock, Free
<1>5. ASSUME NEW p \in Processes, Wait(p) PROVE BuildInv'
  BY <1>5, CommandsAssumption, FileTypes DEF Wait, Show, Free
<1>6. ASSUME NEW p \in Processes, Interrupt(p) PROVE BuildInv'
  BY <1>6, CommandsAssumption, FileTypes DEF Interrupt, Clear, End, Unlock
<1>7. ASSUME NEW p \in Processes, Record(p) PROVE BuildInv'
  BY <1>7, CommandsAssumption, FileTypes DEF Record, WriteMetadata, Clear
<1>8. ASSUME NEW p \in Processes, RecordFails(p) PROVE BuildInv'
  BY <1>8, CommandsAssumption, FileTypes DEF RecordFails, EmptyMetadata, Clear,
     Unlock, Trouble
<1>9. ASSUME NEW p \in Processes, Load(p) PROVE BuildInv'
  BY <1>9, CommandsAssumption, FileTypes DEF Load, LoadOrDefault, Content
<1>10. ASSUME NEW p \in Processes, Write(p) PROVE BuildInv'
  BY <1>10, CommandsAssumption, FileTypes DEF Write, WriteTemp
<1>11. ASSUME NEW p \in Processes, Sync(p) PROVE BuildInv'
  BY <1>11, CommandsAssumption, FileTypes DEF Sync, SyncTemp
<1>12. ASSUME NEW p \in Processes, Persist(p) PROVE BuildInv'
  BY <1>12, CommandsAssumption, FileTypes DEF Persist, PersistTemp, Target, NoFile
<1>13. ASSUME NEW p \in Processes, FinishSave(p) PROVE BuildInv'
  BY <1>13, CommandsAssumption, FileTypes DEF FinishSave, SyncDirectory, Target, End,
     Unlock
<1>14. ASSUME NEW p \in Processes, SaveFails(p) PROVE BuildInv'
  BY <1>14, CommandsAssumption, FileTypes DEF SaveFails, DropTemp, NoFile, End,
     Unlock, Trouble
<1>15. ASSUME NEW p \in Processes, CreateArtifact(p) PROVE BuildInv'
  BY <1>15, CommandsAssumption, FileTypes DEF CreateArtifact, Allocate
<1>16. ASSUME NEW p \in Processes, NoIdIsFree(p) PROVE BuildInv'
  BY <1>16, CommandsAssumption, FileTypes DEF NoIdIsFree, End, Unlock
<1>17. ASSUME NEW p \in Processes, BuildImage(p) PROVE BuildInv'
  BY <1>17, CommandsAssumption, FileTypes DEF BuildImage, SaveImage
<1>18. ASSUME NEW p \in Processes, RemoveArtifact(p) PROVE BuildInv'
  BY <1>18, CommandsAssumption, FileTypes DEF RemoveArtifact, NoFile
<1>19. ASSUME NEW p \in Processes, NothingToRemove(p) PROVE BuildInv'
  BY <1>19, CommandsAssumption, FileTypes DEF NothingToRemove, End, Unlock
<1>20. ASSUME NEW p \in Processes, Unlink(p) PROVE BuildInv'
  BY <1>20, CommandsAssumption, FileTypes DEF Unlink, NoFile, End, Unlock
<1>21. ASSUME NEW p \in Processes, List(p) PROVE BuildInv'
  BY <1>21, CommandsAssumption, FileTypes DEF List
<1>22. ASSUME NEW p \in Processes, Visit(p) PROVE BuildInv'
  <2>1. /\ UNCHANGED <<task, removed, dirs, images, visible, durable>>
        /\ pc'[p] \in {"visit", "read"}
    BY <1>22 DEF Visit
  <2>2. \A q \in Processes \ {p} : pc'[q] = pc[q] /\ at'[q] = at[q]
    BY <1>22 DEF Visit
  <2>3. \A q \in Processes : pc'[q] \in Writing \cup {"image", "unlink"} =>
          pc'[q] = pc[q] /\ at'[q] = at[q]
    BY <2>1, <2>2
  <2> HIDE DEF TypeInv, ControlType, DataType, RoleInv, FileInv, Writing
  <2> QED
    BY <2>1, <2>3
<1>23. ASSUME NEW p \in Processes, Read(p) PROVE BuildInv'
  BY <1>23, CommandsAssumption, FileTypes DEF Read, Content
<1>24. ASSUME NEW p \in Processes, ReadFails(p) PROVE BuildInv'
  BY <1>24, CommandsAssumption, FileTypes DEF ReadFails, Content, End, Unlock
<1>25. ASSUME NEW p \in Processes, Resolve(p) PROVE BuildInv'
  BY <1>25, CommandsAssumption, FileTypes DEF Resolve, End, Unlock
<1>26. ASSUME NEW p \in Processes, AcquireSecond(p) PROVE BuildInv'
  BY <1>26, CommandsAssumption, FileTypes DEF AcquireSecond, Remember
<1>27. ASSUME NEW p \in Processes, Prepare(p) PROVE BuildInv'
  BY <1>27, CommandsAssumption, FileTypes DEF Prepare
<1>28. ASSUME NEW p \in Processes, Spawn(p) PROVE BuildInv'
  BY <1>28, CommandsAssumption, FileTypes DEF Spawn, ConfigureChild
<1>29. ASSUME NEW p \in Processes, SpawnFails(p) PROVE BuildInv'
  BY <1>29, CommandsAssumption, FileTypes DEF SpawnFails, End, Unlock
<1>30. ASSUME NEW p \in Processes, Reply(p) PROVE BuildInv'
  <2>1. UNCHANGED <<lock, files, artifacts, memory, listing, history>>
    BY <1>30 DEF Reply
  <2>2. PICK label \in {"replying", "answered"} : pc' = [pc EXCEPT ![p] = label]
    BY <1>30 DEF Reply
  <2>3. pc[p] \in {"reply", "replying"}
    BY <1>30 DEF Reply
  <2> QED
    BY <2>1, <2>2, <2>3, CommandsAssumption, FileTypes
<1>31. ASSUME NEW p \in Processes, FinishReply(p) PROVE BuildInv'
  BY <1>31, CommandsAssumption, FileTypes DEF FinishReply, End, Unlock
<1>32. ASSUME NEW p \in Processes, ReplyFails(p) PROVE BuildInv'
  BY <1>32, CommandsAssumption, FileTypes DEF ReplyFails, End, Unlock, Trouble
<1>33. ASSUME NEW p \in Processes, Collect(p) PROVE BuildInv'
  BY <1>33, CommandsAssumption, FileTypes DEF Collect, End, Unlock
<1>34. ASSUME NEW p \in Processes, Kill(p) PROVE BuildInv'
  BY <1>34, CommandsAssumption, FileTypes DEF Kill, End, Unlock, DropTemp, NoFile,
     Trouble
<1>35. ASSUME PowerLoss PROVE BuildInv'
  <2>1. PICK lost \in SUBSET {f \in DOMAIN visible : visible[f] # durable[f]},
             gone \in SUBSET ((dirs \ firm) \cup {t \in Tools : folder[t] = "new"}) :
               LosePower(lost, gone) /\ dirs' = dirs \ gone /\ images' = images \ gone
    BY <1>35 DEF PowerLoss
  <2>2. \A q \in Processes : /\ pc'[q] \in {"idle"} \cup Ends
                             /\ pc'[q] \in {"idle", "broken"} => pc'[q] = pc[q]
    BY <1>35 DEF PowerLoss, Running
  <2>3. UNCHANGED <<at, removed, task, found, todo, before>>
    BY <1>35 DEF PowerLoss
  <2>4. \A id \in Ids : durable'[id] = visible'[id]
    BY <2>1 DEF LosePower
  <2>5. ASSUME NEW id \in Ids, visible'[id].content # Absent
        PROVE  id \notin gone /\ visible'[id] \in {visible[id], durable[id]}
    BY <2>1, <2>5, FileTypes DEF LosePower
  <2>6. ASSUME NEW id \in Ids \ removed, visible'[id].content # Absent
        PROVE  id \in dirs' \intersect images'
    <3>1. /\ visible[id].content # Absent => id \in dirs \intersect images
          /\ durable[id].content # Absent => id \in dirs \intersect images
      OBVIOUS
    <3> HIDE DEF BaseInv, TypeInv, ControlType, DataType, RoleInv, FileInv, BuildInv
    <3> QED
      BY <2>1, <2>5, <2>6, <3>1
  <2>7. \A q \in Processes : pc'[q] \notin Writing \cup {"image", "unlink"}
    BY <2>2
  <2> HIDE DEF TypeInv, ControlType, DataType, RoleInv, FileInv, Writing
  <2> QED
    BY <2>3, <2>4, <2>6, <2>7
<1>36. CASE UNCHANGED vars
  BY <1>36, CommandsAssumption, FileTypes
<1> HIDE DEF Goto, lock, files, artifacts, memory, listing, answers, history, vars,
   BaseInv, TypeInv, ControlType, DataType, RoleInv, FileInv, BuildInv, Builds, Labels,
   Ends, Modes, Displays, JobNames, Writing
<1> QED
  BY <1>1, <1>2, <1>3, <1>4, <1>5, <1>6, <1>7, <1>8, <1>9, <1>10, <1>11, <1>12, <1>13,
     <1>14, <1>15, <1>16, <1>17, <1>18, <1>19, <1>20, <1>21, <1>22, <1>23, <1>24, <1>25,
     <1>26, <1>27, <1>28, <1>29, <1>30, <1>31, <1>32, <1>33, <1>34, <1>35, <1>36
  DEF Next, Step


(* A listing has read, or will read, what is there all the time.           *)
LEMMA ListingStep ==
  ASSUME BaseInv, BuildInv, ListingInv, [Next]_vars
  PROVE  ListingInv'
<1> USE DEF Goto, lock, files, artifacts, memory, listing, answers, history, vars,
   BaseInv, TypeInv, ControlType, DataType, RoleInv, FileInv, BuildInv, Builds,
   ListingInv, Whole, Described, Readable, Content, Labels, Ends, Modes, Displays,
   JobNames, Writing
<1>1. ASSUME NEW p \in Processes, Start(p) PROVE ListingInv'
  BY <1>1, CommandsAssumption, FileTypes DEF Start
<1>2. ASSUME NEW p \in Processes, Acquire(p) PROVE ListingInv'
  BY <1>2, CommandsAssumption, FileTypes DEF Acquire, Remember
<1>3. ASSUME NEW p \in Processes, Try(p) PROVE ListingInv'
  BY <1>3, CommandsAssumption, FileTypes DEF Try, TryLock, Free
<1>4. ASSUME NEW p \in Processes, Refuse(p) PROVE ListingInv'
  BY <1>4, CommandsAssumption, FileTypes DEF Refuse, End, Unlock, Free
<1>5. ASSUME NEW p \in Processes, Wait(p) PROVE ListingInv'
  BY <1>5, CommandsAssumption, FileTypes DEF Wait, Show, Free
<1>6. ASSUME NEW p \in Processes, Interrupt(p) PROVE ListingInv'
  BY <1>6, CommandsAssumption, FileTypes DEF Interrupt, Clear, End, Unlock
<1>7. ASSUME NEW p \in Processes, Record(p) PROVE ListingInv'
  BY <1>7, CommandsAssumption, FileTypes DEF Record, WriteMetadata, Clear
<1>8. ASSUME NEW p \in Processes, RecordFails(p) PROVE ListingInv'
  BY <1>8, CommandsAssumption, FileTypes DEF RecordFails, EmptyMetadata, Clear,
     Unlock, Trouble
<1>9. ASSUME NEW p \in Processes, Load(p) PROVE ListingInv'
  BY <1>9, CommandsAssumption, FileTypes DEF Load, LoadOrDefault, Content
<1>10. ASSUME NEW p \in Processes, Write(p) PROVE ListingInv'
  BY <1>10, CommandsAssumption, FileTypes DEF Write, WriteTemp
<1>11. ASSUME NEW p \in Processes, Sync(p) PROVE ListingInv'
  BY <1>11, CommandsAssumption, FileTypes DEF Sync, SyncTemp
<1>12. ASSUME NEW p \in Processes, Persist(p) PROVE ListingInv'
  BY <1>12, CommandsAssumption, FileTypes DEF Persist, PersistTemp, Target, NoFile
<1>13. ASSUME NEW p \in Processes, FinishSave(p) PROVE ListingInv'
  <2>1. /\ pc' = [pc EXCEPT ![p] = "reply"] \/ pc' = [pc EXCEPT ![p] = "done"]
        /\ UNCHANGED <<visible, artifacts, memory, listing, removed>>
    BY <1>13 DEF FinishSave, SyncDirectory, End
  <2> QED
    BY <2>1
<1>14. ASSUME NEW p \in Processes, SaveFails(p) PROVE ListingInv'
  BY <1>14, CommandsAssumption, FileTypes DEF SaveFails, DropTemp, NoFile, End,
     Unlock, Trouble
<1>15. ASSUME NEW p \in Processes, CreateArtifact(p) PROVE ListingInv'
  BY <1>15, CommandsAssumption, FileTypes DEF CreateArtifact, Allocate
<1>16. ASSUME NEW p \in Processes, NoIdIsFree(p) PROVE ListingInv'
  BY <1>16, CommandsAssumption, FileTypes DEF NoIdIsFree, End, Unlock
<1>17. ASSUME NEW p \in Processes, BuildImage(p) PROVE ListingInv'
  BY <1>17, CommandsAssumption, FileTypes DEF BuildImage, SaveImage
<1>18. ASSUME NEW p \in Processes, RemoveArtifact(p) PROVE ListingInv'
  BY <1>18, CommandsAssumption, FileTypes DEF RemoveArtifact, NoFile
<1>19. ASSUME NEW p \in Processes, NothingToRemove(p) PROVE ListingInv'
  BY <1>19, CommandsAssumption, FileTypes DEF NothingToRemove, End, Unlock
<1>20. ASSUME NEW p \in Processes, Unlink(p) PROVE ListingInv'
  BY <1>20, CommandsAssumption, FileTypes DEF Unlink, NoFile, End, Unlock
<1>21. ASSUME NEW p \in Processes, List(p) PROVE ListingInv'
  BY <1>21, CommandsAssumption, FileTypes DEF List
<1>22. ASSUME NEW p \in Processes, Visit(p) PROVE ListingInv'
  <2>1. PICK id \in todo[p] :
          IF Described(id)
          THEN at' = [at EXCEPT ![p] = id] /\ pc' = [pc EXCEPT ![p] = "read"] /\ UNCHANGED todo
          ELSE todo' = [todo EXCEPT ![p] = todo[p] \ {id}] /\ UNCHANGED <<pc, at>>
    BY <1>22 DEF Visit
  <2>2. UNCHANGED <<task, removed, dirs, images, visible, durable, found, before>> /\ pc[p] = "visit"
    BY <1>22 DEF Visit
  <2>3. CASE Described(id)
    <3>1. /\ at'[p] = id /\ pc'[p] = "read" /\ UNCHANGED todo
          /\ \A q \in Processes \ {p} : at'[q] = at[q] /\ pc'[q] = pc[q]
      BY <2>1, <2>3
    <3>2. /\ \A i \in Ids : Whole(i)' = Whole(i) /\ Content(i)' = Content(i)
          /\ \A q \in Processes : at[q] \in Ids => visible'[at[q]] = visible[at[q]]
      BY <2>2
    <3>3. id \in Ids /\ Content(id) # Absent
      BY <2>3
    <3>4. \A q \in Processes : before[q] \subseteq Ids
      OBVIOUS
    <3>5. \A q \in Processes : pc[q] = "read" => at[q] \in Ids
      OBVIOUS
    <3> HIDE DEF TypeInv, ControlType, DataType, RoleInv, FileInv, BuildInv, BaseInv, Whole, Described
    <3> QED
      BY <2>2, <3>1, <3>2, <3>3, <3>4, <3>5
  <2>4. CASE ~Described(id)
    <3>1. /\ UNCHANGED <<pc, at>>
          /\ \A q \in Processes : \A i \in todo[q] : i \in todo'[q] \/ ~Described(i)
      BY <2>1, <2>4
    <3>2. \A i \in Ids : Whole(i)' = Whole(i) /\ Content(i)' = Content(i) /\ (Whole(i) => Described(i))
      BY <2>2
    <3>3. \A q \in Processes : at[q] \in Ids => Content(at[q])' = Content(at[q])
      BY <2>2, <3>1
    <3>4. \A q \in Processes : before[q] \subseteq Ids
      OBVIOUS
    <3> HIDE DEF TypeInv, ControlType, DataType, FileInv, BuildInv, Whole, Described, Content
    <3> QED
      BY <2>2, <3>1, <3>2, <3>3, <3>4
  <2> QED
    BY <2>3, <2>4
<1>23. ASSUME NEW p \in Processes, Read(p) PROVE ListingInv'
  BY <1>23, CommandsAssumption, FileTypes DEF Read, Content
<1>24. ASSUME NEW p \in Processes, ReadFails(p) PROVE ListingInv'
  BY <1>24, CommandsAssumption, FileTypes DEF ReadFails, Content, End, Unlock
<1>25. ASSUME NEW p \in Processes, Resolve(p) PROVE ListingInv'
  BY <1>25, CommandsAssumption, FileTypes DEF Resolve, End, Unlock
<1>26. ASSUME NEW p \in Processes, AcquireSecond(p) PROVE ListingInv'
  BY <1>26, CommandsAssumption, FileTypes DEF AcquireSecond, Remember
<1>27. ASSUME NEW p \in Processes, Prepare(p) PROVE ListingInv'
  BY <1>27, CommandsAssumption, FileTypes DEF Prepare
<1>28. ASSUME NEW p \in Processes, Spawn(p) PROVE ListingInv'
  BY <1>28, CommandsAssumption, FileTypes DEF Spawn, ConfigureChild
<1>29. ASSUME NEW p \in Processes, SpawnFails(p) PROVE ListingInv'
  BY <1>29, CommandsAssumption, FileTypes DEF SpawnFails, End, Unlock
<1>30. ASSUME NEW p \in Processes, Reply(p) PROVE ListingInv'
  <2>1. UNCHANGED <<lock, files, artifacts, memory, listing, history>>
    BY <1>30 DEF Reply
  <2>2. PICK label \in {"replying", "answered"} : pc' = [pc EXCEPT ![p] = label]
    BY <1>30 DEF Reply
  <2>3. pc[p] \in {"reply", "replying"}
    BY <1>30 DEF Reply
  <2> QED
    BY <2>1, <2>2, <2>3, CommandsAssumption, FileTypes
<1>31. ASSUME NEW p \in Processes, FinishReply(p) PROVE ListingInv'
  BY <1>31, CommandsAssumption, FileTypes DEF FinishReply, End, Unlock
<1>32. ASSUME NEW p \in Processes, ReplyFails(p) PROVE ListingInv'
  BY <1>32, CommandsAssumption, FileTypes DEF ReplyFails, End, Unlock, Trouble
<1>33. ASSUME NEW p \in Processes, Collect(p) PROVE ListingInv'
  BY <1>33, CommandsAssumption, FileTypes DEF Collect, End, Unlock
<1>34. ASSUME NEW p \in Processes, Kill(p) PROVE ListingInv'
  BY <1>34, CommandsAssumption, FileTypes DEF Kill, End, Unlock, DropTemp, NoFile,
     Trouble
<1>35. ASSUME PowerLoss PROVE ListingInv'
  <2>1. PICK lost \in SUBSET {f \in DOMAIN visible : visible[f] # durable[f]},
             gone \in SUBSET ((dirs \ firm) \cup {t \in Tools : folder[t] = "new"}) :
               LosePower(lost, gone) /\ dirs' = dirs \ gone /\ images' = images \ gone
    BY <1>35 DEF PowerLoss
  <2>2. \A q \in Processes : /\ pc'[q] \in {"idle"} \cup Ends
                             /\ pc'[q] \in {"idle", "broken"} => pc'[q] = pc[q]
    BY <1>35 DEF PowerLoss, Running
  <2>3. UNCHANGED <<at, removed, task, found, todo, before>>
    BY <1>35 DEF PowerLoss
  <2>4. \A q \in Processes : /\ pc'[q] \notin {"list", "visit", "read"}
                             /\ pc'[q] = "broken" => removed # {}
                             /\ pc'[q] = "idle" => found[q] = {}
    <3>1. \A q \in Processes : /\ pc[q] = "broken" => removed # {}
                               /\ pc[q] = "idle" => found[q] = {}
      BY DEF ListingInv
    <3>2. \A q \in Processes : pc'[q] \notin {"list", "visit", "read"}
      BY <2>2
    <3> HIDE DEF BaseInv, TypeInv, ControlType, DataType, RoleInv, FileInv, BuildInv, ListingInv
    <3> QED
      BY <2>2, <3>1, <3>2
  <2> HIDE DEF TypeInv, ControlType, DataType, RoleInv, FileInv, BuildInv, Labels, Ends
  <2> QED
    BY <2>3, <2>4
<1>36. CASE UNCHANGED vars
  BY <1>36, CommandsAssumption, FileTypes
<1> HIDE DEF Goto, lock, files, artifacts, memory, listing, answers, history, vars,
   BaseInv, TypeInv, ControlType, DataType, RoleInv, FileInv, BuildInv, Builds,
   ListingInv, Whole, Described, Readable, Content, Labels, Ends, Modes, Displays,
   JobNames, Writing
<1> QED
  BY <1>1, <1>2, <1>3, <1>4, <1>5, <1>6, <1>7, <1>8, <1>9, <1>10, <1>11, <1>12, <1>13,
     <1>14, <1>15, <1>16, <1>17, <1>18, <1>19, <1>20, <1>21, <1>22, <1>23, <1>24, <1>25,
     <1>26, <1>27, <1>28, <1>29, <1>30, <1>31, <1>32, <1>33, <1>34, <1>35, <1>36
  DEF Next, Step


(* A process that resolves an artifact fails because of another one only   *)
(* when an artifact was removed; when it has looked into every directory   *)
(* it has missed none that was there all the time, and whatever it has     *)
(* read has an image, unless it was removed since.                         *)
THEOREM ListingsAreAlwaysSound == Spec => []ListingsAreSound
<1>1. Init => BaseInv /\ ArtifactInv
  <2> SUFFICES ASSUME Init PROVE ArtifactInv
    BY InitBase
  <2>1. \A id \in Ids : (visible[id].content # Absent \/ durable[id].content # Absent) => id \in dirs
    BY DEF Init, NoFile
  <2> QED
    BY <2>1 DEF Init, ArtifactInv, BuildInv, ListingInv, Builds, Writing
<1>2. BaseInv /\ ArtifactInv /\ [Next]_vars => BaseInv' /\ ArtifactInv'
  BY BaseStep, BuildStep, ListingStep DEF ArtifactInv
<1>3. ArtifactInv => ListingsAreSound
  BY DEF ArtifactInv, ListingInv, ListingsAreSound
<1> QED
  BY <1>1, <1>2, <1>3, PTL DEF Spec


--------------------------------------------------------------------------------
(* Locks, waits and answers *)

(* What a process is told of its lock and of its child is so.              *)
LEMMA HandoverStep ==
  ASSUME ChildrenAnswer, BaseInv, HandoverInv, [Next]_vars
  PROVE  HandoverInv'
<1> USE DEF Goto, lock, files, artifacts, memory, listing, answers, history, vars,
   BaseInv, TypeInv, ControlType, RoleInv, ParentInv, LockInv, HandoverInv, LockFileInv,
   WaitInv, AnswerInv, Labels, Ends, Modes, Displays, JobNames, Writing
<1>1. ASSUME NEW p \in Processes, Start(p) PROVE HandoverInv'
  BY <1>1, CommandsAssumption, InvocationLockAssumption DEF Start
<1>2. ASSUME NEW p \in Processes, Acquire(p) PROVE HandoverInv'
  <2>1. LockFileInv'
    BY <1>2, CommandsAssumption, InvocationLockAssumption DEF Acquire, Remember
  <2>2. WaitInv'
    BY <1>2, CommandsAssumption, InvocationLockAssumption DEF Acquire, Remember
  <2>3. AnswerInv'
    BY <1>2, CommandsAssumption, InvocationLockAssumption DEF Acquire, Remember
  <2> QED
    BY <2>1, <2>2, <2>3
<1>3. ASSUME NEW p \in Processes, Try(p) PROVE HandoverInv'
  BY <1>3, CommandsAssumption, InvocationLockAssumption DEF Try, TryLock, Free
<1>4. ASSUME NEW p \in Processes, Refuse(p) PROVE HandoverInv'
  <2>1. /\ pc[p] = "try" /\ UNCHANGED <<pid, want>>
        /\ UNCHANGED holder \/ Unlock(p)
        /\ pc' = [pc EXCEPT ![p] = "refused"] \/ pc' = [pc EXCEPT ![p] = "spawn"]
    BY <1>4 DEF Refuse, End
  <2>2. LockFileInv'
    BY <2>1, CommandsAssumption, InvocationLockAssumption DEF Unlock
  <2>3. WaitInv'
    BY <1>4, CommandsAssumption, InvocationLockAssumption DEF Refuse, End, Free
  <2>4. AnswerInv'
    BY <1>4, CommandsAssumption, InvocationLockAssumption DEF Refuse, End, Free
  <2> QED
    BY <2>2, <2>3, <2>4
<1>5. ASSUME NEW p \in Processes, Wait(p) PROVE HandoverInv'
  BY <1>5, CommandsAssumption, InvocationLockAssumption DEF Wait, Show, Free
<1>6. ASSUME NEW p \in Processes, Interrupt(p) PROVE HandoverInv'
  BY <1>6, CommandsAssumption, InvocationLockAssumption DEF Interrupt, Clear, End,
     Unlock
<1>7. ASSUME NEW p \in Processes, Record(p) PROVE HandoverInv'
  BY <1>7, CommandsAssumption, InvocationLockAssumption DEF Record, WriteMetadata,
     Clear
<1>8. ASSUME NEW p \in Processes, RecordFails(p) PROVE HandoverInv'
  BY <1>8, CommandsAssumption, InvocationLockAssumption DEF RecordFails,
     EmptyMetadata, Clear, Unlock, Trouble
<1>9. ASSUME NEW p \in Processes, Load(p) PROVE HandoverInv'
  BY <1>9, CommandsAssumption, InvocationLockAssumption DEF Load, LoadOrDefault,
     Content
<1>10. ASSUME NEW p \in Processes, Write(p) PROVE HandoverInv'
  BY <1>10, CommandsAssumption, InvocationLockAssumption DEF Write, WriteTemp
<1>11. ASSUME NEW p \in Processes, Sync(p) PROVE HandoverInv'
  BY <1>11, CommandsAssumption, InvocationLockAssumption DEF Sync, SyncTemp
<1>12. ASSUME NEW p \in Processes, Persist(p) PROVE HandoverInv'
  BY <1>12, CommandsAssumption, InvocationLockAssumption DEF Persist, PersistTemp,
     Target, NoFile
<1>13. ASSUME NEW p \in Processes, FinishSave(p) PROVE HandoverInv'
  <2>1. /\ pc[p] = "directory" /\ UNCHANGED <<pid, want, display, task, parent, got, answer>> /\ saved \subseteq saved' /\ p \in saved'
        /\ UNCHANGED holder \/ Unlock(p)
        /\ \/ pc' = [pc EXCEPT ![p] = "reply"]
           \/ p \notin Children /\ pc' = [pc EXCEPT ![p] = "done"]
    BY <1>13 DEF FinishSave, End
  <2>2. LockFileInv'
    BY <2>1, CommandsAssumption, InvocationLockAssumption DEF Unlock
  <2>3. WaitInv'
    BY <2>1
  <2>4. \A c \in Children : parent[c] # Nobody => parent[c] \in Processes /\ pc[parent[c]] \in {"wait"} \cup Ends
    BY CommandsAssumption
  <2>5. pc \in [Processes -> Labels] /\ Children \subseteq Processes
    BY CommandsAssumption
  <2> HIDE DEF BaseInv, TypeInv, RoleInv, LockInv, ControlType, LockFileInv, WaitInv, ParentInv
  <2>7. AnswerInv'
    BY <2>1, <2>4, <2>5
  <2> QED
    BY <2>2, <2>3, <2>7
<1>14. ASSUME NEW p \in Processes, SaveFails(p) PROVE HandoverInv'
  BY <1>14, CommandsAssumption, InvocationLockAssumption DEF SaveFails, DropTemp,
     NoFile, End, Unlock, Trouble
<1>15. ASSUME NEW p \in Processes, CreateArtifact(p) PROVE HandoverInv'
  BY <1>15, CommandsAssumption, InvocationLockAssumption DEF CreateArtifact, Allocate
<1>16. ASSUME NEW p \in Processes, NoIdIsFree(p) PROVE HandoverInv'
  BY <1>16, CommandsAssumption, InvocationLockAssumption DEF NoIdIsFree, End, Unlock
<1>17. ASSUME NEW p \in Processes, BuildImage(p) PROVE HandoverInv'
  BY <1>17, CommandsAssumption, InvocationLockAssumption DEF BuildImage, SaveImage
<1>18. ASSUME NEW p \in Processes, RemoveArtifact(p) PROVE HandoverInv'
  BY <1>18, CommandsAssumption, InvocationLockAssumption DEF RemoveArtifact, NoFile
<1>19. ASSUME NEW p \in Processes, NothingToRemove(p) PROVE HandoverInv'
  <2>1. LockFileInv'
    BY <1>19, CommandsAssumption, InvocationLockAssumption DEF NothingToRemove, End, Unlock
  <2>2. WaitInv'
    BY <1>19, CommandsAssumption, InvocationLockAssumption DEF NothingToRemove, End, Unlock
  <2>4. \A c \in Children : parent[c] # Nobody => parent[c] \in Processes /\ pc[parent[c]] \in {"wait"} \cup Ends
    BY CommandsAssumption
  <2>5. pc \in [Processes -> Labels] /\ Children \subseteq Processes
    BY CommandsAssumption
  <2>6. /\ pc[p] = "work" /\ task[p].job = "remove" /\ UNCHANGED <<task, parent, answer, saved>>
        /\ pc' = [pc EXCEPT ![p] = "done"]
        /\ \A q \in Processes \ {p} : got'[q] = got[q]
    BY <1>19 DEF NothingToRemove, End, Unlock
  <2> HIDE DEF BaseInv, TypeInv, RoleInv, LockInv, ControlType, LockFileInv, WaitInv, ParentInv
  <2>7. AnswerInv'
    BY <2>4, <2>5, <2>6
  <2> QED
    BY <2>1, <2>2, <2>7
<1>20. ASSUME NEW p \in Processes, Unlink(p) PROVE HandoverInv'
  <2>1. LockFileInv'
    BY <1>20, CommandsAssumption, InvocationLockAssumption DEF Unlink, NoFile, End, Unlock
  <2>2. WaitInv'
    BY <1>20, CommandsAssumption, InvocationLockAssumption DEF Unlink, NoFile, End, Unlock
  <2>4. \A c \in Children : parent[c] # Nobody => parent[c] \in Processes /\ pc[parent[c]] \in {"wait"} \cup Ends
    BY CommandsAssumption
  <2>5. pc \in [Processes -> Labels] /\ Children \subseteq Processes
    BY CommandsAssumption
  <2>6. /\ pc[p] = "unlink" /\ task[p].job = "remove" /\ UNCHANGED <<task, parent, answer, saved>>
        /\ pc' = [pc EXCEPT ![p] = "done"]
        /\ \A q \in Processes \ {p} : got'[q] = got[q]
    BY <1>20 DEF Unlink, NoFile, End, Unlock
  <2> HIDE DEF BaseInv, TypeInv, RoleInv, LockInv, ControlType, LockFileInv, WaitInv, ParentInv
  <2>7. AnswerInv'
    BY <2>4, <2>5, <2>6
  <2> QED
    BY <2>1, <2>2, <2>7
<1>21. ASSUME NEW p \in Processes, List(p) PROVE HandoverInv'
  BY <1>21, CommandsAssumption, InvocationLockAssumption DEF List
<1>22. ASSUME NEW p \in Processes, Visit(p) PROVE HandoverInv'
  <2>1. LockFileInv'
    BY <1>22, CommandsAssumption, InvocationLockAssumption DEF Visit, Described, Content
  <2>2. WaitInv'
    BY <1>22, CommandsAssumption, InvocationLockAssumption DEF Visit, Described, Content
  <2>3. AnswerInv'
    BY <1>22, CommandsAssumption, InvocationLockAssumption DEF Visit, Described, Content
  <2> QED
    BY <2>1, <2>2, <2>3
<1>23. ASSUME NEW p \in Processes, Read(p) PROVE HandoverInv'
  BY <1>23, CommandsAssumption, InvocationLockAssumption DEF Read, Content
<1>24. ASSUME NEW p \in Processes, ReadFails(p) PROVE HandoverInv'
  BY <1>24, CommandsAssumption, InvocationLockAssumption DEF ReadFails, Content, End,
     Unlock
<1>25. ASSUME NEW p \in Processes, Resolve(p) PROVE HandoverInv'
  <2>1. LockFileInv'
    BY <1>25, CommandsAssumption, InvocationLockAssumption DEF Resolve, End, Unlock
  <2>2. WaitInv'
    BY <1>25, CommandsAssumption, InvocationLockAssumption DEF Resolve, End, Unlock
  <2>4. \A c \in Children : parent[c] # Nobody => parent[c] \in Processes /\ pc[parent[c]] \in {"wait"} \cup Ends
    BY CommandsAssumption
  <2>5. pc \in [Processes -> Labels] /\ Children \subseteq Processes
    BY CommandsAssumption
  <2>6. /\ pc[p] = "visit" /\ task[p].job = "resolve" /\ UNCHANGED <<task, parent, answer, saved>>
        /\ pc' = [pc EXCEPT ![p] = "done"]
        /\ \A q \in Processes \ {p} : got'[q] = got[q]
    BY <1>25 DEF Resolve, End, Unlock
  <2> HIDE DEF BaseInv, TypeInv, RoleInv, LockInv, ControlType, LockFileInv, WaitInv, ParentInv
  <2>7. AnswerInv'
    BY <2>4, <2>5, <2>6
  <2> QED
    BY <2>1, <2>2, <2>7
<1>26. ASSUME NEW p \in Processes, AcquireSecond(p) PROVE HandoverInv'
  BY <1>26, CommandsAssumption, InvocationLockAssumption DEF AcquireSecond, Remember
<1>27. ASSUME NEW p \in Processes, Prepare(p) PROVE HandoverInv'
  BY <1>27, CommandsAssumption, InvocationLockAssumption DEF Prepare
<1>28. ASSUME NEW p \in Processes, Spawn(p) PROVE HandoverInv'
  <2>1. LockFileInv'
    BY <1>28, CommandsAssumption, InvocationLockAssumption DEF Spawn, ConfigureChild
  <2>2. WaitInv'
    BY <1>28, CommandsAssumption, InvocationLockAssumption DEF Spawn, ConfigureChild
  <2>4. \A c \in Children : parent[c] # Nobody => parent[c] \in Processes /\ pc[parent[c]] \in {"wait"} \cup Ends
    BY CommandsAssumption
  <2>5. pc \in [Processes -> Labels] /\ Children \subseteq Processes
    BY CommandsAssumption
  <2>6. PICK c \in Children :
          /\ pc[c] = "idle" /\ pc[p] = "spawn"
          /\ pc' = [pc EXCEPT ![p] = "wait", ![c] = "acquire"]
          /\ \E t \in Calls(c) : task' = [task EXCEPT ![c] = t]
          /\ parent' = [parent EXCEPT ![c] = p]
    BY <1>28 DEF Spawn
  <2>7. answer' = [answer EXCEPT ![p] = "empty"] /\ UNCHANGED <<got, saved>>
    BY <1>28 DEF Spawn
  <2>8. DOMAIN parent = Processes /\ DOMAIN task = Processes /\ DOMAIN answer = Processes
    OBVIOUS
  <2>9. task'[c].job \in {"update", "build"} /\ \A d \in Processes \ {c} : task'[d] = task[d]
    BY <2>5, <2>6 DEF ChildrenAnswer
  <2>10. \A d \in Children : d # c /\ parent[d] # Nobody => parent[d] \notin {p, c}
    BY SMTT(30), <2>4, <2>6
  <2> HIDE DEF BaseInv, TypeInv, RoleInv, LockInv, ControlType, LockFileInv, WaitInv, ParentInv
  <2>11. AnswerInv'
    BY <2>4, <2>5, <2>6, <2>7, <2>8, <2>9, <2>10
  <2> QED
    BY <2>1, <2>2, <2>11
<1>29. ASSUME NEW p \in Processes, SpawnFails(p) PROVE HandoverInv'
  BY <1>29, CommandsAssumption, InvocationLockAssumption DEF SpawnFails, End, Unlock
<1>30. ASSUME NEW p \in Processes, Reply(p) PROVE HandoverInv'
  <2>1. LockFileInv'
    BY <1>30, CommandsAssumption, InvocationLockAssumption DEF Reply
  <2>2. WaitInv'
    <3>1. /\ pc[p] \in {"reply", "replying"} /\ UNCHANGED <<display, task>>
          /\ pc' = [pc EXCEPT ![p] = "replying"] \/ pc' = [pc EXCEPT ![p] = "answered"]
      BY <1>30 DEF Reply
    <3> QED
      BY <3>1
  <2>3. \A c, d \in Processes : parent[c] = parent[d] /\ parent[c] # Nobody => c = d
    OBVIOUS
  <2>4. \A c \in Children : parent[c] # Nobody => parent[c] \in Processes /\ pc[parent[c]] \in {"wait"} \cup Ends
    BY CommandsAssumption
  <2>5. pc \in [Processes -> Labels] /\ Children \subseteq Processes
    BY CommandsAssumption
  <2>6. /\ UNCHANGED <<task, parent, got, saved>> /\ pc[p] \in {"reply", "replying"}
        /\ \/ /\ pc' = [pc EXCEPT ![p] = "replying"]
              /\ answer' = [answer EXCEPT ![parent[p]] = "partial"]
           \/ /\ pc' = [pc EXCEPT ![p] = "answered"]
              /\ answer' = [answer EXCEPT ![parent[p]] = "whole"]
    BY <1>30 DEF Reply
  <2>7. DOMAIN answer = Processes /\ p \in Children
    BY <2>6
  <2> HIDE DEF BaseInv, TypeInv, RoleInv, LockInv, ControlType, LockFileInv, WaitInv, ParentInv
  <2>8. AnswerInv'
    BY <2>3, <2>4, <2>5, <2>6, <2>7
  <2> QED
    BY <2>1, <2>2, <2>8
<1>31. ASSUME NEW p \in Processes, FinishReply(p) PROVE HandoverInv'
  <2>1. LockFileInv'
    BY <1>31, CommandsAssumption, InvocationLockAssumption DEF FinishReply, End, Unlock
  <2>2. WaitInv'
    BY <1>31, CommandsAssumption, InvocationLockAssumption DEF FinishReply, End, Unlock
  <2>3. \A c, d \in Processes : parent[c] = parent[d] /\ parent[c] # Nobody => c = d
    OBVIOUS
  <2>4. \A c \in Children : parent[c] # Nobody => parent[c] \in Processes /\ pc[parent[c]] \in {"wait"} \cup Ends
    BY CommandsAssumption
  <2>5. pc \in [Processes -> Labels] /\ Children \subseteq Processes
    BY CommandsAssumption
  <2>6. /\ pc[p] \in {"answered"} /\ UNCHANGED <<task, parent, answer, got, saved>>
        /\ pc' = [pc EXCEPT ![p] = "done"]
    BY <1>31 DEF FinishReply, End, Unlock
  <2> HIDE DEF BaseInv, TypeInv, RoleInv, LockInv, ControlType, LockFileInv, WaitInv, ParentInv
  <2>7. AnswerInv'
    BY <2>4, <2>5, <2>6
  <2> QED
    BY <2>1, <2>2, <2>7
<1>32. ASSUME NEW p \in Processes, ReplyFails(p) PROVE HandoverInv'
  <2>1. LockFileInv'
    BY <1>32, CommandsAssumption, InvocationLockAssumption DEF ReplyFails, End, Unlock, Trouble
  <2>2. WaitInv'
    BY <1>32, CommandsAssumption, InvocationLockAssumption DEF ReplyFails, End, Unlock, Trouble
  <2>3. \A c, d \in Processes : parent[c] = parent[d] /\ parent[c] # Nobody => c = d
    OBVIOUS
  <2>4. \A c \in Children : parent[c] # Nobody => parent[c] \in Processes /\ pc[parent[c]] \in {"wait"} \cup Ends
    BY CommandsAssumption
  <2>5. pc \in [Processes -> Labels] /\ Children \subseteq Processes
    BY CommandsAssumption
  <2>6. /\ pc[p] \in {"reply", "replying", "answered"} /\ UNCHANGED <<task, parent, answer, got, saved>>
        /\ pc' = [pc EXCEPT ![p] = "failed"]
    BY <1>32 DEF ReplyFails, End, Unlock, Trouble
  <2> HIDE DEF BaseInv, TypeInv, RoleInv, LockInv, ControlType, LockFileInv, WaitInv, ParentInv
  <2>7. AnswerInv'
    BY <2>4, <2>5, <2>6
  <2> QED
    BY <2>1, <2>2, <2>7
<1>33. ASSUME NEW p \in Processes, Collect(p) PROVE HandoverInv'
  <2>1. LockFileInv'
    BY <1>33, CommandsAssumption, InvocationLockAssumption DEF Collect, End, Unlock
  <2>2. WaitInv'
    BY <1>33, CommandsAssumption, InvocationLockAssumption DEF Collect, End, Unlock
  <2>3. \A c, d \in Processes : parent[c] = parent[d] /\ parent[c] # Nobody => c = d
    OBVIOUS
  <2>4. \A c \in Children : parent[c] # Nobody => parent[c] \in Processes /\ pc[parent[c]] \in {"wait"} \cup Ends
    BY CommandsAssumption
  <2>5. pc \in [Processes -> Labels] /\ Children \subseteq Processes
    BY CommandsAssumption
  <2>6. /\ pc[p] = "wait" /\ UNCHANGED <<task, parent, saved>>
        /\ pc' = [pc EXCEPT ![p] = "done"] \/ pc' = [pc EXCEPT ![p] = "failed"]
        /\ got' = [got EXCEPT ![p] = answer[p]]
        /\ \A q \in Processes \ {p} : answer'[q] = answer[q]
    BY <1>33 DEF Collect, End
  <2>8. PICK d \in Children : parent[d] = p /\ pc[d] \in Ends
    BY <1>33 DEF Collect
  <2>9. DOMAIN got = Processes /\ task[p].job = "delegate"
    BY <2>6
  <2> HIDE DEF BaseInv, TypeInv, RoleInv, LockInv, ControlType, LockFileInv, WaitInv, ParentInv
  <2>7. AnswerInv'
    BY <2>3, <2>4, <2>5, <2>6, <2>8, <2>9
  <2> QED
    BY <2>1, <2>2, <2>7
<1>34. ASSUME NEW p \in Processes, Kill(p) PROVE HandoverInv'
  <2>1. LockFileInv'
    BY <1>34, CommandsAssumption, InvocationLockAssumption DEF Kill, End, Unlock, DropTemp, NoFile, Trouble
  <2>2. WaitInv'
    BY <1>34, CommandsAssumption, InvocationLockAssumption DEF Kill, End, Unlock, DropTemp, NoFile, Trouble
  <2>4. \A c \in Children : parent[c] # Nobody => parent[c] \in Processes /\ pc[parent[c]] \in {"wait"} \cup Ends
    BY CommandsAssumption
  <2>5. pc \in [Processes -> Labels] /\ Children \subseteq Processes
    BY CommandsAssumption
  <2>6. /\ pc[p] \notin Ends /\ UNCHANGED <<task, parent, answer, got, saved>>
        /\ pc' = [pc EXCEPT ![p] = "killed"]
    BY <1>34 DEF Running, Kill, Running, End, Unlock, DropTemp, NoFile, Trouble
  <2> HIDE DEF BaseInv, TypeInv, RoleInv, LockInv, ControlType, LockFileInv, WaitInv, ParentInv
  <2>7. AnswerInv'
    BY <2>4, <2>5, <2>6
  <2> QED
    BY <2>1, <2>2, <2>7
<1>35. ASSUME PowerLoss PROVE HandoverInv'
  <2>1. LockFileInv'
    BY <1>35, CommandsAssumption, InvocationLockAssumption DEF PowerLoss
  <2>2. WaitInv'
    BY <1>35, CommandsAssumption, InvocationLockAssumption DEF PowerLoss, Running
  <2>4. \A c \in Children : parent[c] # Nobody => parent[c] \in Processes /\ pc[parent[c]] \in {"wait"} \cup Ends
    BY CommandsAssumption
  <2>5. pc \in [Processes -> Labels] /\ Children \subseteq Processes
    BY CommandsAssumption
  <2>6. /\ UNCHANGED <<task, parent, answer, got, saved>>
        /\ \A q \in Processes : pc'[q] \in {pc[q], "killed"} /\ (pc[q] \in Ends => pc'[q] = pc[q])
        /\ \A q \in Processes : pc'[q] # "wait"
    BY <1>35 DEF PowerLoss, Running
  <2> HIDE DEF BaseInv, TypeInv, RoleInv, LockInv, ControlType, LockFileInv, WaitInv, ParentInv
  <2>7. AnswerInv'
    BY <2>4, <2>5, <2>6
  <2> QED
    BY <2>1, <2>2, <2>7
<1>36. CASE UNCHANGED vars
  BY <1>36, CommandsAssumption, InvocationLockAssumption
<1> HIDE DEF Goto, lock, files, artifacts, memory, listing, answers, history, vars,
   BaseInv, TypeInv, ControlType, RoleInv, ParentInv, LockInv, HandoverInv, LockFileInv,
   WaitInv, AnswerInv, Labels, Ends, Modes, Displays, JobNames, Writing
<1> QED
  BY <1>1, <1>2, <1>3, <1>4, <1>5, <1>6, <1>7, <1>8, <1>9, <1>10, <1>11, <1>12, <1>13,
     <1>14, <1>15, <1>16, <1>17, <1>18, <1>19, <1>20, <1>21, <1>22, <1>23, <1>24, <1>25,
     <1>26, <1>27, <1>28, <1>29, <1>30, <1>31, <1>32, <1>33, <1>34, <1>35, <1>36
  DEF Next, Step


(* Where the children that tools start save something and answer, as those *)
(* of the code do: a lock file names the process that has the lock, a wait *)
(* that is over is no longer shown, a child that ended well has answered   *)
(* whole, and whatever a parent reads as an answer comes from a child      *)
(* whose work was saved.                                                   *)
THEOREM HandoversAreAlwaysClean ==
  ASSUME ChildrenAnswer
  PROVE  Spec => []HandoversAreClean
<1>1. Init => BaseInv /\ HandoverInv
  <2> SUFFICES ASSUME Init PROVE HandoverInv
    BY InitBase
  <2> QED
    BY CommandsAssumption, InvocationLockAssumption
    DEF Init, HandoverInv, LockFileInv, WaitInv, AnswerInv
<1>2. BaseInv /\ HandoverInv /\ [Next]_vars => BaseInv' /\ HandoverInv'
  BY BaseStep, HandoverStep
<1>3. HandoverInv => HandoversAreClean
  BY DEF HandoverInv, LockFileInv, WaitInv, AnswerInv, HandoversAreClean
<1> QED
  BY <1>1, <1>2, <1>3, PTL DEF Spec

================================================================================
