------------------------------ MODULE ManagedBuild -----------------------------
(***************************************************************************)
(* The build account's home and the builds in it                           *)
(* (capulus/src/managed/account.rs, BuildAccount::ensure and               *)
(* remove_orphaned_jobs, and capulus/src/managed/build.rs, ManagedBuild).  *)
(*                                                                         *)
(* A redeploy worker takes the global build lock, completes the layout of  *)
(* the home from whatever an earlier worker left, removes the job roots of *)
(* earlier workers, and builds in a job root of its own, where the         *)
(* registry's secrets are while Cargo runs.  It may be killed, or get an   *)
(* error from the system, at any step.                                     *)
(***************************************************************************)
EXTENDS Naturals, FiniteSets

CONSTANTS Jobs   \* the redeploy jobs, whose IDs are never used twice

(* The directories in the order in which ensure_layout completes them.     *)
Layout   == <<"home", "cargo-tools", "rustup", "cache", "target", "jobs">>
Dirs     == {Layout[i] : i \in DOMAIN Layout}
Privates == Dirs \ {"home", "jobs"}

(* The secrets of a private registry, in the order in which they are       *)
(* written and removed.                                                    *)
Secrets == {"credentials", "ca"}

Absent == [owner |-> "nobody", mode |-> "none"]

(* An owner is a user and a group.  "inherited" is root with the group of  *)
(* the parent, which mkdirat leaves on a BSD filesystem or under setgid.   *)
(* "partial" is a strict subset of 0700, which a umask leaves until chmodat *)
(* follows mkdirat; "open" is 0711.                                        *)
Identity ==
  [owner : {"root", "inherited", "build"}, mode : {"partial", "0700", "open"}]

VARIABLES
  dir,      \* dir[d]: owner and mode of a directory of the layout
  filled,   \* the private directories that builds have put something into
  owner,    \* owner[j]: the owner of the root of job j, or "nobody"
  secrets,  \* secrets[j]: the secret files in the root of job j
  pc,       \* what the holder of the build lock does next
  at,       \* the directory of the layout it works on
  secured,  \* home_state: its home is not yet open
  job,      \* its job
  failed    \* what it reports once the build output and the secrets are gone

disk   == <<dir, filled, owner, secrets>>
memory == <<pc, at, secured, job, failed>>
vars   == <<disk, memory>>

Labels == {"free", "make", "normalize", "regroup", "validate", "own", "open", "finish", "sweep", "erase",
           "root", "chown", "furnish", "configure", "cargo", "clear", "conceal", "inspect",
           "install", "drop", "refused", "stuck"}

Roots == {j \in Jobs : owner[j] # "nobody"}

Goto(label) == pc' = label /\ UNCHANGED <<at, secured, job, failed>>

--------------------------------------------------------------------------------
(* The states of a directory *)

Partial(d) == dir[d] = [owner |-> "root", mode |-> "partial"]
Secured(d) == dir[d] = [owner |-> "root", mode |-> "0700"]
Open(d)    == dir[d] = [owner |-> "root", mode |-> "open"]
Handed(d)  == dir[d] = [owner |-> "build", mode |-> "0700"]

Interrupted(d) == Partial(d) \/ Secured(d)

Inherited(d) == dir[d].owner = "inherited"

Empty(d) ==
  CASE d = "home" -> \A e \in Dirs \ {"home"} : dir[e] = Absent
    [] d = "jobs" -> Roots = {}
    [] OTHER      -> d \notin filled

--------------------------------------------------------------------------------
(* open_or_create_restricted_directory *)

Here == Layout[at]

(* What each caller does with a directory that it has created or resumed,  *)
(* or found to be secured but not finished.                                *)
Initialize ==
  CASE Here = "home"      -> pc' = "validate" /\ secured' = TRUE /\ UNCHANGED <<at, job, failed>>
    [] Here \in Privates  -> Goto("own")
    [] Here = "jobs"      -> Goto("open")

\* mutant of NextDirectory
NextDirectorySkippingJobs ==
  IF at >= 5 THEN Goto("finish")
  ELSE pc' = "make" /\ at' = at + 1 /\ UNCHANGED <<secured, job, failed>>

(* The directory is complete: on to the next one.                          *)
NextDirectory ==
  IF Here = "jobs" THEN Goto("finish")
  ELSE pc' = "make" /\ at' = at + 1 /\ UNCHANGED <<secured, job, failed>>

(* What mkdirat makes, under any umask.  The home's parent may have any    *)
(* group; what is in the home inherits the group of the home, which is     *)
(* root's by then.                                                         *)
Created ==
  [owner : IF Here = "home" THEN {"root", "inherited"} ELSE {"root"},
   mode  : {"partial", "0700"}]

\* mutant of MakeDirectory
MakeDirectoryOverExisting ==
  /\ pc = "make"
  /\ \E made \in Created : dir' = [dir EXCEPT ![Here] = made]
  /\ Goto("normalize")
  /\ UNCHANGED <<filled, owner, secrets>>

MakeDirectory ==
  /\ pc = "make"
  /\ dir[Here] = Absent
  /\ \E made \in Created : dir' = [dir EXCEPT ![Here] = made]
  /\ Goto("normalize")
  /\ UNCHANGED <<filled, owner, secrets>>

Resumes == Partial(Here)

(* An existing directory whose creation was interrupted before chmodat is  *)
(* resumed, if it is empty and root's, user and group                      *)
(* (set_directory_mode_and_sync).                                          *)
ResumeDirectory ==
  /\ pc = "make"
  /\ Resumes
  /\ IF Empty(Here)
     THEN dir' = [dir EXCEPT ![Here].mode = "0700"] /\ Initialize
     ELSE Goto("refused") /\ UNCHANGED dir
  /\ UNCHANGED <<filled, owner, secrets>>

(* chmodat after mkdirat.                                                  *)
Normalize ==
  /\ pc = "normalize"
  /\ dir' = [dir EXCEPT ![Here].mode = "0700"]
  /\ Goto("regroup")
  /\ UNCHANGED <<filled, owner, secrets>>

(* set_directory_owner_and_sync: only a directory that this invocation has *)
(* created gets root's group for an inherited one.                         *)
NormalizeGroup ==
  /\ pc = "regroup"
  /\ dir' = [dir EXCEPT ![Here].owner = "root"]
  /\ Initialize
  /\ UNCHANGED <<filled, owner, secrets>>

--------------------------------------------------------------------------------
(* ensure_home_boundary, ensure_private_directory, ensure_jobs_directory:   *)
(* the state of a directory that was there before                          *)

OpenHome ==
  /\ pc = "make"
  /\ Here = "home"
  /\ dir["home"] # Absent
  /\ ~Resumes
  /\ IF Open("home") \/ Secured("home")
     THEN pc' = "validate" /\ secured' = Secured("home") /\ UNCHANGED <<at, job, failed>>
     ELSE Goto("refused")
  /\ UNCHANGED disk

OpenPrivate ==
  /\ pc = "make"
  /\ Here \in Privates
  /\ dir[Here] # Absent
  /\ ~Resumes
  /\ IF Handed(Here) THEN NextDirectory
     ELSE IF Secured(Here) /\ Empty(Here) THEN Goto("own") ELSE Goto("refused")
  /\ UNCHANGED disk

OpenJobs ==
  /\ pc = "make"
  /\ Here = "jobs"
  /\ dir["jobs"] # Absent
  /\ ~Resumes
  /\ CASE ~(Open("jobs") \/ Secured("jobs"))                -> Goto("refused")
       [] (secured \/ Secured("jobs")) /\ ~Empty("jobs")    -> Goto("refused")
       [] OTHER -> IF Secured("jobs") THEN Goto("open") ELSE NextDirectory
  /\ UNCHANGED disk

\* mutant of Accepted
AcceptedWithoutRestricted(d) ==
  CASE d \in Privates -> Handed(d) \/ (Secured(d) /\ Empty(d))
    [] d = "jobs"     -> Open(d) \/ Secured(d)

(* validate_home_entries *)
Accepted(d) ==
  CASE d \in Privates -> \/ Handed(d) /\ (secured => Empty(d))
                         \/ Interrupted(d) /\ Empty(d)
    [] d = "jobs"     -> \/ Open(d) /\ (secured => Empty(d))
                         \/ Interrupted(d) /\ Empty(d)

ValidateHomeEntries ==
  /\ pc = "validate"
  /\ IF \A d \in Dirs \ {"home"} : dir[d] = Absent \/ Accepted(d)
     THEN NextDirectory
     ELSE Goto("refused")
  /\ UNCHANGED disk

(* require_empty_directory, and the directory is given to the account.      *)
OwnPrivate ==
  /\ pc = "own"
  /\ IF Empty(Here)
     THEN dir' = [dir EXCEPT ![Here].owner = "build"] /\ NextDirectory
     ELSE Goto("refused") /\ UNCHANGED dir
  /\ UNCHANGED <<filled, owner, secrets>>

OpenJobsBoundary ==
  /\ pc = "open"
  /\ IF Empty("jobs")
     THEN dir' = [dir EXCEPT !["jobs"].mode = "open"] /\ NextDirectory
     ELSE Goto("refused") /\ UNCHANGED dir
  /\ UNCHANGED <<filled, owner, secrets>>

(* ensure_layout opens the home last.                                      *)
FinishHome ==
  /\ pc = "finish"
  /\ dir' = IF secured THEN [dir EXCEPT !["home"].mode = "open"] ELSE dir
  /\ Goto("sweep")
  /\ UNCHANGED <<filled, owner, secrets>>

--------------------------------------------------------------------------------
(* remove_orphaned_jobs and ManagedBuild::prepare *)

(* An entry of the jobs directory that is not owned by the account stops   *)
(* the sweep; the others are removed.                                      *)
Sweep ==
  /\ pc = "sweep"
  /\ CASE Roots = {}                            -> Goto("root")
       [] \E j \in Roots : owner[j] # "build"   -> Goto("stuck")
       [] OTHER                                 -> Goto("erase")
  /\ UNCHANGED disk

(* remove_dir_all removes what is in a directory before the directory.     *)
EraseSecret(j) ==
  /\ \E s \in secrets[j] : secrets' = [secrets EXCEPT ![j] = @ \ {s}]
  /\ UNCHANGED <<pc, at, secured, job, failed, dir, filled, owner>>

EraseRoot(j, label) ==
  /\ secrets[j] = {}
  /\ owner' = [owner EXCEPT ![j] = "nobody"]
  /\ Goto(label)
  /\ UNCHANGED <<dir, filled, secrets>>

EraseOrphan ==
  /\ pc = "erase"
  /\ \E j \in Roots : EraseSecret(j) \/ EraseRoot(j, "sweep")

(* ensure_owned_directory of the job root: mkdir by root, then fchown.     *)
MakeRoot ==
  /\ pc = "root"
  /\ IF job \in Roots THEN Goto("stuck") /\ UNCHANGED owner
     ELSE owner' = [owner EXCEPT ![job] = "root"] /\ Goto("chown")
  /\ UNCHANGED <<dir, filled, secrets>>

OwnRoot ==
  /\ pc = "chown"
  /\ owner' = [owner EXCEPT ![job] = "build"]
  /\ Goto("furnish")
  /\ UNCHANGED <<dir, filled, secrets>>

(* The directories of the job, the shared ones under "cache", and the      *)
(* links to those; after that there is a ManagedBuild, and its Drop.        *)
Furnish ==
  /\ pc = "furnish"
  /\ filled' = filled \union {"cache"}
  /\ Goto("configure")
  /\ UNCHANGED <<dir, owner, secrets>>

--------------------------------------------------------------------------------
(* ensure_toolchain and compile *)

(* Rustup fills its directories, and a private registry has secrets, of    *)
(* which one after the other is written.                                   *)
Configure ==
  /\ pc = "configure"
  /\ filled' = filled \union {"cargo-tools", "rustup"}
  /\ \/ /\ secrets[job] # Secrets
        /\ secrets' = [secrets EXCEPT ![job] = IF @ = {} THEN {"credentials"} ELSE Secrets]
        /\ Goto("configure")
     \/ /\ secrets[job] \in {{}, Secrets}
        /\ Goto("cargo")
        /\ UNCHANGED secrets
  /\ UNCHANGED <<dir, owner>>

(* run_with_deadline of "cargo install": it ends well, badly, or too late.  *)
RunCargo ==
  /\ pc = "cargo"
  /\ filled' = filled \union {"cache", "target"}
  /\ failed' \in BOOLEAN
  /\ pc' = "clear"
  /\ UNCHANGED <<at, secured, job, dir, owner, secrets>>

\* mutant of ClearBuildOutput
ClearBuildOutputAndReturn ==
  /\ pc = "clear"
  /\ \/ filled' = filled \ {"target"} /\ pc' = "conceal" /\ UNCHANGED failed
     \/ UNCHANGED filled /\ pc' = "inspect" /\ failed' = FALSE
  /\ UNCHANGED <<at, secured, job, dir, owner, secrets>>

(* clear_build_output; its failure is reported after the secrets are gone.  *)
ClearBuildOutput ==
  /\ pc = "clear"
  /\ \/ filled' = filled \ {"target"} /\ UNCHANGED failed
     \/ UNCHANGED filled /\ failed' = TRUE
  /\ pc' = "conceal"
  /\ UNCHANGED <<at, secured, job, dir, owner, secrets>>

Concealed == IF failed THEN Goto("drop") ELSE Goto("inspect")

(* remove_registry_secrets, file by file; one that is not there is skipped. *)
Conceal ==
  /\ pc = "conceal"
  /\ IF secrets[job] = {} THEN Concealed /\ UNCHANGED secrets
     ELSE /\ secrets' = [secrets EXCEPT ![job] =
                           IF "credentials" \in @ THEN @ \ {"credentials"} ELSE {}]
          /\ Goto("conceal")
  /\ UNCHANGED <<dir, filled, owner>>

(* read_installation_manifest and validate_binary_versions run the staged   *)
(* program as the build account.                                           *)
Inspect ==
  /\ pc = "inspect"
  /\ Goto("install")
  /\ UNCHANGED disk

(* The worker goes on to the installation, with the build in its hands.    *)
Install ==
  /\ pc = "install"
  /\ Goto("drop")
  /\ UNCHANGED disk

(* An error of any of these steps: the worker drops the build.             *)
BuildFails ==
  /\ pc \in {"configure", "cargo", "conceal", "inspect", "install"}
  /\ Goto("drop")
  /\ UNCHANGED disk

--------------------------------------------------------------------------------
(* The lock, and the end of a build *)

Unlock ==
  /\ pc' = "free"
  /\ at' = 1
  /\ secured' = FALSE
  /\ failed' = FALSE
  /\ UNCHANGED job

(* ManagedBuild::drop removes the job root if it can, and then the lock    *)
(* goes, which is a field.                                                 *)
DropBuild ==
  /\ pc = "drop"
  /\ \/ EraseSecret(job)
     \/ EraseRoot(job, "drop")
     \/ Unlock /\ UNCHANGED disk

(* A job that no worker has begun.  IDs are random: none comes twice.       *)
Acquire ==
  /\ pc = "free"
  /\ \E j \in Jobs \ Roots :
       /\ job' = j
       /\ pc' = "make"
  /\ UNCHANGED <<at, secured, failed, disk>>

(* The worker is killed, or a step before there is a ManagedBuild gets an  *)
(* error: nothing is undone and the lock goes.                             *)
Abandon ==
  /\ pc # "free"
  /\ Unlock
  /\ UNCHANGED disk

Init ==
  /\ dir = [d \in Dirs |-> Absent]
  /\ filled = {}
  /\ owner = [j \in Jobs |-> "nobody"]
  /\ secrets = [j \in Jobs |-> {}]
  /\ pc = "free"
  /\ at = 1
  /\ secured = FALSE
  /\ job \in Jobs
  /\ failed = FALSE

EnsureLayout ==
  \/ MakeDirectory \/ ResumeDirectory \/ Normalize \/ NormalizeGroup
  \/ OpenHome \/ OpenPrivate \/ OpenJobs
  \/ ValidateHomeEntries \/ OwnPrivate \/ OpenJobsBoundary \/ FinishHome

Prepare == Sweep \/ EraseOrphan \/ MakeRoot \/ OwnRoot \/ Furnish

Compile == Configure \/ RunCargo \/ ClearBuildOutput \/ Conceal \/ Inspect \/ Install \/ BuildFails

Next == Acquire \/ EnsureLayout \/ Prepare \/ Compile \/ DropBuild \/ Abandon

Spec == Init /\ [][Next]_vars

--------------------------------------------------------------------------------
(* Properties *)

(* The variables range over the identities and steps that the code has.    *)
TypeOK ==
  /\ dir \in [Dirs -> Identity \union {Absent}]
  /\ filled \subseteq Privates
  /\ owner \in [Jobs -> {"nobody", "root", "build"}]
  /\ secrets \in [Jobs -> SUBSET Secrets]
  /\ pc \in Labels
  /\ at \in DOMAIN Layout
  /\ secured \in BOOLEAN
  /\ job \in Jobs
  /\ failed \in BOOLEAN

(* However often a creation of the layout is killed and taken up again, in *)
(* whatever step, ensure_layout accepts what it finds (the checks of       *)
(* validate_home_entries and of the three creators).  It refuses only what *)
(* a worker left that died before it replaced the group that a new         *)
(* directory had inherited: that is for an administrator to remove (the    *)
(* test interrupted_inherited_group_creation_is_not_taken_over_on_retry,   *)
(* account.rs:1410).                                                       *)
LayoutResumes == pc = "refused" => \E d \in Dirs : Inherited(d)

(* Once the home can be entered by the build account, everything in it is  *)
(* complete: its private directories are its own, and the directory of the *)
(* jobs belongs to root.  Until then nothing has been put anywhere.         *)
OpenMeansComplete ==
  IF Open("home") THEN Open("jobs") /\ \A d \in Privates : Handed(d)
  ELSE filled = {} /\ Roots = {}

(* No directory that a build has put something into changes its owner or   *)
(* its mode: only empty ones are taken over.                                *)
Bare(d) ==
  CASE d = "home" -> filled = {} /\ Roots = {}
    [] d = "jobs" -> Roots = {}
    [] OTHER      -> d \notin filled

NothingTakenOver ==
  [][\A d \in Dirs : dir'[d] # dir[d] => dir[d] = Absent \/ Bare(d)]_vars

(* A build in its own root has no other job's root, or secrets, beside it:  *)
(* the sweep under the build lock has removed what earlier workers left.    *)
OneJobRoot == \A i, j \in Roots : i = j

(* The registry's secrets are out of reach when the staged program first   *)
(* runs, as the account that owns the job root, whatever became of Cargo   *)
(* and of the cleaning of its output; and no other job's secrets are there *)
(* either.                                                                  *)
StagedProgramSeesNoSecrets ==
  pc \in {"inspect", "install"} => \A j \in Jobs : secrets[j] = {}

(* "Only the current root-owned boundary layout and empty states produced  *)
(* by an interrupted creation are accepted" (capulus/DESIGN.md:117): an    *)
(* interruption never leaves what every later build refuses.                *)
BuildsResume == pc # "stuck"

================================================================================
