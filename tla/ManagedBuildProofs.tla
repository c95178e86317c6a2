--------------------------- MODULE ManagedBuildProofs --------------------------
(***************************************************************************)
(* What ManagedBuild guarantees, for any set of jobs.                      *)
(*                                                                         *)
(* The invariant says of each step how much of the layout is complete      *)
(* (LayoutInv, StepInv) and of the rest of a build which roots and secrets *)
(* there can be (BuildInv).                                                 *)
(***************************************************************************)
EXTENDS ManagedBuild, TLAPS

(* The directories before the one that the holder works on are complete.   *)
Complete(d) == IF d = "jobs" THEN Open(d) ELSE Handed(d)

Below == Dirs \ {"home"}

Before(n) == {Layout[i] : i \in 2..(n - 1)}

LayoutInv ==
  /\ dir["home"] = Absent \/ Inherited("home") \/ Interrupted("home") \/ Open("home")
  /\ \A d \in Below : dir[d] = Absent \/ Interrupted(d) \/ Complete(d)
  /\ dir["home"] = Absent \/ Inherited("home") \/ Partial("home") =>
       \A d \in Below : dir[d] = Absent
  /\ OpenMeansComplete

AfterHome ==
  /\ Secured("home") \/ Open("home")
  /\ secured = Secured("home")

StepInv ==
  /\ pc = "free" => at = 1
  /\ pc = "make" => (at = 1 \/ AfterHome) /\ \A d \in Before(at) : Complete(d)
  /\ pc \in {"normalize", "regroup"} => /\ at = 1 \/ AfterHome
                                        /\ \A d \in Before(at) : Complete(d)
                                        /\ Interrupted(Here) \/ Inherited(Here)
  /\ pc = "regroup" => dir[Here].mode = "0700"
  /\ pc = "validate" => at = 1 /\ AfterHome
  /\ pc \in {"own", "open"} => /\ AfterHome
                               /\ \A d \in Before(at) : Complete(d)
                               /\ Secured(Here)
                               /\ IF pc = "own" THEN Here \in Privates ELSE Here = "jobs"
  /\ pc = "finish" => AfterHome /\ \A d \in Below : Complete(d)
  /\ pc \in {"sweep", "erase", "root", "chown", "furnish", "configure", "cargo", "clear",
             "conceal", "inspect", "install", "drop"} => Open("home")
  /\ pc = "refused" => Inherited("home")

BuildInv ==
  /\ OneJobRoot
  /\ \A j \in Jobs : secrets[j] # {} => owner[j] = "build"
  /\ pc = "root" => Roots = {}
  /\ pc \in {"chown", "furnish", "configure", "cargo", "clear", "conceal", "inspect",
             "install"} => Roots = {job}
  /\ pc = "chown" => secrets[job] = {}
  /\ pc \in {"furnish", "configure", "cargo", "clear", "conceal", "inspect", "install"} =>
       owner[job] = "build"
  /\ pc = "drop" => Roots \subseteq {job}
  /\ StagedProgramSeesNoSecrets

BuildsInv == TypeOK /\ LayoutInv /\ StepInv /\ BuildInv

--------------------------------------------------------------------------------

LEMMA LayoutFacts ==
  /\ DOMAIN Layout = 1..6
  /\ Layout[1] = "home" /\ Layout[2] = "cargo-tools" /\ Layout[3] = "rustup"
  /\ Layout[4] = "cache" /\ Layout[5] = "target" /\ Layout[6] = "jobs"
  /\ Dirs = {"home", "cargo-tools", "rustup", "cache", "target", "jobs"}
  /\ Privates = {"cargo-tools", "rustup", "cache", "target"}
  /\ Below = {"cargo-tools", "rustup", "cache", "target", "jobs"}
<1>1. DOMAIN Layout = 1..6
  BY DEF Layout
<1>2. /\ Layout[1] = "home" /\ Layout[2] = "cargo-tools" /\ Layout[3] = "rustup"
      /\ Layout[4] = "cache" /\ Layout[5] = "target" /\ Layout[6] = "jobs"
  BY DEF Layout
<1>3. Dirs = {"home", "cargo-tools", "rustup", "cache", "target", "jobs"}
  BY <1>1, <1>2, \A i \in 1..6 : i = 1 \/ i = 2 \/ i = 3 \/ i = 4 \/ i = 5 \/ i = 6 DEF Dirs
<1> QED
  BY <1>1, <1>2, <1>3 DEF Privates, Below

(* Where the holder is decides which directory it works on.                *)
LEMMA HereFacts ==
  ASSUME at \in DOMAIN Layout
  PROVE  /\ at \in 1..6
         /\ Here \in Dirs
         /\ Here = "home" <=> at = 1
         /\ Here = "jobs" <=> at = 6
         /\ at # 1 => Here \in Below
         /\ at \notin {1, 6} => Here \in Privates
BY LayoutFacts DEF Here

LEMMA BeforeFacts ==
  ASSUME at \in DOMAIN Layout
  PROVE  /\ Before(1) = {}
         /\ Before(2) = {}
         /\ at # 1 => Before(at + 1) = Before(at) \union {Here}
         /\ Here \notin Before(at)
         /\ Before(at) \subseteq Below
         /\ at = 6 => Before(at) \union {Here} = Below
<1>1. Before(1) = {} /\ Before(2) = {}
  BY DEF Before
<1>2. at # 1 => Before(at + 1) = Before(at) \union {Here}
  BY LayoutFacts DEF Before, Here
<1>3. Here \notin Before(at)
  <2> SUFFICES ASSUME NEW i \in 2..(at - 1)
               PROVE  Layout[i] # Layout[at]
    BY DEF Before, Here
  <2> QED
    BY LayoutFacts
<1>4. Before(at) \subseteq Below
  <2> SUFFICES ASSUME NEW i \in 2..(at - 1)
               PROVE  Layout[i] \in Below
    BY DEF Before
  <2> QED
    BY LayoutFacts
<1>5. at = 6 => Before(at) \union {Here} = Below
  <2> SUFFICES ASSUME at = 6
               PROVE  Below \subseteq Before(at) \union {Here}
    BY <1>4, HereFacts
  <2>1. 2 \in 2..(at - 1) /\ 3 \in 2..(at - 1) /\ 4 \in 2..(at - 1) /\ 5 \in 2..(at - 1)
    OBVIOUS
  <2> QED
    BY <2>1, LayoutFacts DEF Before, Here
<1> QED
  BY <1>1, <1>2, <1>3, <1>4, <1>5

LEMMA InitInv == Init => BuildsInv
<1> SUFFICES ASSUME Init
             PROVE  BuildsInv
  OBVIOUS
<1> USE LayoutFacts DEF Init
<1>1. TypeOK
  <2>1. dir \in [Dirs -> Identity \union {Absent}]
    BY ZenonT(20)
  <2>2. owner \in [Jobs -> {"nobody", "root", "build"}] /\ secrets \in [Jobs -> SUBSET Secrets]
    OBVIOUS
  <2>3. pc \in Labels /\ at \in DOMAIN Layout
    BY DEF Labels
  <2> QED
    BY <2>1, <2>2, <2>3 DEF TypeOK
<1>2. Roots = {} /\ ~Open("home")
  BY DEF Roots, Open, Absent
<1>3. LayoutInv
  BY <1>2 DEF LayoutInv, OpenMeansComplete
<1>4. StepInv
  BY DEF StepInv
<1>5. BuildInv
  BY <1>2 DEF BuildInv, OneJobRoot, StagedProgramSeesNoSecrets
<1> QED
  BY <1>1, <1>3, <1>4, <1>5 DEF BuildsInv

--------------------------------------------------------------------------------
(* The layout *)

LEMMA NextDirectoryFacts ==
  ASSUME TypeOK, NextDirectory
  PROVE  /\ UNCHANGED <<secured, job, failed>>
         /\ at = 6 => pc' = "finish" /\ at' = at
         /\ at # 6 => pc' = "make" /\ at' = at + 1 /\ at' \in DOMAIN Layout
<1>1. at \in 1..6 /\ (Here = "jobs" <=> at = 6)
  BY HereFacts DEF TypeOK
<1> QED
  BY <1>1, LayoutFacts DEF NextDirectory, Goto

(* A completed directory counts among those before the next one.           *)
LEMMA NextDirectoryStep ==
  ASSUME TypeOK, NextDirectory, UNCHANGED secured,
         \A d \in Before(at) : Complete(d)', \A d \in Below : d = Here => Complete(d)',
         AfterHome'
  PROVE  StepInv' /\ pc' \in {"make", "finish"} /\ at' \in DOMAIN Layout
                  /\ UNCHANGED <<secured, job, failed>>
<1>1. at \in 1..6
  BY HereFacts DEF TypeOK
<1>2. CASE at = 6
  <2>1. pc' = "finish" /\ at' = at /\ UNCHANGED <<secured, job, failed>>
    BY <1>2, NextDirectoryFacts
  <2>2. \A d \in Below : Complete(d)'
    BY <1>2, BeforeFacts DEF TypeOK
  <2> QED
    BY <2>1, <2>2 DEF StepInv, TypeOK
<1>3. CASE at # 6
  <2>1. pc' = "make" /\ at' = at + 1 /\ at' \in DOMAIN Layout /\ UNCHANGED <<secured, job, failed>>
    BY <1>3, NextDirectoryFacts
  <2>2. \A d \in Before(at + 1) : Complete(d)'
    BY <1>1, <1>3, BeforeFacts, HereFacts DEF TypeOK
  <2> QED
    BY <2>1, <2>2 DEF StepInv
<1> QED
  BY <1>2, <1>3

(* While the layout is worked on, no root and no secret changes.           *)
LEMMA QuietBuild ==
  ASSUME BuildInv, UNCHANGED <<owner, secrets, job>>,
         pc' \in {"free", "make", "normalize", "regroup", "validate", "own", "open", "finish",
                 "sweep", "refused"}
  PROVE  BuildInv'
<1>1. Roots' = Roots
  BY DEF Roots
<1> QED
  BY <1>1 DEF BuildInv, OneJobRoot, StagedProgramSeesNoSecrets

(* The states of a directory exclude each other.                           *)
LEMMA States ==
  ASSUME NEW d
  PROVE  /\ Partial(d) => ~Secured(d) /\ ~Open(d) /\ ~Handed(d) /\ dir[d] # Absent
         /\ Secured(d) => ~Open(d) /\ ~Handed(d) /\ dir[d] # Absent
         /\ Open(d) => ~Handed(d) /\ dir[d] # Absent
         /\ Handed(d) => dir[d] # Absent
         /\ Inherited(d) => ~Interrupted(d) /\ ~Open(d) /\ ~Handed(d) /\ dir[d] # Absent
BY DEF Partial, Secured, Interrupted, Open, Handed, Inherited, Absent

(* While the home is not open, nothing is filled and there is no root.     *)
LEMMA EmptyBelow ==
  ASSUME LayoutInv, ~Open("home"), NEW d \in Below
  PROVE  Empty(d)
BY LayoutFacts DEF LayoutInv, OpenMeansComplete, Empty

LEMMA MakeDirectoryStep ==
  ASSUME BuildsInv, MakeDirectory
  PROVE  BuildsInv'
<1> USE DEF BuildsInv
<1>0. at \in 1..6 /\ Here \in Dirs /\ (Here = "home" <=> at = 1) /\ (at # 1 => Here \in Below)
  BY HereFacts DEF TypeOK
<1>1. PICK made \in Created : dir' = [dir EXCEPT ![Here] = made]
  BY DEF MakeDirectory
<1>2. /\ pc = "make" /\ pc' = "normalize" /\ dir[Here] = Absent
      /\ UNCHANGED <<at, secured, job, failed, filled, owner, secrets>>
  BY DEF MakeDirectory, Goto
<1>3. dir \in [Dirs -> Identity \union {Absent}]
  BY DEF TypeOK
<1>4. dir'[Here] = made /\ \A d \in Dirs \ {Here} : dir'[d] = dir[d]
  BY <1>0, <1>1, <1>3
<1>5. /\ made \in Identity /\ made # Absent /\ made.mode # "open" /\ made.owner # "build"
      /\ made.owner = "inherited" => at = 1
      /\ made.owner # "inherited" => made \in [owner : {"root"}, mode : {"partial", "0700"}]
  <2>1. made \in [owner : {"root", "inherited"}, mode : {"partial", "0700"}]
    BY DEF Created
  <2>2. at # 1 => made \in [owner : {"root"}, mode : {"partial", "0700"}]
    BY <1>0 DEF Created
  <2> QED
    BY <2>1, <2>2 DEF Identity, Absent
<1>6. /\ Here' = Here
      /\ \/ dir'[Here] = [owner |-> "root", mode |-> "partial"]
         \/ dir'[Here] = [owner |-> "root", mode |-> "0700"]
         \/ at = 1 /\ dir'[Here].owner = "inherited"
      /\ dir'[Here] # [owner |-> "root", mode |-> "open"]
  <2>1. Here' = Here
    BY <1>2 DEF Here
  <2> QED
    BY <2>1, <1>4, <1>5
<1>7. TypeOK'
  <2>1. dir' \in [Dirs -> Identity \union {Absent}]
    BY <1>0, <1>1, <1>3, <1>5
  <2> QED
    BY <1>2, <2>1 DEF TypeOK, Labels
<1>8. ~Open("home")
  BY <1>0, <1>2, States, LayoutFacts DEF LayoutInv, OpenMeansComplete, Complete
<1>9. LayoutInv'
  <2>1. filled = {} /\ Roots = {} /\ Roots' = Roots
    BY <1>2, <1>8 DEF LayoutInv, OpenMeansComplete, Roots
  <2>2. ~Open("home")'
    <3>1. dir["home"] # [owner |-> "root", mode |-> "open"]
      BY <1>8 DEF Open
    <3> QED
      BY <3>1, <1>4, <1>6, LayoutFacts DEF Open
  <2>3. OpenMeansComplete'
    BY <1>2, <2>1, <2>2 DEF OpenMeansComplete
  <2>4. dir'["home"] = Absent \/ Inherited("home")' \/ Interrupted("home")' \/ Open("home")'
    <3>1. CASE at = 1
      BY <3>1, <1>0, <1>6, LayoutFacts DEF Inherited, Interrupted, Partial, Secured
    <3>2. CASE at # 1
      <4>1. dir'["home"] = dir["home"]
        BY <3>2, <1>0, <1>4, LayoutFacts
      <4> QED
        BY <4>1 DEF LayoutInv, Inherited, Interrupted, Partial, Secured, Open
    <3> QED
      BY <3>1, <3>2
  <2>5. \A d \in Below : dir'[d] = Absent \/ Interrupted(d)' \/ Complete(d)'
    <3> SUFFICES ASSUME NEW d \in Below
                 PROVE  dir'[d] = Absent \/ Interrupted(d)' \/ Complete(d)'
      OBVIOUS
    <3>1. CASE d = Here
      BY <3>1, <1>0, <1>6, LayoutFacts DEF Interrupted, Partial, Secured
    <3>2. CASE d # Here
      BY <3>2, <1>4, LayoutFacts
         DEF LayoutInv, Complete, Interrupted, Partial, Secured, Open, Handed
    <3> QED
      BY <3>1, <3>2
  <2>6. dir'["home"] = Absent \/ Inherited("home")' \/ Partial("home")' =>
          \A d \in Below : dir'[d] = Absent
    <3>1. CASE at = 1
      BY <3>1, <1>0, <1>2, <1>4, LayoutFacts DEF LayoutInv
    <3>2. CASE at # 1
      <4>1. Secured("home") \/ Open("home")
        BY <1>2, <3>2 DEF StepInv, AfterHome
      <4>2. dir'["home"] = dir["home"]
        BY <3>2, <1>0, <1>4, LayoutFacts
      <4>3. ~(dir["home"] = Absent \/ Inherited("home") \/ Partial("home"))
        BY <4>1, States DEF Interrupted
      <4> QED
        BY <4>2, <4>3 DEF Partial, Inherited
    <3> QED
      BY <3>1, <3>2
  <2> QED
    BY <2>3, <2>4, <2>5, <2>6 DEF LayoutInv
<1>10. StepInv'
  <2>1. at = 1 \/ AfterHome'
    BY <1>0, <1>2, <1>4, LayoutFacts DEF StepInv, AfterHome, Secured, Open
  <2>2. \A d \in Before(at) : Complete(d)'
    BY <1>2, <1>4, BeforeFacts, LayoutFacts DEF StepInv, TypeOK, Complete, Open, Handed
  <2> QED
    BY <1>2, <1>6, <2>1, <2>2 DEF StepInv, Inherited, Interrupted, Partial, Secured
<1> QED
  BY <1>2, <1>7, <1>9, <1>10, QuietBuild

(* chmodat: the directory stays one whose creation is interrupted.         *)
LEMMA NormalizeStep ==
  ASSUME BuildsInv, Normalize
  PROVE  BuildsInv'
<1> USE DEF BuildsInv
<1>0. at \in 1..6 /\ Here \in Dirs /\ (Here = "home" <=> at = 1) /\ (at # 1 => Here \in Below)
  BY HereFacts DEF TypeOK
<1>1. /\ pc = "normalize" /\ pc' = "regroup" /\ dir' = [dir EXCEPT ![Here].mode = "0700"]
      /\ UNCHANGED <<at, secured, job, failed, filled, owner, secrets>>
  BY DEF Normalize, Goto
<1>2. /\ Interrupted(Here) \/ Inherited(Here)
      /\ at = 1 \/ AfterHome
      /\ \A d \in Before(at) : Complete(d)
  BY <1>1 DEF StepInv
<1>3. dir \in [Dirs -> Identity \union {Absent}]
  BY DEF TypeOK
<1>4. /\ dir[Here] \in Identity
      /\ dir'[Here] = [owner |-> dir[Here].owner, mode |-> "0700"]
      /\ \A d \in Dirs \ {Here} : dir'[d] = dir[d]
  <2>1. dir[Here] \in Identity
    BY <1>0, <1>2, <1>3, States DEF Interrupted
  <2>2. dir'[Here] = [dir[Here] EXCEPT !.mode = "0700"] /\ \A d \in Dirs \ {Here} : dir'[d] = dir[d]
    BY <1>0, <1>1, <1>3
  <2> QED
    BY <2>1, <2>2 DEF Identity
<1>5. /\ Inherited(Here) => Inherited(Here)'
      /\ Interrupted(Here) => Secured(Here)'
      /\ ~Open(Here)' /\ dir'[Here] # Absent
  BY <1>1, <1>4 DEF Inherited, Interrupted, Partial, Secured, Open, Absent, Here
<1>6. TypeOK'
  <2>1. [owner |-> dir[Here].owner, mode |-> "0700"] \in Identity
    BY <1>4 DEF Identity
  <2>2. dir' = [dir EXCEPT ![Here] = [owner |-> dir[Here].owner, mode |-> "0700"]]
    BY <1>0, <1>1, <1>3, <1>4
  <2>3. dir' \in [Dirs -> Identity \union {Absent}]
    BY <1>0, <1>3, <2>1, <2>2
  <2> QED
    BY <1>1, <2>3 DEF TypeOK, Labels
<1>7. ~Open("home")
  BY <1>0, <1>2, States, LayoutFacts DEF LayoutInv, OpenMeansComplete, Interrupted, Complete
<1>8. at # 1 => Interrupted(Here)
  BY <1>0, <1>2, States, LayoutFacts DEF LayoutInv, Complete
<1>9. LayoutInv'
  <2>1. ~Open("home")'
    BY <1>0, <1>4, <1>5, <1>7, LayoutFacts DEF Open
  <2>2. OpenMeansComplete'
    BY <1>1, <1>7, <2>1 DEF LayoutInv, OpenMeansComplete, Roots
  <2>3. dir'["home"] = Absent \/ Inherited("home")' \/ Interrupted("home")' \/ Open("home")'
    BY <1>0, <1>1, <1>2, <1>4, <1>5, LayoutFacts
       DEF LayoutInv, Inherited, Interrupted, Partial, Secured, Open
  <2>4. \A d \in Below : dir'[d] = Absent \/ Interrupted(d)' \/ Complete(d)'
    BY <1>0, <1>1, <1>4, <1>5, <1>8, LayoutFacts
       DEF LayoutInv, Complete, Interrupted, Partial, Secured, Open, Handed
  <2>5. dir'["home"] = Absent \/ Inherited("home")' \/ Partial("home")' =>
          \A d \in Below : dir'[d] = Absent
    <3>1. CASE at = 1
      <4>1. Interrupted(Here) => ~(dir'["home"] = Absent \/ Inherited("home")' \/ Partial("home")')
        BY <3>1, <1>0, <1>1, <1>5 DEF Here, Secured, Inherited, Partial, Absent
      <4>2. Inherited(Here) => \A d \in Below : dir'[d] = Absent
        BY <3>1, <1>0, <1>4, LayoutFacts DEF LayoutInv
      <4> QED
        BY <1>2, <4>1, <4>2
    <3>2. CASE at # 1
      <4>1. dir'["home"] = dir["home"]
        BY <3>2, <1>0, <1>4, LayoutFacts
      <4>2. ~(dir["home"] = Absent \/ Inherited("home") \/ Partial("home"))
        BY <3>2, <1>2, States DEF AfterHome, Interrupted
      <4> QED
        BY <4>1, <4>2 DEF Partial, Inherited
    <3> QED
      BY <3>1, <3>2
  <2> QED
    BY <2>2, <2>3, <2>4, <2>5 DEF LayoutInv
<1>10. StepInv'
  <2>1. at = 1 \/ AfterHome'
    BY <1>0, <1>1, <1>2, <1>4, LayoutFacts DEF AfterHome, Secured, Open
  <2>2. \A d \in Before(at) : Complete(d)'
    BY <1>1, <1>2, <1>4, BeforeFacts, LayoutFacts DEF TypeOK, Complete, Open, Handed
  <2>3. Interrupted(Here)' \/ Inherited(Here)'
    BY <1>2, <1>5 DEF Interrupted
  <2> QED
    BY <1>1, <1>4, <2>1, <2>2, <2>3 DEF StepInv, Here
<1> QED
  BY <1>1, <1>6, <1>9, <1>10, QuietBuild

(* A directory that is created or resumed becomes root's, with mode 0700.  *)
LEMMA InitializeStep ==
  ASSUME BuildsInv, Initialize, UNCHANGED <<filled, owner, secrets>>,
         at = 1 \/ AfterHome, \A d \in Before(at) : Complete(d),
         Interrupted(Here) \/ Inherited(Here),
         dir' = [dir EXCEPT ![Here] = [owner |-> "root", mode |-> "0700"]]
  PROVE  BuildsInv'
<1> USE DEF BuildsInv
<1>0. /\ at \in 1..6 /\ Here \in Dirs /\ (Here = "home" <=> at = 1) /\ (Here = "jobs" <=> at = 6)
      /\ (at # 1 => Here \in Below) /\ (at \notin {1, 6} => Here \in Privates)
  BY HereFacts DEF TypeOK
<1>1. dir \in [Dirs -> Identity \union {Absent}]
  BY DEF TypeOK
<1>4. dir'[Here] = [owner |-> "root", mode |-> "0700"] /\ \A d \in Dirs \ {Here} : dir'[d] = dir[d]
  BY <1>0, <1>1
<1>5. /\ UNCHANGED <<at, job, failed>>
      /\ at = 1 => pc' = "validate" /\ secured' = TRUE
      /\ at # 1 => UNCHANGED secured /\ pc' = IF at = 6 THEN "open" ELSE "own"
  BY <1>0, LayoutFacts DEF Initialize, Goto
<1>6. TypeOK'
  <2>1. [owner |-> "root", mode |-> "0700"] \in Identity
    BY DEF Identity
  <2>2. dir' \in [Dirs -> Identity \union {Absent}]
    BY <1>0, <1>1, <2>1
  <2>3. pc' \in Labels /\ secured' \in BOOLEAN
    BY <1>5 DEF TypeOK, Labels
  <2> QED
    BY <1>5, <2>2, <2>3 DEF TypeOK
<1>7. ~Open("home")
  BY <1>0, States, LayoutFacts DEF LayoutInv, OpenMeansComplete, Interrupted, Complete
<1>8. ~Open("home")'
  BY <1>0, <1>4, <1>7, LayoutFacts DEF Open
<1>9. LayoutInv'
  <2>1. OpenMeansComplete'
    BY <1>7, <1>8 DEF LayoutInv, OpenMeansComplete, Roots
  <2>2. dir'["home"] = Absent \/ Inherited("home")' \/ Interrupted("home")' \/ Open("home")'
    BY <1>0, <1>4, LayoutFacts DEF LayoutInv, Inherited, Interrupted, Partial, Secured, Open
  <2>3. \A d \in Below : dir'[d] = Absent \/ Interrupted(d)' \/ Complete(d)'
    BY <1>0, <1>4, LayoutFacts DEF LayoutInv, Complete, Interrupted, Partial, Secured, Open, Handed
  <2>4. ~(dir'["home"] = Absent \/ Inherited("home")' \/ Partial("home")')
    <3>1. CASE at = 1
      BY <3>1, <1>0, <1>4, LayoutFacts DEF Partial, Inherited, Absent
    <3>2. CASE at # 1
      <4>1. dir'["home"] = dir["home"]
        BY <3>2, <1>0, <1>4, LayoutFacts
      <4>2. ~(dir["home"] = Absent \/ Inherited("home") \/ Partial("home"))
        BY <3>2, States DEF AfterHome, Interrupted
      <4> QED
        BY <4>1, <4>2 DEF Partial, Inherited
    <3> QED
      BY <3>1, <3>2
  <2> QED
    BY <2>1, <2>2, <2>3, <2>4 DEF LayoutInv
<1>10. StepInv'
  <2>1. AfterHome'
    <3>1. CASE at = 1
      BY <3>1, <1>0, <1>4, <1>5 DEF AfterHome, Secured
    <3>2. CASE at # 1
      BY <3>2, <1>0, <1>4, <1>5, LayoutFacts DEF AfterHome, Secured, Open
    <3> QED
      BY <3>1, <3>2
  <2>2. \A d \in Before(at) : Complete(d)'
    BY <1>4, BeforeFacts, LayoutFacts DEF TypeOK, Complete, Open, Handed
  <2>3. Secured(Here)'
    BY <1>4, <1>5 DEF Secured, Here
  <2>4. Here' = Here
    BY <1>5 DEF Here
  <2> QED
    BY <1>0, <1>5, <2>1, <2>2, <2>3, <2>4 DEF StepInv
<1> QED
  BY <1>5, <1>6, <1>9, <1>10, QuietBuild

(* The group of a created directory is normalised, when its mode is.       *)
LEMMA NormalizeGroupStep ==
  ASSUME BuildsInv, NormalizeGroup
  PROVE  BuildsInv'
<1> USE DEF BuildsInv
<1>0. Here \in Dirs
  BY HereFacts DEF TypeOK
<1>1. /\ pc = "regroup" /\ Initialize /\ dir' = [dir EXCEPT ![Here].owner = "root"]
      /\ UNCHANGED <<filled, owner, secrets>>
  BY DEF NormalizeGroup
<1>2. /\ Interrupted(Here) \/ Inherited(Here)
      /\ at = 1 \/ AfterHome
      /\ \A d \in Before(at) : Complete(d)
      /\ dir[Here].mode = "0700"
  BY <1>1 DEF StepInv
<1>3. dir \in [Dirs -> Identity \union {Absent}] /\ dir[Here] # Absent
  BY <1>2, States DEF TypeOK, Interrupted
<1>4. dir[Here] \in Identity
  BY <1>0, <1>3
<1>5. [dir[Here] EXCEPT !.owner = "root"] = [owner |-> "root", mode |-> "0700"]
  BY <1>2, <1>4 DEF Identity
<1>6. dir' = [dir EXCEPT ![Here] = [owner |-> "root", mode |-> "0700"]]
  BY <1>0, <1>1, <1>3, <1>5
<1> QED
  BY <1>1, <1>2, <1>6, InitializeStep

(* An interrupted creation is taken up again.                              *)
LEMMA ResumeDirectoryStep ==
  ASSUME BuildsInv, ResumeDirectory
  PROVE  BuildsInv'
<1> USE DEF BuildsInv
<1>0. /\ at \in 1..6 /\ Here \in Dirs /\ (Here = "home" <=> at = 1)
      /\ (at # 1 => Here \in Below)
  BY HereFacts DEF TypeOK
<1>1. pc = "make" /\ Partial(Here) /\ UNCHANGED <<filled, owner, secrets>>
  BY DEF ResumeDirectory, Resumes
<1>2. (at = 1 \/ AfterHome) /\ \A d \in Before(at) : Complete(d)
  BY <1>1 DEF StepInv
<1>3. ~Open("home")
  BY <1>0, <1>1, <1>2, States, LayoutFacts DEF LayoutInv, OpenMeansComplete
<1>4. Empty(Here)
  <2>1. CASE at = 1
    BY <2>1, <1>0, <1>1, LayoutFacts DEF LayoutInv, Empty, Below
  <2>2. CASE at # 1
    BY <2>2, <1>0, <1>3, EmptyBelow
  <2> QED
    BY <2>1, <2>2
<1>5. Initialize /\ dir' = [dir EXCEPT ![Here].mode = "0700"]
  BY <1>4 DEF ResumeDirectory
<1>6. dir' = [dir EXCEPT ![Here] = [owner |-> "root", mode |-> "0700"]]
  <2>1. dir[Here] = [owner |-> "root", mode |-> "partial"] /\ dir \in [Dirs -> Identity \union {Absent}]
    BY <1>1 DEF Partial, TypeOK
  <2>2. [dir[Here] EXCEPT !.mode = "0700"] = [owner |-> "root", mode |-> "0700"]
    BY <2>1
  <2> QED
    BY <1>0, <1>5, <2>1, <2>2
<1>7. Interrupted(Here)
  BY <1>1 DEF Interrupted
<1> QED
  BY <1>1, <1>2, <1>5, <1>6, <1>7, InitializeStep

(* A private directory is given to the build account.                      *)
LEMMA OwnPrivateStep ==
  ASSUME BuildsInv, OwnPrivate
  PROVE  BuildsInv'
<1> USE DEF BuildsInv
<1>0. /\ at \in 1..6 /\ Here \in Dirs /\ (Here = "home" <=> at = 1) /\ (Here = "jobs" <=> at = 6)
      /\ (at # 1 => Here \in Below) /\ (at \notin {1, 6} => Here \in Privates)
  BY HereFacts DEF TypeOK
<1>1. pc = "own" /\ UNCHANGED <<filled, owner, secrets>>
  BY DEF OwnPrivate
<1>2. /\ AfterHome /\ Secured(Here) /\ Here \in Privates
      /\ \A d \in Before(at) : Complete(d)
  BY <1>1 DEF StepInv
<1>3. ~Open("home")
  BY <1>2, States DEF LayoutInv, OpenMeansComplete
<1>4. Empty(Here)
  BY <1>2, <1>3, EmptyBelow, LayoutFacts
<1>5. dir' = [dir EXCEPT ![Here].owner = "build"] /\ NextDirectory
  BY <1>4 DEF OwnPrivate
<1>6. dir \in [Dirs -> Identity \union {Absent}]
  BY DEF TypeOK
<1>7. dir'[Here] = [owner |-> "build", mode |-> "0700"] /\ \A d \in Dirs \ {Here} : dir'[d] = dir[d]
  BY <1>0, <1>2, <1>5, <1>6 DEF Secured
<1>8. UNCHANGED <<secured, job, failed>>
  BY <1>5, NextDirectoryFacts
<1>9. AfterHome'
  BY <1>0, <1>2, <1>7, <1>8, LayoutFacts DEF AfterHome, Secured, Open
<1>10. \A d \in Before(at) : Complete(d)'
  BY <1>2, <1>7, BeforeFacts, LayoutFacts DEF TypeOK, Complete, Open, Handed
<1>11. \A d \in Below : d = Here => Complete(d)'
  BY <1>2, <1>7, LayoutFacts DEF Complete, Handed
<1>12. StepInv' /\ pc' \in {"make", "finish"} /\ at' \in DOMAIN Layout
  BY <1>5, <1>8, <1>9, <1>10, <1>11, NextDirectoryStep
<1>13. TypeOK'
  <2>1. [owner |-> "build", mode |-> "0700"] \in Identity
    BY DEF Identity
  <2>2. dir' = [dir EXCEPT ![Here] = [owner |-> "build", mode |-> "0700"]]
    BY <1>0, <1>5, <1>6, <1>7
  <2>3. dir' \in [Dirs -> Identity \union {Absent}]
    BY <1>0, <1>6, <2>1, <2>2
  <2> QED
    BY <1>1, <1>8, <1>12, <2>3 DEF TypeOK, Labels
<1>14. LayoutInv'
  <2>1. ~Open("home")'
    BY <1>0, <1>2, <1>3, <1>7, LayoutFacts DEF Open
  <2>2. OpenMeansComplete'
    BY <1>1, <1>3, <2>1 DEF LayoutInv, OpenMeansComplete, Roots
  <2>3. Interrupted("home")' \/ Open("home")'
    BY <1>9 DEF AfterHome, Interrupted
  <2>4. \A d \in Below : dir'[d] = Absent \/ Interrupted(d)' \/ Complete(d)'
    BY <1>0, <1>7, <1>11, LayoutFacts DEF LayoutInv, Complete, Interrupted, Partial, Secured, Open, Handed
  <2>5. ~(dir'["home"] = Absent \/ Inherited("home")' \/ Partial("home")')
    BY <1>9 DEF AfterHome, Inherited, Partial, Secured, Open, Absent
  <2> QED
    BY <2>2, <2>3, <2>4, <2>5 DEF LayoutInv
<1> QED
  BY <1>1, <1>8, <1>12, <1>13, <1>14, QuietBuild

(* The directory of the jobs is opened.                                    *)
LEMMA OpenJobsBoundaryStep ==
  ASSUME BuildsInv, OpenJobsBoundary
  PROVE  BuildsInv'
<1> USE DEF BuildsInv
<1>0. at \in 1..6 /\ Here \in Dirs /\ (Here = "jobs" <=> at = 6)
  BY HereFacts DEF TypeOK
<1>1. pc = "open" /\ UNCHANGED <<filled, owner, secrets>>
  BY DEF OpenJobsBoundary
<1>2. /\ AfterHome /\ Secured("jobs") /\ Here = "jobs"
      /\ \A d \in Before(at) : Complete(d)
  BY <1>1 DEF StepInv
<1>3. ~Open("home")
  BY <1>2, States DEF LayoutInv, OpenMeansComplete
<1>4. Empty("jobs")
  BY <1>3, EmptyBelow, LayoutFacts
<1>5. dir' = [dir EXCEPT !["jobs"].mode = "open"] /\ NextDirectory
  BY <1>4 DEF OpenJobsBoundary
<1>6. dir \in [Dirs -> Identity \union {Absent}]
  BY DEF TypeOK
<1>7. dir'["jobs"] = [owner |-> "root", mode |-> "open"] /\ \A d \in Dirs \ {"jobs"} : dir'[d] = dir[d]
  BY <1>0, <1>2, <1>5, <1>6 DEF Secured
<1>8. UNCHANGED <<secured, job, failed>>
  BY <1>5, NextDirectoryFacts
<1>9. AfterHome'
  BY <1>2, <1>7, <1>8, LayoutFacts DEF AfterHome, Secured, Open
<1>10. \A d \in Before(at) : Complete(d)'
  BY <1>2, <1>7, BeforeFacts, LayoutFacts DEF TypeOK, Complete, Open, Handed
<1>11. \A d \in Below : d = Here => Complete(d)'
  BY <1>2, <1>7 DEF Complete, Open
<1>12. StepInv' /\ pc' \in {"make", "finish"} /\ at' \in DOMAIN Layout
  BY <1>5, <1>8, <1>9, <1>10, <1>11, NextDirectoryStep
<1>13. TypeOK'
  <2>1. [owner |-> "root", mode |-> "open"] \in Identity
    BY DEF Identity
  <2>2. dir' = [dir EXCEPT !["jobs"] = [owner |-> "root", mode |-> "open"]]
    BY <1>0, <1>2, <1>5, <1>6, <1>7
  <2>3. dir' \in [Dirs -> Identity \union {Absent}]
    BY <1>6, <2>1, <2>2
  <2> QED
    BY <1>1, <1>8, <1>12, <2>3 DEF TypeOK, Labels
<1>14. LayoutInv'
  <2>1. ~Open("home")'
    BY <1>3, <1>7, LayoutFacts DEF Open
  <2>2. OpenMeansComplete'
    BY <1>1, <1>3, <2>1 DEF LayoutInv, OpenMeansComplete, Roots
  <2>3. Interrupted("home")' \/ Open("home")'
    BY <1>9 DEF AfterHome, Interrupted
  <2>4. \A d \in Below : dir'[d] = Absent \/ Interrupted(d)' \/ Complete(d)'
    BY <1>2, <1>7, <1>11, LayoutFacts DEF LayoutInv, Complete, Interrupted, Partial, Secured, Open, Handed
  <2>5. ~(dir'["home"] = Absent \/ Inherited("home")' \/ Partial("home")')
    BY <1>9 DEF AfterHome, Inherited, Partial, Secured, Open, Absent
  <2> QED
    BY <2>2, <2>3, <2>4, <2>5 DEF LayoutInv
<1> QED
  BY <1>1, <1>8, <1>12, <1>13, <1>14, QuietBuild

(* The home is opened when everything in it is complete.                   *)
LEMMA FinishHomeStep ==
  ASSUME BuildsInv, FinishHome
  PROVE  BuildsInv'
<1> USE DEF BuildsInv
<1>1. /\ pc = "finish" /\ pc' = "sweep"
      /\ UNCHANGED <<at, secured, job, failed, filled, owner, secrets>>
  BY DEF FinishHome, Goto
<1>2. AfterHome /\ \A d \in Below : Complete(d)
  BY <1>1 DEF StepInv
<1>3. dir \in [Dirs -> Identity \union {Absent}]
  BY DEF TypeOK
<1>4. dir'["home"] = [owner |-> "root", mode |-> "open"] /\ \A d \in Below : dir'[d] = dir[d]
  <2>1. CASE secured
    <3>1. Secured("home")
      BY <1>2, <2>1 DEF AfterHome
    <3>2. dir' = [dir EXCEPT !["home"].mode = "open"]
      BY <2>1 DEF FinishHome
    <3> QED
      BY <1>3, <3>1, <3>2, LayoutFacts DEF Secured
  <2>2. CASE ~secured
    <3>1. Open("home")
      BY <1>2, <2>2 DEF AfterHome
    <3>2. dir' = dir
      BY <2>2 DEF FinishHome
    <3> QED
      BY <3>1, <3>2 DEF Open
  <2> QED
    BY <2>1, <2>2
<1>5. TypeOK'
  <2>1. [owner |-> "root", mode |-> "open"] \in Identity
    BY DEF Identity
  <2>2. dir' = [dir EXCEPT !["home"] = [owner |-> "root", mode |-> "open"]]
    <3>1. CASE secured
      BY <1>2, <1>3, <1>4, <3>1, LayoutFacts DEF FinishHome
    <3>2. CASE ~secured
      BY <1>3, <1>4, <3>2, LayoutFacts DEF FinishHome
    <3> QED
      BY <3>1, <3>2
  <2>3. dir' \in [Dirs -> Identity \union {Absent}]
    BY <1>3, <2>1, <2>2
  <2> QED
    BY <1>1, <2>3 DEF TypeOK, Labels
<1>6. Open("home")' /\ \A d \in Below : Complete(d)'
  BY <1>2, <1>4 DEF Open, Complete, Handed
<1>7. LayoutInv'
  <2>1. OpenMeansComplete'
    BY <1>6, LayoutFacts DEF OpenMeansComplete, Complete
  <2>2. ~(dir'["home"] = Absent \/ Inherited("home")' \/ Partial("home")')
    BY <1>4 DEF Absent, Inherited, Partial
  <2> QED
    BY <1>6, <2>1, <2>2 DEF LayoutInv
<1>8. StepInv'
  BY <1>1, <1>6 DEF StepInv
<1> QED
  BY <1>1, <1>5, <1>7, <1>8, QuietBuild

(* A step that leaves the disk alone leaves the layout as it is.            *)
LEMMA LayoutFrame ==
  ASSUME LayoutInv, UNCHANGED disk
  PROVE  LayoutInv' /\ \A d \in Dirs : Complete(d) => Complete(d)'
BY DEF LayoutInv, OpenMeansComplete, disk, Complete, Inherited, Interrupted, Partial, Secured,
   Open, Handed, Roots

(* What is found is refused only if it has an inherited group.             *)
LEMMA OpenExistingStep ==
  ASSUME BuildsInv, OpenHome \/ OpenPrivate \/ OpenJobs \/ ValidateHomeEntries
  PROVE  BuildsInv'
<1> USE DEF BuildsInv
<1>0. /\ at \in 1..6 /\ Here \in Dirs /\ (Here = "home" <=> at = 1) /\ (Here = "jobs" <=> at = 6)
      /\ (at # 1 => Here \in Below) /\ (at \notin {1, 6} => Here \in Privates)
  BY HereFacts DEF TypeOK
<1>1. UNCHANGED disk /\ LayoutInv' /\ (\A d \in Dirs : Complete(d) => Complete(d)')
  BY LayoutFrame DEF OpenHome, OpenPrivate, OpenJobs, ValidateHomeEntries
<1>2. Before(at) \subseteq Dirs /\ Before(1) = {} /\ Below \subseteq Dirs
  BY BeforeFacts, LayoutFacts DEF TypeOK
<1>3. ASSUME AfterHome, UNCHANGED secured
      PROVE  AfterHome'
  BY <1>1, <1>3 DEF AfterHome, Secured, Open, disk
<1>4. ASSUME NextDirectory, AfterHome, \A d \in Before(at) : Complete(d), at # 1 => Complete(Here)
      PROVE  BuildsInv'
  <2>1. UNCHANGED <<secured, job, failed>>
    BY <1>4, NextDirectoryFacts
  <2>2. \A d \in Before(at) : Complete(d)'
    BY <1>1, <1>2, <1>4
  <2>3. \A d \in Below : d = Here => Complete(d)'
    BY <1>0, <1>1, <1>2, <1>4, LayoutFacts
  <2>4. AfterHome'
    BY <1>3, <1>4, <2>1
  <2>5. StepInv' /\ pc' \in {"make", "finish"} /\ at' \in DOMAIN Layout
    BY <1>4, <2>1, <2>2, <2>3, <2>4, NextDirectoryStep
  <2>6. TypeOK'
    BY <1>1, <2>1, <2>5 DEF TypeOK, disk, Labels
  <2> QED
    BY <1>1, <2>1, <2>5, <2>6, QuietBuild DEF disk
<1>6. CASE OpenHome
  <2>1. pc = "make" /\ at = 1 /\ dir["home"] # Absent /\ ~Partial("home")
    BY <1>0, <1>6 DEF OpenHome, Resumes
  <2>2. Inherited("home") \/ Open("home") \/ Secured("home")
    BY <2>1 DEF LayoutInv, Interrupted
  <2>3. CASE Inherited("home")
    <3>1. pc' = "refused" /\ UNCHANGED <<at, secured, job, failed>>
      BY <1>6, <2>3, States DEF OpenHome, Goto, Interrupted
    <3>2. StepInv'
      BY <1>1, <2>3, <3>1 DEF StepInv, Inherited, disk
    <3>3. TypeOK'
      BY <1>1, <3>1 DEF TypeOK, disk, Labels
    <3> QED
      BY <1>1, <3>1, <3>2, <3>3, QuietBuild DEF disk
  <2>4. CASE Open("home") \/ Secured("home")
    <3>1. pc' = "validate" /\ secured' = Secured("home") /\ UNCHANGED <<at, job, failed>>
      BY <1>6, <2>4 DEF OpenHome
    <3>2. AfterHome'
      BY <1>1, <2>4, <3>1 DEF AfterHome, Secured, Open, disk
    <3>3. StepInv'
      BY <2>1, <3>1, <3>2 DEF StepInv
    <3>4. TypeOK'
      BY <1>1, <3>1 DEF TypeOK, disk, Labels, Secured
    <3> QED
      BY <1>1, <3>1, <3>3, <3>4, QuietBuild DEF disk
  <2> QED
    BY <2>2, <2>3, <2>4
<1>7. CASE OpenPrivate
  <2>1. pc = "make" /\ Here \in Privates /\ dir[Here] # Absent /\ ~Partial(Here) /\ at # 1
    BY <1>0, <1>7, LayoutFacts DEF OpenPrivate, Resumes
  <2>2. AfterHome /\ \A d \in Before(at) : Complete(d)
    BY <2>1 DEF StepInv
  <2>3. Secured(Here) \/ Handed(Here)
    BY <1>0, <2>1, LayoutFacts DEF LayoutInv, Interrupted, Complete
  <2>4. CASE Handed(Here)
    BY <1>4, <1>7, <2>1, <2>2, <2>4, LayoutFacts DEF OpenPrivate, Complete
  <2>5. CASE ~Handed(Here)
    <3>1. ~Open("home")
      BY <2>1, <2>5 DEF LayoutInv, OpenMeansComplete
    <3>2. Empty(Here)
      BY <1>0, <2>1, <3>1, EmptyBelow
    <3>3. pc' = "own" /\ UNCHANGED <<at, secured, job, failed>>
      BY <1>7, <2>3, <2>5, <3>2 DEF OpenPrivate, Goto
    <3>4. Secured(Here)' /\ Here' = Here
      BY <1>1, <2>3, <2>5, <3>3 DEF Secured, Here, disk
    <3>5. StepInv'
      BY <1>1, <1>2, <1>3, <2>1, <2>2, <3>3, <3>4 DEF StepInv
    <3>6. TypeOK'
      BY <1>1, <3>3 DEF TypeOK, disk, Labels
    <3> QED
      BY <1>1, <3>3, <3>5, <3>6, QuietBuild DEF disk
  <2> QED
    BY <2>4, <2>5
<1>8. CASE OpenJobs
  <2>1. pc = "make" /\ Here = "jobs" /\ dir["jobs"] # Absent /\ ~Partial("jobs") /\ at = 6
    BY <1>0, <1>8 DEF OpenJobs, Resumes
  <2>2. AfterHome /\ \A d \in Before(at) : Complete(d)
    BY <2>1 DEF StepInv
  <2>3. Secured("jobs") \/ Open("jobs")
    BY <2>1, LayoutFacts DEF LayoutInv, Interrupted, Complete
  <2>4. secured \/ Secured("jobs") => Empty("jobs")
    BY <2>2, States, EmptyBelow, LayoutFacts DEF LayoutInv, OpenMeansComplete, AfterHome
  <2>5. IF Secured("jobs") THEN Goto("open") ELSE NextDirectory
    BY <1>8, <2>3, <2>4 DEF OpenJobs
  <2>6. CASE ~Secured("jobs")
    BY <1>4, <2>1, <2>2, <2>3, <2>5, <2>6 DEF Complete
  <2>7. CASE Secured("jobs")
    <3>1. pc' = "open" /\ UNCHANGED <<at, secured, job, failed>>
      BY <2>5, <2>7 DEF Goto
    <3>2. Secured(Here)' /\ Here' = Here
      BY <1>1, <2>1, <2>7, <3>1 DEF Secured, Here, disk
    <3>3. StepInv'
      BY <1>1, <1>2, <1>3, <2>1, <2>2, <3>1, <3>2 DEF StepInv
    <3>4. TypeOK'
      BY <1>1, <3>1 DEF TypeOK, disk, Labels
    <3> QED
      BY <1>1, <3>1, <3>3, <3>4, QuietBuild DEF disk
  <2> QED
    BY <2>6, <2>7
<1>9. CASE ValidateHomeEntries
  <2>1. pc = "validate" /\ at = 1 /\ AfterHome
    BY <1>9 DEF ValidateHomeEntries, StepInv
  <2>2. ASSUME NEW d \in Below, dir[d] # Absent
        PROVE  Accepted(d)
    <3>1. Interrupted(d) \/ Complete(d)
      BY <2>2 DEF LayoutInv
    <3>2. Open("home") => Complete(d) /\ ~secured
      BY <2>1, <2>2, States, LayoutFacts DEF LayoutInv, OpenMeansComplete, Complete, AfterHome
    <3>3. ~Open("home") => Empty(d)
      BY EmptyBelow
    <3>4. d \in Privates \/ d = "jobs"
      BY LayoutFacts
    <3> QED
      BY <3>1, <3>2, <3>3, <3>4, LayoutFacts DEF Accepted, Complete
  <2>3. NextDirectory
    BY <1>9, <2>2 DEF ValidateHomeEntries, Below
  <2> QED
    BY <1>2, <1>4, <2>1, <2>3
<1> QED
  BY <1>6, <1>7, <1>8, <1>9

--------------------------------------------------------------------------------
(* The build *)

Building == {"sweep", "erase", "root", "chown", "furnish", "configure", "cargo", "clear",
             "conceal", "inspect", "install", "drop"}

(* Once the home is open, a step that leaves the directories alone keeps   *)
(* the layout, wherever it goes.                                           *)
LEMMA OpenFrame ==
  ASSUME TypeOK, LayoutInv, Open("home"), UNCHANGED <<dir, at>>,
         pc' \in Building \union {"stuck"} \/ (pc' = "free" /\ at = 1)
  PROVE  LayoutInv' /\ StepInv'
<1>1. Open("jobs") /\ \A d \in Privates : Handed(d)
  BY DEF LayoutInv, OpenMeansComplete
<1>2. LayoutInv'
  <2>1. OpenMeansComplete'
    BY <1>1 DEF OpenMeansComplete, Open, Handed
  <2> QED
    BY <2>1 DEF LayoutInv, Complete, Inherited, Interrupted, Partial, Secured, Open, Handed
<1>3. StepInv'
  BY DEF StepInv, Open, Building
<1> QED
  BY <1>2, <1>3

LEMMA SweepStep ==
  ASSUME BuildsInv, Sweep
  PROVE  BuildsInv'
<1> USE DEF BuildsInv
<1>1. pc = "sweep" /\ Open("home") /\ UNCHANGED <<dir, filled, owner, secrets>>
  BY DEF Sweep, disk, StepInv
<1>2. /\ pc' \in {"root", "stuck", "erase"}
      /\ UNCHANGED <<at, secured, job, failed>>
      /\ pc' = "root" => Roots = {}
  BY DEF Sweep, Goto
<1>3. TypeOK'
  BY <1>1, <1>2 DEF TypeOK, Labels
<1>4. LayoutInv' /\ StepInv'
  BY <1>1, <1>2, OpenFrame DEF Building
<1>5. BuildInv'
  BY <1>1, <1>2 DEF BuildInv, OneJobRoot, StagedProgramSeesNoSecrets, Roots
<1> QED
  BY <1>3, <1>4, <1>5

(* Removing a secret, or a root with none.                                 *)
LEMMA EraseStep ==
  ASSUME BuildsInv, NEW j \in Jobs, NEW label \in {"sweep", "drop"},
         pc = "erase" \/ pc = "drop",
         pc = "erase" => label = "sweep",
         pc = "drop" => label = "drop" /\ j = job,
         EraseSecret(j) \/ EraseRoot(j, label)
  PROVE  BuildsInv'
<1> USE DEF BuildsInv
<1>1. Open("home")
  BY DEF StepInv
<1>2. CASE EraseSecret(j)
  <2>1. PICK s \in secrets[j] : secrets' = [secrets EXCEPT ![j] = @ \ {s}]
    BY <1>2 DEF EraseSecret
  <2>2. UNCHANGED <<pc, at, secured, job, failed, dir, filled, owner>>
    BY <1>2 DEF EraseSecret
  <2>3. /\ secrets' \in [Jobs -> SUBSET Secrets]
        /\ \A k \in Jobs : secrets'[k] \subseteq secrets[k]
    BY <2>1 DEF TypeOK
  <2>4. TypeOK'
    BY <2>2, <2>3 DEF TypeOK
  <2>5. LayoutInv' /\ StepInv'
    BY <1>1, <2>2, OpenFrame DEF Building
  <2>6. BuildInv'
    BY <2>2, <2>3 DEF BuildInv, OneJobRoot, StagedProgramSeesNoSecrets, Roots
  <2> QED
    BY <2>4, <2>5, <2>6
<1>3. CASE EraseRoot(j, label)
  <2>1. /\ secrets[j] = {} /\ owner' = [owner EXCEPT ![j] = "nobody"] /\ pc' = label
        /\ UNCHANGED <<at, secured, job, failed, dir, filled, secrets>>
    BY <1>3 DEF EraseRoot, Goto
  <2>2. owner' \in [Jobs -> {"nobody", "root", "build"}] /\ Roots' \subseteq Roots
    BY <2>1 DEF TypeOK, Roots
  <2>3. TypeOK'
    BY <2>1, <2>2 DEF TypeOK, Labels
  <2>4. LayoutInv' /\ StepInv'
    BY <1>1, <2>1, OpenFrame DEF Building
  <2>5. \A k \in Jobs : secrets'[k] # {} => owner'[k] = "build"
    BY <2>1 DEF BuildInv, TypeOK
  <2>6. BuildInv'
    BY <2>1, <2>2, <2>5 DEF BuildInv, OneJobRoot, StagedProgramSeesNoSecrets
  <2> QED
    BY <2>3, <2>4, <2>6
<1> QED
  BY <1>2, <1>3

LEMMA PrepareStep ==
  ASSUME BuildsInv, MakeRoot \/ OwnRoot \/ Furnish
  PROVE  BuildsInv'
<1> USE DEF BuildsInv
<1>0. pc \in {"root", "chown", "furnish"} /\ Open("home")
  BY DEF MakeRoot, OwnRoot, Furnish, StepInv
<1>1. UNCHANGED <<dir, secrets, at, secured, job, failed>>
  BY DEF MakeRoot, OwnRoot, Furnish, Goto
<1>2. CASE MakeRoot
  <2>1. Roots = {} /\ job \notin Roots /\ pc = "root" /\ UNCHANGED filled
    BY <1>2 DEF MakeRoot, BuildInv
  <2>2. owner' = [owner EXCEPT ![job] = "root"] /\ pc' = "chown"
    BY <1>2, <2>1 DEF MakeRoot, Goto
  <2>3. Roots' = {job}
    BY <2>1, <2>2 DEF Roots, TypeOK
  <2>4. \A k \in Jobs : secrets[k] = {}
    BY <2>1 DEF BuildInv, Roots
  <2>5. TypeOK'
    BY <1>1, <2>1, <2>2 DEF TypeOK, Labels
  <2>6. LayoutInv' /\ StepInv'
    BY <1>0, <1>1, <2>2, OpenFrame DEF Building
  <2>7. BuildInv'
    BY <1>1, <2>2, <2>3, <2>4 DEF BuildInv, OneJobRoot, StagedProgramSeesNoSecrets, TypeOK
  <2> QED
    BY <2>5, <2>6, <2>7
<1>3. CASE OwnRoot
  <2>1. Roots = {job} /\ pc = "chown" /\ UNCHANGED filled
    BY <1>3 DEF OwnRoot, BuildInv
  <2>2. owner' = [owner EXCEPT ![job] = "build"] /\ pc' = "furnish"
    BY <1>3 DEF OwnRoot, Goto
  <2>3. Roots' = {job}
    BY <2>1, <2>2 DEF Roots, TypeOK
  <2>4. TypeOK'
    BY <1>1, <2>1, <2>2 DEF TypeOK, Labels
  <2>5. LayoutInv' /\ StepInv'
    BY <1>0, <1>1, <2>2, OpenFrame DEF Building
  <2>6. \A k \in Jobs : secrets'[k] # {} => owner'[k] = "build"
    BY <1>1, <2>2 DEF BuildInv, TypeOK
  <2>7. BuildInv'
    BY <1>1, <2>1, <2>2, <2>3, <2>6 DEF TypeOK, BuildInv, OneJobRoot, StagedProgramSeesNoSecrets
  <2> QED
    BY <2>4, <2>5, <2>7
<1>4. CASE Furnish
  <2>1. pc = "furnish" /\ pc' = "configure" /\ UNCHANGED owner /\ filled' = filled \union {"cache"}
    BY <1>4 DEF Furnish, Goto
  <2>2. TypeOK'
    BY <1>1, <2>1, LayoutFacts DEF TypeOK, Labels
  <2>3. LayoutInv' /\ StepInv'
    BY <1>0, <1>1, <2>1, OpenFrame DEF Building
  <2>4. BuildInv'
    BY <1>1, <2>1 DEF BuildInv, OneJobRoot, StagedProgramSeesNoSecrets, Roots
  <2> QED
    BY <2>2, <2>3, <2>4
<1> QED
  BY <1>2, <1>3, <1>4

(* While a build is under way its root is the only one, so the secrets of  *)
(* its job are all there are.                                               *)
LEMMA OwnSecrets ==
  ASSUME BuildsInv, Roots = {job}, NEW k \in Jobs, secrets[k] # {}
  PROVE  k = job
BY DEF BuildsInv, BuildInv, Roots

LEMMA CompileStep ==
  ASSUME BuildsInv, Compile
  PROVE  BuildsInv'
<1> USE DEF BuildsInv
<1>0. /\ pc \in {"configure", "cargo", "clear", "conceal", "inspect", "install"}
      /\ Open("home") /\ Roots = {job} /\ job \in Jobs
  BY DEF Compile, Configure, RunCargo, ClearBuildOutput, Conceal, Inspect, Install, BuildFails,
         StepInv, BuildInv, TypeOK
<1>1. UNCHANGED <<dir, owner, at, secured, job>>
  BY DEF Compile, Configure, RunCargo, ClearBuildOutput, Conceal, Concealed, Inspect, Install,
         BuildFails, Goto, disk
<1>2. owner[job] = "build"
  BY <1>0 DEF BuildInv
<1>3. Roots' = Roots
  BY <1>1 DEF Roots
<1>4. CASE Configure
  <2>1. pc = "configure" /\ filled' = filled \union {"cargo-tools", "rustup"}
    BY <1>4 DEF Configure
  <2>2. pc' \in {"configure", "cargo"} /\ UNCHANGED failed
    BY <1>4 DEF Configure, Goto
  <2>3. secrets' \in [Jobs -> SUBSET Secrets] /\ \A k \in Jobs \ {job} : secrets'[k] = secrets[k]
    BY <1>0, <1>4 DEF Configure, TypeOK, Secrets
  <2>4. TypeOK'
    BY <1>1, <2>1, <2>2, <2>3, LayoutFacts DEF TypeOK, Labels
  <2>5. LayoutInv' /\ StepInv'
    BY <1>0, <1>1, <2>2, OpenFrame DEF Building
  <2>7. BuildInv'
    BY <1>0, <1>1, <1>2, <1>3, <2>2, <2>3 DEF BuildInv, OneJobRoot, StagedProgramSeesNoSecrets
  <2> QED
    BY <2>4, <2>5, <2>7
<1>5. CASE RunCargo \/ ClearBuildOutput
  <2>1. /\ pc' \in {"clear", "conceal"} /\ failed' \in BOOLEAN /\ UNCHANGED secrets
        /\ filled' \subseteq Privates
    BY <1>5, LayoutFacts DEF RunCargo, ClearBuildOutput, TypeOK
  <2>2. TypeOK'
    BY <1>1, <2>1 DEF TypeOK, Labels
  <2>3. LayoutInv' /\ StepInv'
    BY <1>0, <1>1, <2>1, OpenFrame DEF Building
  <2>4. BuildInv'
    BY <1>0, <1>1, <1>2, <1>3, <2>1 DEF BuildInv, OneJobRoot, StagedProgramSeesNoSecrets
  <2> QED
    BY <2>2, <2>3, <2>4
<1>6. CASE Conceal
  <2>1. pc = "conceal" /\ UNCHANGED filled
    BY <1>6 DEF Conceal
  <2>2. CASE secrets[job] = {}
    <3>1. UNCHANGED <<secrets, failed>> /\ pc' \in {"drop", "inspect"}
      BY <1>6, <2>2 DEF Conceal, Concealed, Goto
    <3>2. \A k \in Jobs : secrets'[k] = {}
      BY <1>0, <2>2, <3>1, OwnSecrets
    <3>3. TypeOK'
      BY <1>1, <2>1, <3>1 DEF TypeOK, Labels
    <3>4. LayoutInv' /\ StepInv'
      BY <1>0, <1>1, <3>1, OpenFrame DEF Building
    <3>5. BuildInv'
      BY <1>0, <1>1, <1>2, <1>3, <3>1, <3>2 DEF BuildInv, OneJobRoot, StagedProgramSeesNoSecrets
    <3> QED
      BY <3>3, <3>4, <3>5
  <2>3. CASE secrets[job] # {}
    <3>1. pc' = "conceal" /\ UNCHANGED failed
      BY <1>6, <2>3 DEF Conceal, Goto
    <3>2. secrets' \in [Jobs -> SUBSET Secrets] /\ \A k \in Jobs \ {job} : secrets'[k] = secrets[k]
      BY <1>0, <1>6, <2>3 DEF Conceal, TypeOK
    <3>3. TypeOK'
      BY <1>1, <2>1, <3>1, <3>2 DEF TypeOK, Labels
    <3>4. LayoutInv' /\ StepInv'
      BY <1>0, <1>1, <3>1, OpenFrame DEF Building
    <3>5. BuildInv'
      BY <1>0, <1>1, <1>2, <1>3, <3>1, <3>2 DEF BuildInv, OneJobRoot, StagedProgramSeesNoSecrets
    <3> QED
      BY <3>3, <3>4, <3>5
  <2> QED
    BY <2>2, <2>3
<1>7. CASE Inspect \/ Install \/ BuildFails
  <2>1. UNCHANGED <<filled, secrets, failed>> /\ pc' \in {"install", "drop"}
    BY <1>7 DEF Inspect, Install, BuildFails, Goto, disk
  <2>2. pc' = "install" => pc = "inspect"
    BY <1>7 DEF Inspect, Install, BuildFails, Goto
  <2>3. TypeOK'
    BY <1>1, <2>1 DEF TypeOK, Labels
  <2>4. LayoutInv' /\ StepInv'
    BY <1>0, <1>1, <2>1, OpenFrame DEF Building
  <2>5. BuildInv'
    BY <1>0, <1>1, <1>2, <1>3, <2>1, <2>2 DEF BuildInv, OneJobRoot, StagedProgramSeesNoSecrets
  <2> QED
    BY <2>3, <2>4, <2>5
<1> QED
  BY <1>4, <1>5, <1>6, <1>7 DEF Compile

LEMMA UnlockStep ==
  ASSUME BuildsInv, Unlock, UNCHANGED disk
  PROVE  BuildsInv'
<1> USE DEF BuildsInv
<1>1. pc' = "free" /\ at' = 1 /\ secured' = FALSE /\ failed' = FALSE /\ UNCHANGED job
  BY DEF Unlock
<1>2. TypeOK'
  <2>1. 1 \in DOMAIN Layout
    BY LayoutFacts
  <2> QED
    BY <1>1, <2>1 DEF TypeOK, disk, Labels
<1>3. LayoutInv'
  BY LayoutFrame
<1>4. StepInv'
  BY <1>1 DEF StepInv
<1> QED
  BY <1>1, <1>2, <1>3, <1>4, QuietBuild DEF disk

LEMMA AcquireStep ==
  ASSUME BuildsInv, Acquire
  PROVE  BuildsInv'
<1> USE DEF BuildsInv
<1>1. /\ pc = "free" /\ pc' = "make" /\ at = 1 /\ job' \in Jobs
      /\ UNCHANGED <<at, secured, failed, disk>>
  BY DEF Acquire, StepInv
<1>2. TypeOK'
  BY <1>1 DEF TypeOK, disk, Labels
<1>3. LayoutInv'
  BY <1>1, LayoutFrame
<1>4. Before(1) = {}
  BY BeforeFacts DEF TypeOK
<1>5. StepInv'
  BY <1>1, <1>4 DEF StepInv
<1>6. BuildInv'
  BY <1>1 DEF BuildInv, OneJobRoot, StagedProgramSeesNoSecrets, Roots, disk
<1> QED
  BY <1>2, <1>3, <1>5, <1>6

(* Every step keeps the invariant.                                         *)
LEMMA NextInv == BuildsInv /\ [Next]_vars => BuildsInv'
<1> SUFFICES ASSUME BuildsInv, [Next]_vars
             PROVE  BuildsInv'
  OBVIOUS
<1>1. CASE Acquire
  BY <1>1, AcquireStep
<1>2. CASE EnsureLayout
  BY <1>2, MakeDirectoryStep, ResumeDirectoryStep, NormalizeStep, NormalizeGroupStep,
     OpenExistingStep, OwnPrivateStep, OpenJobsBoundaryStep, FinishHomeStep DEF EnsureLayout
<1>3. CASE Prepare
  <2>1. CASE EraseOrphan
    <3>1. PICK j \in Roots : EraseSecret(j) \/ EraseRoot(j, "sweep")
      BY <2>1 DEF EraseOrphan
    <3> QED
      BY <2>1, <3>1, EraseStep DEF EraseOrphan, Roots
  <2> QED
    BY <1>3, <2>1, SweepStep, PrepareStep DEF Prepare
<1>4. CASE Compile
  BY <1>4, CompileStep
<1>5. CASE DropBuild
  BY <1>5, EraseStep, UnlockStep DEF DropBuild, BuildsInv, TypeOK
<1>6. CASE Abandon
  BY <1>6, UnlockStep DEF Abandon
<1>7. CASE UNCHANGED vars
  BY <1>7 DEF vars, disk, memory, BuildsInv, TypeOK, LayoutInv, OpenMeansComplete, StepInv, AfterHome,
     BuildInv, OneJobRoot, StagedProgramSeesNoSecrets, LayoutResumes, Roots, Here, Complete,
     Inherited, Interrupted, Partial, Secured, Open, Handed
<1> QED
  BY <1>1, <1>2, <1>3, <1>4, <1>5, <1>6, <1>7 DEF Next

THEOREM BuildsInvariant == Spec => []BuildsInv
BY InitInv, NextInv, PTL DEF Spec

--------------------------------------------------------------------------------

(* The variables of the build account's home keep their types, for any     *)
(* jobs (BuildAccount::ensure, ManagedBuild).                               *)
THEOREM TypeCorrect == Spec => []TypeOK
<1>1. BuildsInv => TypeOK
  BY DEF BuildsInv
<1> QED
  BY <1>1, BuildsInvariant, PTL

(* ensure_layout accepts what any number of interruptions of it leave, but  *)
(* for a new directory that still has the group it inherited.               *)
THEOREM InterruptionsAreAccepted == Spec => []LayoutResumes
<1>1. BuildsInv => LayoutResumes
  BY LayoutFacts DEF BuildsInv, StepInv, LayoutResumes
<1> QED
  BY <1>1, BuildsInvariant, PTL

(* The build account enters a home that is complete, and only then is       *)
(* anything put there.                                                      *)
THEOREM HomeIsComplete == Spec => []OpenMeansComplete
<1>1. BuildsInv => OpenMeansComplete
  BY DEF BuildsInv, LayoutInv
<1> QED
  BY <1>1, BuildsInvariant, PTL

(* remove_orphaned_jobs leaves no root of another job beside a build.        *)
THEOREM RootsAreSingle == Spec => []OneJobRoot
<1>1. BuildsInv => OneJobRoot
  BY DEF BuildsInv, BuildInv
<1> QED
  BY <1>1, BuildsInvariant, PTL

(* The staged program is run with no registry secret left, of any job.      *)
THEOREM SecretsAreGone == Spec => []StagedProgramSeesNoSecrets
<1>1. BuildsInv => StagedProgramSeesNoSecrets
  BY DEF BuildsInv, BuildInv
<1> QED
  BY <1>1, BuildsInvariant, PTL

(* ensure_layout never changes the owner or the mode of a directory that    *)
(* has been used: as long as anything is in the home, it is open, and then   *)
(* every directory is complete.                                             *)
THEOREM UsedDirectoriesAreKept == Spec => NothingTakenOver
<1>1. BuildsInv /\ [Next]_vars =>
        [\A d \in Dirs : dir'[d] # dir[d] => dir[d] = Absent \/ Bare(d)]_vars
  <2> SUFFICES ASSUME BuildsInv, [Next]_vars, NEW d \in Dirs, dir'[d] # dir[d]
               PROVE  Bare(d)
    OBVIOUS
  <2>1. CASE ~Open("home")
    <3>1. filled = {} /\ Roots = {}
      BY <2>1 DEF BuildsInv, LayoutInv, OpenMeansComplete
    <3> QED
      BY <3>1 DEF Bare
  <2>2. CASE Open("home")
    <3>1. Next
      BY DEF vars, disk
    <3>2. MakeDirectory \/ ResumeDirectory \/ Normalize \/ NormalizeGroup \/ OwnPrivate \/ OpenJobsBoundary \/ FinishHome
      BY <3>1 DEF Next, Acquire, EnsureLayout, OpenHome, OpenPrivate, OpenJobs,
         ValidateHomeEntries, Prepare, Sweep, EraseOrphan, EraseSecret, EraseRoot, MakeRoot,
         OwnRoot, Furnish, Compile, Configure, RunCargo, ClearBuildOutput, Conceal, Inspect,
         Install, BuildFails, DropBuild, Abandon, disk
    <3>3. Open(d) \/ Handed(d)
      BY <2>2, LayoutFacts DEF BuildsInv, LayoutInv, OpenMeansComplete
    <3>4. at \in 1..6 /\ Here \in Dirs /\ (Here = "home" <=> at = 1)
      BY HereFacts DEF BuildsInv, TypeOK
    <3>5. Open(Here) \/ Handed(Here)
      BY <2>2, <3>4, LayoutFacts DEF BuildsInv, LayoutInv, OpenMeansComplete
    <3>6. /\ ~MakeDirectory /\ ~ResumeDirectory /\ ~Normalize /\ ~NormalizeGroup
          /\ ~OwnPrivate /\ ~OpenJobsBoundary
      BY <3>5, States DEF MakeDirectory, ResumeDirectory, Resumes, Normalize, NormalizeGroup,
         OwnPrivate, OpenJobsBoundary, BuildsInv, StepInv, Interrupted
    <3>7. FinishHome /\ ~secured
      <4>1. FinishHome
        BY <3>2, <3>6
      <4>2. AfterHome
        BY <4>1 DEF FinishHome, BuildsInv, StepInv
      <4> QED
        BY <4>1, <4>2, <2>2, States DEF AfterHome
    <3> QED
      BY <3>7 DEF FinishHome
  <2> QED
    BY <2>1, <2>2
<1> QED
  BY <1>1, BuildsInvariant, PTL DEF Spec, NothingTakenOver

================================================================================
