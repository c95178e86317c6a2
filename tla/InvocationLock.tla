----------------------------- MODULE InvocationLock ----------------------------
(***************************************************************************)
(* The lock of a tool's invocations (capulus/src/lock.rs).                 *)
(*                                                                         *)
(* A tool holds an advisory lock on its lock file while it runs and writes *)
(* its process number into it.  The children that it configures inherit a  *)
(* token with which they pass the lock of the same tool; a lock taken by   *)
(* name is never passed.                                                   *)
(***************************************************************************)
EXTENDS Naturals

CONSTANTS
  Processes,  \* the processes that ever run
  Tools,      \* the tools, each with a lock file
  Nobody,     \* no process
  NoTool      \* no tool

ASSUME InvocationLockAssumption == Nobody \notin Processes /\ NoTool \notin Tools

VARIABLES
  holder,   \* holder[t]: the process that has the lock of tool t
  pid,      \* pid[t]: the process that the lock file of t names
  env,      \* env[p]: the tool of the bypass token in the environment of p
  token,    \* token[p]: the ACTIVE_BYPASS_TOKEN of p, which is set once
  display   \* display[p]: what p shows while it waits

lock == <<holder, pid, env, token, display>>

(* How a wait is shown: in the Ui that the caller gave, as a spinner on a  *)
(* terminal, or as a line that is printed once.                            *)
Displays == {"task", "spinner", "notice"}

Bypasses(p, t) == env[p] = t

(* The token is recorded before the lock is had, and never replaced.       *)
Remember(p, t) == token' = [token EXCEPT ![p] = IF @ = NoTool THEN t ELSE @]

\* mutant: the child is started without the token
ConfigureNothing(p, c) == UNCHANGED env

(* configure_child_command                                                 *)
ConfigureChild(p, c) == env' = [env EXCEPT ![c] = token[p]]

\* mutant: the lock is taken from whoever has it
FreeAlways(t) == TRUE

Free(t) == holder[t] = Nobody

TryLock(p, t) ==
  /\ Free(t)
  /\ holder' = [holder EXCEPT ![t] = p]

(* File::drop, or the end of the process: its locks are free.              *)
Unlock(p) == holder' = [t \in Tools |-> IF holder[t] = p THEN Nobody ELSE holder[t]]

(* write_lock_metadata empties the file first, so that it names nobody     *)
(* when the rest fails.                                                    *)
WriteMetadata(p, t) == pid' = [pid EXCEPT ![t] = p]
EmptyMetadata(t)    == pid' = [pid EXCEPT ![t] = Nobody]

(* LockWaitUi: what is shown stays until it is cleared, except that the    *)
(* notice is a line like any other.                                        *)
Show(p, how) == display' = [display EXCEPT ![p] = how]

\* mutant: the wait is shown until the process ends
ClearNothing(p) == UNCHANGED display

Clear(p) == display' = [display EXCEPT ![p] = IF @ = "notice" THEN @ ELSE "none"]

================================================================================
