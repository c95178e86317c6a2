--------------------------- MODULE RequestRateLimiter --------------------------
(***************************************************************************)
(* The budgets of the management server's peers                            *)
(* (capulus/src/managed/server.rs, RequestRateLimiter): a uid has a window  *)
(* of one minute, from the first of its requests in it, and so many        *)
(* requests in a window.  So many windows are kept and no more.            *)
(***************************************************************************)
EXTENDS Naturals, FiniteSets

CONSTANTS
  Uids,
  MaximumRequests,  \* maximum_requests
  MaximumUids,      \* maximum_uids
  Minute            \* WINDOW, in ticks of the clock

ASSUME LimiterAssumption ==
  /\ IsFiniteSet(Uids)
  /\ MaximumRequests \in Nat \ {0}
  /\ MaximumUids \in Nat \ {0}
  /\ Minute \in Nat \ {0}

VARIABLE windows   \* windows[u]: how long ago it was started, and its requests

Windows   == [age : 0..Minute, requests : 0..MaximumRequests]
Untracked == [age |-> 0, requests |-> 0]
Started   == [age |-> 0, requests |-> 1]

Tracked(ws) == {u \in Uids : ws[u] # Untracked}

Live(u) == windows[u] # Untracked /\ windows[u].age < Minute

\* mutant of Retained
RetainedForAll == windows

(* The windows that are not over.                                          *)
Retained == [u \in Uids |-> IF Live(u) THEN windows[u] ELSE Untracked]

(* Windows that were started together are told apart by the order of a     *)
(* hash map.                                                               *)
Oldest(ws) == {u \in Tracked(ws) : \A v \in Tracked(ws) : ws[v].age <= ws[u].age}

\* mutant of OpenWindow
OpenWindowEarly(u) ==
  IF Cardinality(Tracked(Retained)) + 1 < MaximumUids
  THEN windows' = [Retained EXCEPT ![u] = Started]
  ELSE \E oldest \in Oldest(Retained) :
         windows' = [Retained EXCEPT ![oldest] = Untracked, ![u] = Started]

OpenWindow(u) ==
  IF Cardinality(Tracked(Retained)) < MaximumUids
  THEN windows' = [Retained EXCEPT ![u] = Started]
  ELSE \E oldest \in Oldest(Retained) :
         windows' = [Retained EXCEPT ![oldest] = Untracked, ![u] = Started]

\* mutant of AllowAt
AllowAfterRefusal(u, allowed) ==
  CASE Retained[u] = Untracked                  -> allowed /\ OpenWindow(u)
    [] Retained[u].requests >= MaximumRequests  -> ~allowed /\ windows' = [Retained EXCEPT ![u] = Untracked]
    [] OTHER                                    -> /\ allowed
                                                   /\ windows' = [Retained EXCEPT ![u].requests = @ + 1]

(* allow_at: whether a request of u is within its budget.                  *)
AllowAt(u, allowed) ==
  CASE Retained[u] = Untracked                  -> allowed /\ OpenWindow(u)
    [] Retained[u].requests >= MaximumRequests  -> ~allowed /\ windows' = Retained
    [] OTHER                                    -> /\ allowed
                                                   /\ windows' = [Retained EXCEPT ![u].requests = @ + 1]

Grow(u) ==
  IF windows[u] = Untracked \/ windows[u].age = Minute THEN windows[u]
  ELSE [windows[u] EXCEPT !.age = @ + 1]

Tick == windows' = [u \in Uids |-> Grow(u)]

================================================================================
