------------------------------- MODULE DurableCell -----------------------------
(***************************************************************************)
(* What a store promises to the tools that keep their settings in it: a    *)
(* reader finds a value that somebody wrote whole, and a power loss takes  *)
(* back at most the writes that nobody has been told to be safe; but a     *)
(* store that is new may be lost whole, until a power loss has spared it.  *)
(***************************************************************************)
CONSTANTS
  Cells,   \* the stores
  Values,  \* what somebody may write into one
  Empty    \* what a reader finds in a store that is not there

VARIABLES
  value,  \* value[c]: what a reader of the store c finds
  safe,   \* safe[c]: what it is sure to find after a power loss that spares c
  new     \* the stores that a power loss may take

Init == value = safe /\ value \in [Cells -> Values] /\ new = {}

Create(c) ==
  /\ value[c] = Empty /\ safe[c] = Empty
  /\ new' = new \cup {c}
  /\ UNCHANGED <<value, safe>>

Write(c, v) ==
  /\ v \in Values
  /\ value' = [value EXCEPT ![c] = v]
  /\ UNCHANGED <<safe, new>>

Secure(c) ==
  /\ safe' = [safe EXCEPT ![c] = value[c]]
  /\ UNCHANGED <<value, new>>

Forget(lost, gone) ==
  /\ value' = [c \in Cells |-> IF c \in gone THEN Empty
                              ELSE IF c \in lost THEN safe[c] ELSE value[c]]
  /\ safe' = value'
  /\ new' = {}

Next ==
  \/ \E c \in Cells : Create(c) \/ Secure(c)
  \/ \E c \in Cells, v \in Values : Write(c, v)
  \/ \E lost \in SUBSET Cells, gone \in SUBSET new : Forget(lost, gone)

Spec == Init /\ [][Next]_<<value, safe, new>>
================================================================================
