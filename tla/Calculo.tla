-------------------------------- MODULE Calculo --------------------------------
(***************************************************************************)
(* calculo: its exact integers, its row operations, its normalizers and    *)
(* its conversions of floats, each used by a client of its own.            *)
(***************************************************************************)
EXTENDS IntegerBackends, RowBackends, Normalizers, FloatParts

VARIABLE client  \* what the client of this behavior computes with

calculoVars == <<client, intVars, rowVars, normVars, floatVars>>

Clients == {"integers", "rows", "vectors", "floats"}

NoIntegers ==
  /\ word = <<>> /\ rug = <<>> /\ dashu = <<>>
  /\ error = NoError

NoRows == rows = <<>> /\ answer = <<>> /\ taken = 0

NoVectors ==
  /\ normalizer = "No" /\ eps = Zero
  /\ origin = <<>> /\ vector = <<>> /\ shadow = <<>> /\ form = "same"
  /\ kept = "unasked"

NoFloats == floats = <<>> /\ scaled = <<>>

ClientInit ==
  /\ client \in Clients
  /\ IF client = "integers" THEN IntInit ELSE NoIntegers
  /\ IF client = "rows" THEN RowInit ELSE NoRows
  /\ IF client = "vectors" THEN NormInit ELSE NoVectors
  /\ IF client = "floats" THEN FloatInit ELSE NoFloats

ClientNext ==
  /\ UNCHANGED client
  /\ \/ client = "integers" /\ IntNext /\ UNCHANGED <<rowVars, normVars, floatVars>>
     \/ client = "rows" /\ RowNext /\ UNCHANGED <<intVars, normVars, floatVars>>
     \/ client = "vectors" /\ NormNext /\ UNCHANGED <<intVars, rowVars, floatVars>>
     \/ client = "floats" /\ FloatNext /\ UNCHANGED <<intVars, rowVars, normVars>>

ClientSpec == ClientInit /\ [][ClientNext]_calculoVars

--------------------------------------------------------------------------------
(* Properties *)

(* The three integer backends compute the same numbers, or the machine     *)
(* word refuses, and order products as the integers are ordered.           *)
IntegersAreExact == BackendsAgree /\ ComparisonsAreExact

(* A vector keeps its direction through every normalizer, what comes out   *)
(* is the normal form of that direction, and the vector that goes with it  *)
(* follows as far as its own numbers can.                                  *)
NormalFormsAreSound == DirectionIsKept /\ NormalFormsAreCanonical /\ ShadowFollows

(* Floats are taken apart into the numbers that they are, and floats that  *)
(* are equal have equal hash components.                                   *)
FloatsAreSound == FloatsAreExact /\ KeysAreSound
================================================================================
