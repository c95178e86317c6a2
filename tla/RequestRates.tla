----------------------------- MODULE RequestRates ------------------------------
(***************************************************************************)
(* What the request rate limiter promises of the requests in a minute      *)
(* (capulus/src/managed/server.rs, RequestRateLimiter).  The minute is any  *)
(* minute, not the one of a window: when each request was allowed is       *)
(* remembered here and nowhere in the code.                                *)
(***************************************************************************)
EXTENDS RequestRateLimiter

CONSTANT Slots   \* a bound: so many requests of a uid in a minute are told apart

ASSUME RatesAssumption == IsFiniteSet(Slots)

VARIABLES
  recent,   \* recent[u][s]: how long ago a request of u was allowed, up to a minute
  evicted,  \* the uids of which a live window has been dropped within a minute
  answer    \* the uid of the last request of this tick, and whether it was allowed

rateVars == <<windows, recent, evicted, answer>>

Within(u) == {s \in Slots : recent[u][s] < Minute}
Recent(u) == Cardinality(Within(u))
Spare(u)  == Slots \ Within(u)

Nobody == [uid |-> "nobody", allowed |-> TRUE]

Request(u) ==
  /\ Spare(u) # {}
  /\ \E allowed \in BOOLEAN :
       /\ AllowAt(u, allowed)
       /\ LET slot == CHOOSE s \in Spare(u) : TRUE
          IN  recent' = IF allowed THEN [recent EXCEPT ![u][slot] = 0] ELSE recent
       /\ evicted' = evicted \union {v \in Uids \ {u} : Live(v) /\ windows'[v] = Untracked}
       /\ answer' = [uid |-> u, allowed |-> allowed]

MinutePasses ==
  /\ Tick
  /\ recent' = [u \in Uids |-> [s \in Slots |-> IF recent[u][s] < Minute THEN recent[u][s] + 1
                                                                     ELSE Minute]]
  /\ evicted' = {u \in evicted : Within(u)' # {}}
  /\ answer' = Nobody

RateInit ==
  /\ windows = [u \in Uids |-> Untracked]
  /\ recent = [u \in Uids |-> [s \in Slots |-> Minute]]
  /\ evicted = {}
  /\ answer = Nobody

RateNext == MinutePasses \/ \E u \in Uids : Request(u)

RateSpec == RateInit /\ [][RateNext]_rateVars

--------------------------------------------------------------------------------
(* Properties *)

(* The windows and what is remembered of them.                             *)
RatesTypeOK ==
  /\ windows \in [Uids -> Windows]
  /\ recent \in [Uids -> [Slots -> 0..Minute]]
  /\ evicted \subseteq Uids
  /\ answer \in [uid : Uids, allowed : BOOLEAN] \union {Nobody}

(* "per-UID request rate [is] bounded" (capulus/DESIGN.md:68): in whatever  *)
(* minute, a uid gets less than twice its budget, by one window's end and  *)
(* the next one's beginning, unless the table has forgotten it.            *)
RatesAreBounded == \A u \in Uids \ evicted : Recent(u) < 2 * MaximumRequests

(* Nobody is refused who has not used up a budget within the minute.       *)
RefusalsAreEarned == ~answer.allowed => Recent(answer.uid) >= MaximumRequests

(* A uid gets its budget, and less than twice of it, in whatever minute.   *)
BudgetsAreKept == RatesAreBounded /\ RefusalsAreEarned

(* A budget is forgotten early only if as many others as there is room for *)
(* have had requests allowed within the same minute.                       *)
OnlyCrowdsEvict ==
  [][\A u \in evicted' \ evicted :
       Cardinality({v \in Uids \ {u} : Recent(v)' > 0}) >= MaximumUids]_rateVars

================================================================================
