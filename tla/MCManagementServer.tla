--------------------------- MODULE MCManagementServer --------------------------
(***************************************************************************)
(* The server with as many connections as fill it and leave one waiting,   *)
(* and the rate limiter by itself, whose uids are one more than there is   *)
(* room for, with a minute of two ticks, in which a window can straddle.   *)
(* A behaviour is of one of the two, and the other one rests.              *)
(***************************************************************************)
EXTENDS ManagementServer, RequestRates

CONSTANT Peers   \* a bound: the uids that connect to the server

VARIABLE part    \* which of the two it is

mcVars == <<vars, rateVars, part>>

ServerInit  == part = "server"  /\ Init /\ peer \in [Conns -> Peers]
LimiterInit == part = "limiter" /\ Init /\ peer = [c \in Conns |-> CHOOSE u \in Peers : TRUE]

ServerNext ==
  /\ part = "server"
  /\ Next
  /\ peer' \in [Conns -> Peers]
  /\ UNCHANGED <<recent, evicted, answer, part>>

LimiterNext ==
  /\ part = "limiter"
  /\ RateNext
  /\ UNCHANGED <<server, tasks, clients, part>>

MCInit == RateInit /\ (ServerInit \/ LimiterInit)

MCNext == ServerNext \/ LimiterNext

(* The fairness of the server, where the behaviour is of the server.       *)
MCSpec ==
  /\ MCInit
  /\ [][MCNext]_mcVars
  /\ WF_vars(part = "server" /\ Run)
  /\ WF_vars(part = "server" /\ Start)
  /\ \A c \in Conns : WF_vars(part = "server" /\ TimeOut(c))

================================================================================
