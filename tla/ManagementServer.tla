---------------------------- MODULE ManagementServer ---------------------------
(***************************************************************************)
(* The agent's request server (capulus/src/managed/server.rs,              *)
(* ManagementServer::run and serve_connection), the clients that call it   *)
(* (client.rs, ManagementClient::request), and the service manager, which   *)
(* holds the listening socket while the agent is not there.                *)
(*                                                                         *)
(* A client may call again on a connection of the same name once it is     *)
(* done with an earlier one and the server is too.                         *)
(***************************************************************************)
EXTENDS RequestRateLimiter, Sequences

CONSTANTS
  Conns,            \* the connections that clients have at once
  ConnectionLimit,  \* connection_limit
  MaxStops          \* a bound: how often the agent stops

ASSUME ServerAssumption ==
  /\ IsFiniteSet(Conns)
  /\ ConnectionLimit \in Nat \ {0}
  /\ MaxStops \in Nat

VARIABLES
  agent,     \* whether the server runs
  stops,     \* how often it has stopped
  holding,   \* the loop of run has a permit for a connection to come
  permits,   \* the permits of the semaphore that nobody has
  backlog,   \* the connections that are not yet accepted, in their order
  task,      \* task[c]: what the task that serves c does next
  peer,      \* peer[c]: the uid of the client
  frame,     \* frame[c]: what it sends
  allowed,   \* allowed[c]: the request is within the budget
  body,      \* body[c]: the response that is being written
  ran,       \* ran[c]: whether the handler has begun, and ended, with the request
  client     \* client[c]: what the client has got

server   == <<agent, stops, holding, permits, backlog>>
tasks    == <<task, allowed, body, ran>>
clients  == <<peer, frame, client>>
vars     == <<windows, server, tasks, clients>>

(* A request that the server can answer, one of another protocol, and what *)
(* is no frame: too long, cut short, not decodable, or never sent.         *)
Frames == {"request", "foreign", "broken"}

Serving == {c \in Conns : task[c] # "none"}

InBacklog(c) == \E i \in DOMAIN backlog : backlog[i] = c

--------------------------------------------------------------------------------
(* ManagementServer::run *)

AcquirePermit ==
  /\ agent = "up"
  /\ ~holding
  /\ permits > 0
  /\ permits' = permits - 1
  /\ holding' = TRUE
  /\ UNCHANGED <<windows, agent, stops, backlog, tasks, clients>>

\* mutant of Accept
AcceptLast ==
  /\ agent = "up"
  /\ holding
  /\ backlog # <<>>
  /\ holding' = FALSE
  /\ task' = [task EXCEPT ![backlog[Len(backlog)]] = "allow"]
  /\ backlog' = SubSeq(backlog, 1, Len(backlog) - 1)
  /\ UNCHANGED <<windows, agent, stops, permits, allowed, body, ran, clients>>

(* The permit goes to the task.                                            *)
Accept ==
  /\ agent = "up"
  /\ holding
  /\ backlog # <<>>
  /\ holding' = FALSE
  /\ task' = [task EXCEPT ![Head(backlog)] = "allow"]
  /\ backlog' = Tail(backlog)
  /\ UNCHANGED <<windows, agent, stops, permits, allowed, body, ran, clients>>

--------------------------------------------------------------------------------
(* serve_connection *)

Cut(c) == IF client[c] = "waiting" THEN "failed" ELSE client[c]

(* The end of a task drops what it has, gives its permit back, and closes  *)
(* its connection.                                                         *)
EndTask(c, outcome) ==
  /\ task' = [task EXCEPT ![c] = "none"]
  /\ allowed' = [allowed EXCEPT ![c] = FALSE]
  /\ body' = [body EXCEPT ![c] = "none"]
  /\ permits' = permits + 1
  /\ client' = [client EXCEPT ![c] = IF @ = "waiting" THEN outcome ELSE @]
  /\ UNCHANGED <<windows, agent, stops, holding, backlog, ran, peer, frame>>

Allow(c) ==
  /\ task[c] = "allow"
  /\ \E within \in BOOLEAN : /\ AllowAt(peer[c], within)
                             /\ allowed' = [allowed EXCEPT ![c] = within]
  /\ task' = [task EXCEPT ![c] = "read"]
  /\ UNCHANGED <<server, body, ran, clients>>

Answer(c, answer) ==
  /\ task' = [task EXCEPT ![c] = "write"]
  /\ body' = [body EXCEPT ![c] = answer]
  /\ UNCHANGED ran

Begin(c) ==
  /\ task' = [task EXCEPT ![c] = "handle"]
  /\ ran' = [ran EXCEPT ![c] = "begun"]
  /\ UNCHANGED body

\* mutant of Read
ReadAndRun(c) ==
  /\ task[c] = "read"
  /\ frame[c] # "broken"
  /\ task' = [task EXCEPT ![c] = IF allowed[c] THEN "handle" ELSE "write"]
  /\ body' = [body EXCEPT ![c] = IF allowed[c] THEN @ ELSE "over"]
  /\ ran' = [ran EXCEPT ![c] = "begun"]
  /\ UNCHANGED <<windows, server, allowed, clients>>

(* The whole frame is read, whether it is within the budget or not.        *)
Read(c) ==
  /\ task[c] = "read"
  /\ frame[c] # "broken"
  /\ CASE ~allowed[c]                          -> Answer(c, "over")
       [] allowed[c] /\ frame[c] = "request"   -> Begin(c)
       [] allowed[c] /\ frame[c] = "foreign"   -> Answer(c, "unsupported")
  /\ UNCHANGED <<windows, server, allowed, clients>>

ReadFails(c) ==
  /\ task[c] = "read"
  /\ frame[c] = "broken"
  /\ EndTask(c, "failed")

Handle(c) ==
  /\ task[c] = "handle"
  /\ \E answer \in {"ok", "error"} : /\ body' = [body EXCEPT ![c] = answer]
                                     /\ ran' = [ran EXCEPT ![c] = answer]
  /\ task' = [task EXCEPT ![c] = "write"]
  /\ UNCHANGED <<windows, server, allowed, clients>>

Write(c) ==
  /\ task[c] = "write"
  /\ EndTask(c, body[c]) \/ EndTask(c, "failed")

\* mutant of TimeOut
TimeOutKeepingPermit(c) ==
  /\ task[c] # "none"
  /\ task' = [task EXCEPT ![c] = "none"]
  /\ client' = [client EXCEPT ![c] = Cut(c)]
  /\ UNCHANGED <<windows, server, allowed, body, ran, peer, frame>>

(* The timeout of a request drops the task wherever it is.                 *)
TimeOut(c) ==
  /\ task[c] # "none"
  /\ EndTask(c, "failed")

--------------------------------------------------------------------------------
(* The clients *)

(* A client connects and sends its frame, whoever is there to read it.     *)
Connect(c) ==
  /\ client[c] # "waiting"
  /\ task[c] = "none"
  /\ ~InBacklog(c)
  /\ backlog' = Append(backlog, c)
  /\ \E u \in Uids, f \in Frames : /\ peer' = [peer EXCEPT ![c] = u]
                                   /\ frame' = [frame EXCEPT ![c] = f]
  /\ client' = [client EXCEPT ![c] = "waiting"]
  /\ ran' = [ran EXCEPT ![c] = "no"]
  /\ UNCHANGED <<windows, agent, stops, holding, permits, task, allowed, body>>

(* Its own timeout.  The server goes on with what it has read.             *)
GiveUp(c) ==
  /\ client[c] = "waiting"
  /\ client' = [client EXCEPT ![c] = "failed"]
  /\ UNCHANGED <<windows, server, tasks, peer, frame>>

--------------------------------------------------------------------------------
(* The agent and the service manager *)

(* accept fails, which ends run, or the agent is killed: its tasks and     *)
(* budgets go with it.                                                     *)
Stop ==
  /\ agent = "up"
  /\ stops < MaxStops
  /\ agent' = "down"
  /\ stops' = stops + 1
  /\ holding' = FALSE
  /\ permits' = ConnectionLimit
  /\ windows' = [u \in Uids |-> Untracked]
  /\ task' = [c \in Conns |-> "none"]
  /\ client' = [c \in Conns |-> IF c \in Serving THEN Cut(c) ELSE client[c]]
  /\ allowed' = [c \in Conns |-> FALSE]
  /\ body' = [c \in Conns |-> "none"]
  /\ UNCHANGED <<backlog, ran, peer, frame>>

(* The service manager starts it again; the socket was there all the time. *)
Start ==
  /\ agent = "down"
  /\ agent' = "up"
  /\ UNCHANGED <<windows, stops, holding, permits, backlog, tasks, clients>>

TimePasses ==
  /\ agent = "up"
  /\ Tick
  /\ UNCHANGED <<server, tasks, clients>>

Init ==
  /\ windows = [u \in Uids |-> Untracked]
  /\ agent = "up"
  /\ stops = 0
  /\ holding = FALSE
  /\ permits = ConnectionLimit
  /\ backlog = <<>>
  /\ task = [c \in Conns |-> "none"]
  /\ peer \in [Conns -> Uids]
  /\ frame = [c \in Conns |-> "broken"]
  /\ allowed = [c \in Conns |-> FALSE]
  /\ body = [c \in Conns |-> "none"]
  /\ ran = [c \in Conns |-> "no"]
  /\ client = [c \in Conns |-> "none"]

Run == AcquirePermit \/ Accept

Serve(c) == Allow(c) \/ Read(c) \/ ReadFails(c) \/ Handle(c) \/ Write(c) \/ TimeOut(c)

Next ==
  \/ Run \/ Stop \/ Start \/ TimePasses
  \/ \E c \in Conns : Serve(c) \/ Connect(c) \/ GiveUp(c)

Spec == Init /\ [][Next]_vars

(* The loop of run goes on, timers fire, and the agent is restarted; a    *)
(* peer or a handler owes nothing.                                         *)
FairSpec ==
  /\ Spec
  /\ WF_vars(Run)
  /\ WF_vars(Start)
  /\ \A c \in Conns : WF_vars(TimeOut(c))

--------------------------------------------------------------------------------
(* Properties *)

(* The variables range over the states of connections, tasks and clients.  *)
TypeOK ==
  /\ windows \in [Uids -> Windows]
  /\ agent \in {"up", "down"}
  /\ stops \in 0..MaxStops
  /\ holding \in BOOLEAN
  /\ permits \in 0..ConnectionLimit
  /\ backlog \in Seq(Conns)
  /\ task \in [Conns -> {"none", "allow", "read", "handle", "write"}]
  /\ peer \in [Conns -> Uids]
  /\ frame \in [Conns -> Frames]
  /\ allowed \in [Conns -> BOOLEAN]
  /\ body \in [Conns -> {"none", "ok", "error", "over", "unsupported"}]
  /\ ran \in [Conns -> {"no", "begun", "ok", "error"}]
  /\ client \in [Conns -> {"none", "waiting", "ok", "error", "over", "unsupported", "failed"}]

(* "Connections, [...] concurrent handlers [...] are bounded"              *)
(* (capulus/DESIGN.md:68): permits are neither lost nor made, whichever way *)
(* a task ends and however often the agent does, so there are never more   *)
(* tasks than the limit, and never fewer for good.                         *)
PermitsAreConserved ==
  permits + Cardinality(Serving) + (IF holding THEN 1 ELSE 0) = ConnectionLimit

(* What a client is told is what happened to its request: an answer of the *)
(* handler only if the handler ended with it, a refusal only if it never   *)
(* began.  Only a client that has got nothing does not know.               *)
AnswersAreTrue ==
  \A c \in Conns :
    /\ client[c] \in {"ok", "error"} => ran[c] = client[c]
    /\ client[c] \in {"over", "unsupported"} => ran[c] = "no"

(* Every connection is accepted, whatever its predecessors do with theirs  *)
(* and whenever the agent stops: one that waits does not wait for ever.    *)
ConnectionsAreAccepted == \A c \in Conns : InBacklog(c) ~> ~InBacklog(c)

(* "Request duration" is bounded: no task stays, even if its peer sends    *)
(* nothing or its handler never returns.                                   *)
TasksEnd == \A c \in Conns : c \in Serving ~> c \notin Serving

================================================================================
