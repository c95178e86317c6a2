------------------------- MODULE ManagementServerProofs ------------------------
(***************************************************************************)
(* What ManagementServer guarantees, for any connections, any limit, any   *)
(* budgets and any number of stops; and what its limiter promises of the   *)
(* requests in a minute (RequestRates), for any uids, budget and minute.   *)
(***************************************************************************)
EXTENDS ManagementServer, RequestRates, FiniteSetTheorems, TLAPS

(* A connection waits at one place of the backlog, and nobody serves it.   *)
BacklogInv ==
  /\ \A i \in 1..Len(backlog) : task[backlog[i]] = "none"
  /\ \A i, j \in 1..Len(backlog) : backlog[i] = backlog[j] => i = j

(* An agent that is not there has no tasks, and its successor all permits.  *)
PermitInv ==
  /\ agent = "down" => ~holding /\ Serving = {}
  /\ PermitsAreConserved

(* How far the handler is, by what the task does next; and who has got an   *)
(* answer is not served any more.                                          *)
AnswerInv ==
  \A c \in Conns :
    /\ task[c] \in {"allow", "read"} => ran[c] = "no"
    /\ task[c] = "write" => \/ body[c] \in {"ok", "error"} /\ ran[c] = body[c]
                            \/ body[c] \in {"over", "unsupported"} /\ ran[c] = "no"
    /\ client[c] \in {"ok", "error", "over", "unsupported"} => task[c] = "none"
    /\ InBacklog(c) => ran[c] = "no" /\ client[c] \in {"waiting", "failed"}

ServerInv == TypeOK /\ BacklogInv /\ PermitInv /\ AnswerInv /\ AnswersAreTrue

USE LimiterAssumption, ServerAssumption, RatesAssumption

--------------------------------------------------------------------------------
(* The limiter keeps the type of its windows. *)

LEMMA UntrackedType == Untracked \in Windows /\ Started \in Windows
BY DEF Untracked, Started, Windows

LEMMA RetainedType ==
  ASSUME windows \in [Uids -> Windows]
  PROVE  Retained \in [Uids -> Windows]
BY UntrackedType DEF Retained

LEMMA AllowType ==
  ASSUME windows \in [Uids -> Windows], NEW u \in Uids, NEW within \in BOOLEAN,
         AllowAt(u, within)
  PROVE  windows' \in [Uids -> Windows]
<1>1. CASE Retained[u] = Untracked
  <2>1. OpenWindow(u)
    BY <1>1 DEF AllowAt, Untracked
  <2> QED
    BY <2>1, UntrackedType, RetainedType DEF OpenWindow, Oldest, Tracked
<1>2. CASE Retained[u] # Untracked /\ Retained[u].requests >= MaximumRequests
  BY <1>2, RetainedType DEF AllowAt
<1>3. CASE Retained[u] # Untracked /\ ~(Retained[u].requests >= MaximumRequests)
  <2>1. windows' = [Retained EXCEPT ![u].requests = @ + 1]
    BY <1>3 DEF AllowAt
  <2>2. Retained[u].requests + 1 \in 0..MaximumRequests
    BY <1>3, RetainedType DEF Windows
  <2> QED
    BY <2>1, <2>2, RetainedType DEF Windows
<1> QED
  BY <1>1, <1>2, <1>3

LEMMA TickType ==
  ASSUME windows \in [Uids -> Windows], Tick
  PROVE  windows' \in [Uids -> Windows]
<1>1. ASSUME NEW u \in Uids PROVE Grow(u) \in Windows
  BY <1>1 DEF Grow, Windows
<1> QED
  BY <1>1 DEF Tick

--------------------------------------------------------------------------------
(* Tasks and permits *)

LEMMA ServingFinite ==
  /\ IsFiniteSet(Serving)
  /\ Cardinality(Serving) \in Nat
BY FS_Subset, FS_CardinalityType DEF Serving

(* A task that is dropped counts no more.                                  *)
LEMMA EndCounts ==
  ASSUME NEW c \in Conns, task \in [Conns -> {"none", "allow", "read", "handle", "write"}],
         task[c] # "none", task' = [task EXCEPT ![c] = "none"]
  PROVE  Cardinality(Serving') = Cardinality(Serving) - 1
<1>1. c \in Serving /\ Serving' = Serving \ {c}
  BY DEF Serving
<1> QED
  BY <1>1, ServingFinite, FS_RemoveElement

(* A task that is started counts.                                          *)
LEMMA StartCounts ==
  ASSUME NEW c \in Conns, task \in [Conns -> {"none", "allow", "read", "handle", "write"}],
         task[c] = "none", task' = [task EXCEPT ![c] = "allow"]
  PROVE  Cardinality(Serving') = Cardinality(Serving) + 1
<1>1. c \notin Serving /\ Serving' = Serving \union {c}
  BY DEF Serving
<1> QED
  BY <1>1, ServingFinite, FS_AddElement

(* A task that goes on counts as before.                                   *)
LEMMA GoingOnCounts ==
  ASSUME NEW c \in Conns, NEW label \in {"read", "handle", "write"},
         task \in [Conns -> {"none", "allow", "read", "handle", "write"}],
         task[c] # "none", task' = [task EXCEPT ![c] = label]
  PROVE  Serving' = Serving
BY DEF Serving

Outcomes == {"ok", "error", "over", "unsupported", "failed"}

(* What ends a task: nothing to read, an answer, or the time.              *)
Ends(c) == ReadFails(c) \/ Write(c) \/ TimeOut(c)

LEMMA EndsWith ==
  ASSUME TypeOK, AnswerInv, NEW c \in Conns, Ends(c)
  PROVE  /\ task[c] # "none"
         /\ \E outcome \in Outcomes :
              /\ EndTask(c, outcome)
              /\ outcome = "failed" \/ (task[c] = "write" /\ outcome = body[c])
<1>1. CASE ReadFails(c)
  BY <1>1 DEF ReadFails, Outcomes
<1>2. CASE TimeOut(c)
  BY <1>2 DEF TimeOut, Outcomes
<1>3. CASE Write(c)
  <2>1. task[c] = "write" /\ body[c] \in Outcomes
    BY <1>3 DEF Write, AnswerInv, Outcomes
  <2>2. EndTask(c, body[c]) \/ EndTask(c, "failed")
    BY <1>3 DEF Write
  <2> QED
    BY <2>1, <2>2 DEF Outcomes
<1> QED
  BY <1>1, <1>2, <1>3 DEF Ends

--------------------------------------------------------------------------------
(* The invariant holds, and every step keeps it. *)

LEMMA InitInv == Init => ServerInv
<1> SUFFICES ASSUME Init PROVE ServerInv
  OBVIOUS
<1>1. TypeOK
  <2>1. windows \in [Uids -> Windows] /\ allowed \in [Conns -> BOOLEAN]
    BY UntrackedType DEF Init
  <2>2. backlog \in Seq(Conns) /\ permits \in 0..ConnectionLimit /\ stops \in 0..MaxStops
    BY DEF Init
  <2>3. frame \in [Conns -> Frames] /\ peer \in [Conns -> Uids]
    BY DEF Init, Frames
  <2> QED
    BY <2>1, <2>2, <2>3 DEF Init, TypeOK
<1>2. BacklogInv /\ AnswerInv /\ AnswersAreTrue
  BY DEF Init, BacklogInv, AnswerInv, AnswersAreTrue, InBacklog
<1>3. PermitInv
  <2>1. Serving = {}
    BY DEF Init, Serving
  <2> QED
    BY <2>1, FS_EmptySet DEF Init, PermitInv, PermitsAreConserved
<1> QED
  BY <1>1, <1>2, <1>3 DEF ServerInv

LEMMA TypeStep ==
  ASSUME ServerInv, [Next]_vars
  PROVE  TypeOK'
<1> USE DEF ServerInv, TypeOK
<1>1. CASE AcquirePermit
  BY <1>1 DEF AcquirePermit, tasks, clients
<1>2. CASE Accept
  <2>1. Head(backlog) \in Conns /\ Tail(backlog) \in Seq(Conns)
    BY <1>2 DEF Accept
  <2> QED
    BY <1>2, <2>1 DEF Accept, clients
<1>3. CASE Stop
  <2>1. windows' \in [Uids -> Windows]
    BY <1>3, UntrackedType DEF Stop
  <2>2. client' \in [Conns -> {"none", "waiting", "ok", "error", "over", "unsupported", "failed"}]
    BY <1>3 DEF Stop, Cut
  <2>3. allowed' \in [Conns -> BOOLEAN]
    BY <1>3 DEF Stop
  <2>4. stops' \in 0..MaxStops /\ permits' \in 0..ConnectionLimit
    BY <1>3 DEF Stop
  <2> QED
    BY <1>3, <2>1, <2>2, <2>3, <2>4 DEF Stop
<1>4. CASE Start
  BY <1>4 DEF Start, tasks, clients
<1>5. CASE TimePasses
  BY <1>5, TickType DEF TimePasses, server, tasks, clients
<1>6. ASSUME NEW c \in Conns, Allow(c)
      PROVE  TypeOK'
  <2>1. PICK within \in BOOLEAN : AllowAt(peer[c], within) /\ allowed' = [allowed EXCEPT ![c] = within]
    BY <1>6 DEF Allow
  <2>2. windows' \in [Uids -> Windows]
    BY <2>1, AllowType
  <2> QED
    BY <1>6, <2>1, <2>2 DEF Allow, server, clients
<1>7. ASSUME NEW c \in Conns, Read(c)
      PROVE  TypeOK'
  <2>1. UNCHANGED <<windows, server, allowed, clients>>
    BY <1>7 DEF Read
  <2>2. Begin(c) \/ Answer(c, "over") \/ Answer(c, "unsupported")
    BY <1>7 DEF Read, Frames
  <2> QED
    BY <2>1, <2>2 DEF Begin, Answer, server, clients
<1>8. ASSUME NEW c \in Conns, Ends(c)
      PROVE  TypeOK'
  <2>1. PICK outcome \in Outcomes : EndTask(c, outcome)
    BY <1>8, EndsWith
  <2>2. task[c] # "none"
    BY <1>8, EndsWith
  <2>3. permits + 1 \in 0..ConnectionLimit
    <3>1. Serving # {}
      BY <2>2 DEF Serving
    <3>2. Cardinality(Serving) # 0
      BY <3>1, ServingFinite, FS_EmptySet
    <3> QED
      BY <3>2, ServingFinite DEF PermitInv, PermitsAreConserved
  <2> QED
    BY <2>1, <2>3 DEF EndTask, Outcomes
<1>9. ASSUME NEW c \in Conns, Handle(c)
      PROVE  TypeOK'
  BY <1>9 DEF Handle, server, clients
<1>10. ASSUME NEW c \in Conns, Connect(c)
       PROVE  TypeOK'
  <2>1. Append(backlog, c) \in Seq(Conns)
    OBVIOUS
  <2> QED
    BY <1>10, <2>1 DEF Connect
<1>11. ASSUME NEW c \in Conns, GiveUp(c)
       PROVE  TypeOK'
  BY <1>11 DEF GiveUp, server, tasks
<1>12. CASE UNCHANGED vars
  BY <1>12 DEF vars, server, tasks, clients
<1> QED
  BY <1>1, <1>2, <1>3, <1>4, <1>5, <1>6, <1>7, <1>8, <1>9, <1>10, <1>11, <1>12
  DEF Next, Run, Serve, Ends

LEMMA BacklogStep ==
  ASSUME ServerInv, [Next]_vars
  PROVE  BacklogInv'
<1> USE DEF ServerInv, TypeOK, BacklogInv
<1>1. CASE Accept
  <2> DEFINE c == Head(backlog)
  <2>1. c \in Conns /\ c = backlog[1] /\ Len(backlog) >= 1
    BY <1>1 DEF Accept
  <2>2. /\ Len(Tail(backlog)) = Len(backlog) - 1
        /\ \A i \in 1..(Len(backlog) - 1) : Tail(backlog)[i] = backlog[i + 1]
    BY <1>1 DEF Accept
  <2>3. backlog' = Tail(backlog) /\ task' = [task EXCEPT ![c] = "allow"]
    BY <1>1 DEF Accept
  <2>4. ASSUME NEW i \in 1..(Len(backlog) - 1) PROVE backlog[i + 1] # c /\ backlog[i + 1] \in Conns
    BY <2>1, <2>4
  <2>5. \A i \in 1..Len(backlog') : task'[backlog'[i]] = "none"
    BY <2>2, <2>3, <2>4
  <2>6. \A i, j \in 1..Len(backlog') : backlog'[i] = backlog'[j] => i = j
    BY <2>2, <2>3
  <2> QED
    BY <2>5, <2>6
<1>2. ASSUME NEW c \in Conns, Connect(c)
      PROVE  BacklogInv'
  <2>1. /\ backlog' = Append(backlog, c)
        /\ UNCHANGED task
        /\ task[c] = "none"
        /\ \A i \in 1..Len(backlog) : backlog[i] # c
    BY <1>2 DEF Connect, InBacklog
  <2>2. /\ Len(backlog') = Len(backlog) + 1
        /\ backlog'[Len(backlog) + 1] = c
        /\ \A i \in 1..Len(backlog) : backlog'[i] = backlog[i]
    BY <2>1
  <2>3. \A i \in 1..Len(backlog') : task'[backlog'[i]] = "none"
    BY <2>1, <2>2
  <2>4. \A i, j \in 1..Len(backlog') : backlog'[i] = backlog'[j] => i = j
    BY <2>1, <2>2
  <2> QED
    BY <2>3, <2>4
<1>3. ASSUME UNCHANGED backlog, \A c \in Conns : task[c] = "none" => task'[c] = "none"
      PROVE  BacklogInv'
  <2>1. \A i \in 1..Len(backlog) : backlog[i] \in Conns
    OBVIOUS
  <2> QED
    BY <1>3, <2>1
<1>4. CASE AcquirePermit \/ Start \/ TimePasses \/ UNCHANGED vars
  BY <1>3, <1>4 DEF AcquirePermit, Start, TimePasses, vars, server, tasks
<1>5. CASE Stop
  BY <1>3, <1>5 DEF Stop
<1>6. ASSUME NEW c \in Conns, Allow(c) \/ Read(c) \/ Handle(c) \/ GiveUp(c)
      PROVE  BacklogInv'
  <2>1. UNCHANGED backlog
    BY <1>6 DEF Allow, Read, Handle, GiveUp, server
  <2>2. \/ UNCHANGED task
        \/ task[c] # "none" /\ \E label \in {"read", "handle", "write"} : task' = [task EXCEPT ![c] = label]
    <3>1. CASE Allow(c)
      BY <3>1 DEF Allow, tasks
    <3>2. CASE Read(c)
      <4>1. allowed[c] /\ frame[c] # "foreign" => frame[c] = "request"
        BY <1>3, <3>2 DEF Read, TypeOK, Frames
      <4>2. Answer(c, "over") \/ Begin(c) \/ Answer(c, "unsupported")
        BY <3>2, <4>1 DEF Read
      <4> QED
        BY <3>2, <4>2 DEF Read, Begin, Answer
    <3>3. CASE Handle(c)
      BY <3>3 DEF Handle, Answer, tasks
    <3>4. CASE GiveUp(c)
      BY <3>4 DEF GiveUp, tasks
    <3> QED
      BY <1>6, <3>1, <3>2, <3>3, <3>4
  <2> QED
    BY <1>3, <2>1, <2>2
<1>7. ASSUME NEW c \in Conns, Ends(c)
      PROVE  BacklogInv'
  <2>1. PICK outcome \in Outcomes : EndTask(c, outcome)
    BY <1>7, EndsWith
  <2> QED
    BY <1>3, <2>1 DEF EndTask
<1> QED
  BY <1>1, <1>2, <1>4, <1>5, <1>6, <1>7 DEF Next, Run, Serve, Ends

LEMMA PermitStep ==
  ASSUME ServerInv, [Next]_vars
  PROVE  PermitInv'
<1> USE DEF ServerInv, TypeOK, PermitInv, PermitsAreConserved
<1>1. CASE AcquirePermit
  <2>1. Serving' = Serving
    BY <1>1 DEF AcquirePermit, tasks, Serving
  <2> QED
    BY <1>1, <2>1, ServingFinite DEF AcquirePermit
<1>2. CASE Accept
  <2>1. Head(backlog) \in Conns /\ task[Head(backlog)] = "none"
    BY <1>2 DEF Accept, BacklogInv
  <2>2. Cardinality(Serving') = Cardinality(Serving) + 1
    BY <1>2, <2>1, StartCounts DEF Accept
  <2> QED
    BY <1>2, <2>2, ServingFinite DEF Accept
<1>3. CASE Stop
  <2>1. Serving' = {}
    BY <1>3 DEF Stop, Serving
  <2> QED
    BY <1>3, <2>1, FS_EmptySet DEF Stop
<1>4. ASSUME NEW c \in Conns, Ends(c)
      PROVE  PermitInv'
  <2>1. PICK outcome \in Outcomes : EndTask(c, outcome)
    BY <1>4, EndsWith
  <2>2. Cardinality(Serving') = Cardinality(Serving) - 1
    BY <1>4, <2>1, EndsWith, EndCounts DEF EndTask
  <2>3. agent # "down"
    BY <1>4, EndsWith DEF Serving
  <2> QED
    BY <2>1, <2>2, <2>3, ServingFinite DEF EndTask
<1>5. ASSUME UNCHANGED <<holding, permits>>, Serving' = Serving, agent' = agent \/ agent' = "up"
      PROVE  PermitInv'
  BY <1>5
<1>6. ASSUME NEW c \in Conns, Allow(c) \/ Read(c) \/ Handle(c)
      PROVE  PermitInv'
  <2>1. /\ UNCHANGED <<holding, permits, agent>>
        /\ task[c] # "none"
        /\ \E label \in {"read", "handle", "write"} : task' = [task EXCEPT ![c] = label]
    BY <1>6 DEF Allow, Read, Begin, Answer, Handle, server, Frames
  <2> QED
    BY <1>5, <2>1, GoingOnCounts
<1>7. ASSUME NEW c \in Conns, Connect(c) \/ GiveUp(c)
      PROVE  PermitInv'
  BY <1>5, <1>7 DEF Connect, GiveUp, server, tasks, Serving
<1>8. CASE Start \/ TimePasses \/ UNCHANGED vars
  BY <1>5, <1>8 DEF Start, TimePasses, vars, server, tasks, Serving
<1> QED
  BY <1>1, <1>2, <1>3, <1>4, <1>6, <1>7, <1>8 DEF Next, Run, Serve, Ends

LEMMA AnswerStep ==
  ASSUME ServerInv, [Next]_vars
  PROVE  AnswerInv' /\ AnswersAreTrue'
<1> USE DEF ServerInv, TypeOK, AnswerInv, AnswersAreTrue, InBacklog
<1>1. ASSUME UNCHANGED <<task, body, ran, client>>, \A c \in Conns : InBacklog(c)' => InBacklog(c)
      PROVE  AnswerInv' /\ AnswersAreTrue'
  BY <1>1
<1>2. CASE AcquirePermit \/ Start \/ TimePasses \/ UNCHANGED vars
  <2>1. UNCHANGED <<task, body, ran, client, backlog>>
    BY <1>2 DEF AcquirePermit, Start, TimePasses, vars, server, tasks, clients
  <2> QED
    BY <1>1, <2>1
<1>3. CASE Accept
  <2> DEFINE d == Head(backlog)
  <2>1. d \in Conns /\ InBacklog(d)
    BY <1>3 DEF Accept
  <2>2. ASSUME NEW c \in Conns, InBacklog(c)'
        PROVE  InBacklog(c)
    BY <1>3, <2>2 DEF Accept
  <2>3. /\ task' = [task EXCEPT ![d] = "allow"]
        /\ UNCHANGED <<body, ran, client>>
    BY <1>3 DEF Accept, clients
  <2> HIDE DEF d, InBacklog
  <2>4. ran[d] = "no" /\ client[d] \in {"waiting", "failed"}
    BY <2>1
  <2>5. AnswersAreTrue'
    BY <2>3
  <2>6. ASSUME NEW c \in Conns
        PROVE  /\ task'[c] = IF c = d THEN "allow" ELSE task[c]
               /\ InBacklog(c)' => InBacklog(c)
               /\ ran'[c] = ran[c] /\ body'[c] = body[c] /\ client'[c] = client[c]
    BY <2>1, <2>2, <2>3
  <2> QED
    BY <2>4, <2>5, <2>6
<1>4. CASE Stop
  <2>1. \A c \in Conns : client'[c] = client[c] \/ (client[c] = "waiting" /\ client'[c] = "failed")
    BY <1>4 DEF Stop, Cut
  <2>2. task' = [c \in Conns |-> "none"] /\ UNCHANGED <<ran, backlog>>
    BY <1>4 DEF Stop
  <2> QED
    BY <2>1, <2>2
<1>5. ASSUME NEW c \in Conns, Allow(c)
      PROVE  AnswerInv' /\ AnswersAreTrue'
  <2>1. task[c] = "allow" /\ task' = [task EXCEPT ![c] = "read"] /\ UNCHANGED <<body, ran, client, backlog>>
    BY <1>5 DEF Allow, server, clients
  <2> QED
    BY <2>1
<1>6. ASSUME NEW c \in Conns, Read(c)
      PROVE  AnswerInv' /\ AnswersAreTrue'
  <2>1. task[c] = "read" /\ UNCHANGED <<client, backlog>>
    BY <1>6 DEF Read, server, clients
  <2>2. Begin(c) \/ Answer(c, "over") \/ Answer(c, "unsupported")
    BY <1>6 DEF Read, Frames
  <2>3. ~InBacklog(c)
    BY <2>1 DEF BacklogInv
  <2>4. CASE Begin(c)
    BY <2>1, <2>3, <2>4 DEF Begin
  <2>5. CASE Answer(c, "over") \/ Answer(c, "unsupported")
    BY <2>1, <2>3, <2>5 DEF Answer
  <2> QED
    BY <2>2, <2>4, <2>5
<1>7. ASSUME NEW c \in Conns, Handle(c)
      PROVE  AnswerInv' /\ AnswersAreTrue'
  <2>1. task[c] = "handle" /\ UNCHANGED <<client, backlog>>
    BY <1>7 DEF Handle, server, clients
  <2>2. PICK result \in {"ok", "error"} :
          /\ body' = [body EXCEPT ![c] = result]
          /\ ran' = [ran EXCEPT ![c] = result]
          /\ task' = [task EXCEPT ![c] = "write"]
    BY <1>7 DEF Handle
  <2>3. ~InBacklog(c)
    BY <2>1 DEF BacklogInv
  <2> QED
    BY <2>1, <2>2, <2>3
<1>8. ASSUME NEW c \in Conns, Ends(c)
      PROVE  AnswerInv' /\ AnswersAreTrue'
  <2>1. PICK outcome \in Outcomes :
          /\ EndTask(c, outcome)
          /\ outcome = "failed" \/ (task[c] = "write" /\ outcome = body[c])
    BY <1>8, EndsWith
  <2>2. task[c] # "none" /\ ~InBacklog(c)
    BY <1>8, EndsWith DEF BacklogInv
  <2>3. /\ task' = [task EXCEPT ![c] = "none"]
        /\ body' = [body EXCEPT ![c] = "none"]
        /\ client' = [client EXCEPT ![c] = IF @ = "waiting" THEN outcome ELSE @]
        /\ UNCHANGED <<ran, backlog>>
    BY <2>1 DEF EndTask
  <2> HIDE DEF InBacklog
  <2>4. \A e \in Conns : InBacklog(e)' <=> InBacklog(e)
    BY <2>3 DEF InBacklog
  <2> QED
    BY <2>1, <2>2, <2>3, <2>4
<1>9. ASSUME NEW c \in Conns, Connect(c)
      PROVE  AnswerInv' /\ AnswersAreTrue'
  <2>1. /\ task[c] = "none"
        /\ ran' = [ran EXCEPT ![c] = "no"]
        /\ client' = [client EXCEPT ![c] = "waiting"]
        /\ backlog' = Append(backlog, c)
        /\ UNCHANGED <<task, body>>
    BY <1>9 DEF Connect
  <2>2. ASSUME NEW e \in Conns, InBacklog(e)'
        PROVE  e = c \/ InBacklog(e)
    BY <2>1, <2>2
  <2> HIDE DEF InBacklog
  <2> QED
    BY <2>1, <2>2
<1>10. ASSUME NEW c \in Conns, GiveUp(c)
       PROVE  AnswerInv' /\ AnswersAreTrue'
  <2>1. /\ client[c] = "waiting" /\ client' = [client EXCEPT ![c] = "failed"]
        /\ UNCHANGED <<task, body, ran, backlog>>
    BY <1>10 DEF GiveUp, server, tasks
  <2> QED
    BY <2>1
<1> QED
  BY <1>2, <1>3, <1>4, <1>5, <1>6, <1>7, <1>8, <1>9, <1>10 DEF Next, Run, Serve, Ends

LEMMA ServerInvariant == Spec => []ServerInv
<1>1. ServerInv /\ [Next]_vars => ServerInv'
  <2> SUFFICES ASSUME ServerInv, [Next]_vars PROVE ServerInv'
    OBVIOUS
  <2> QED
    BY TypeStep, BacklogStep, PermitStep, AnswerStep DEF ServerInv
<1> QED
  BY <1>1, InitInv, PTL DEF Spec

--------------------------------------------------------------------------------

(* The variables keep to the states of connections, tasks and clients.     *)
THEOREM TypeCorrect == Spec => []TypeOK
BY ServerInvariant, PTL DEF ServerInv

(* The semaphore of ManagementServer::run loses and makes no permit, for   *)
(* any limit, and there is never a task without one.                       *)
THEOREM PermitsConserved == Spec => []PermitsAreConserved
BY ServerInvariant, PTL DEF ServerInv, PermitInv

(* No client is told of a handler that did not end so, or of a refusal of  *)
(* a request that was run, whatever it and the agent do meanwhile.         *)
THEOREM AnswersTrue == Spec => []AnswersAreTrue
BY ServerInvariant, PTL DEF ServerInv

--------------------------------------------------------------------------------
(* The limiter by itself, with what RequestRates remembers of it. *)

(* The requests of u in the minute that belong to its window, and those    *)
(* from before it.                                                         *)
Young(u) == {s \in Slots : recent[u][s] <= windows[u].age}
Older(u) == {s \in Slots : windows[u].age < recent[u][s] /\ recent[u][s] < Minute}

(* A window begins with a request and counts those that came since.  Those *)
(* from before it are fewer than a budget: the request with which they     *)
(* began is a minute ago.                                                  *)
RateInv ==
  /\ windows \in [Uids -> Windows]
  /\ recent \in [Uids -> [Slots -> 0..Minute]]
  /\ \A u \in Uids :
       /\ Live(u) =>
            /\ \E s \in Slots : recent[u][s] = windows[u].age
            /\ Cardinality(Young(u)) >= windows[u].requests
       /\ Live(u) /\ u \notin evicted =>
            /\ Cardinality(Young(u)) = windows[u].requests
            /\ Cardinality(Older(u)) < MaximumRequests
       /\ ~Live(u) /\ u \notin evicted =>
            /\ Cardinality(Within(u)) < MaximumRequests
            /\ \A s \in Slots : recent[u][s] # 0

(* A subset of the slots has a number of elements, and a subset of that    *)
(* has no more.                                                            *)
LEMMA SlotCounts ==
  ASSUME NEW S \in SUBSET Slots
  PROVE  /\ IsFiniteSet(S)
         /\ Cardinality(S) \in Nat
         /\ \A T \in SUBSET S : IsFiniteSet(T) /\ Cardinality(T) \in Nat /\ Cardinality(T) <= Cardinality(S)
BY FS_Subset, FS_CardinalityType

(* What allow_at does with the window of whoever asks, and with others'.   *)
LEMMA AllowEffect ==
  ASSUME windows \in [Uids -> Windows], NEW u \in Uids, NEW within \in BOOLEAN,
         AllowAt(u, within)
  PROVE  /\ \A v \in Uids \ {u} : windows'[v] \in {Retained[v], Untracked}
         /\ ~Live(u) => within /\ windows'[u] = Started
         /\ Live(u) /\ windows[u].requests >= MaximumRequests => ~within /\ windows'[u] = windows[u]
         /\ Live(u) /\ windows[u].requests < MaximumRequests =>
              within /\ windows'[u] = [windows[u] EXCEPT !.requests = @ + 1]
<1>1. /\ Retained \in [Uids -> Windows]
      /\ \A v \in Uids : Retained[v] = IF Live(v) THEN windows[v] ELSE Untracked
      /\ Live(u) => windows[u] # Untracked
  BY RetainedType DEF Retained, Live
<1>5. windows[u].requests \in Nat
  BY DEF Windows
<1>2. CASE ~Live(u)
  <2>1. within /\ OpenWindow(u)
    <3>1. Retained[u] = Untracked
      BY <1>1, <1>2
    <3> QED
      BY <3>1 DEF AllowAt, Untracked
  <2>2. CASE windows' = [Retained EXCEPT ![u] = Started]
    BY <1>1, <1>2, <2>1, <2>2
  <2>3. CASE \E oldest \in Oldest(Retained) : windows' = [Retained EXCEPT ![oldest] = Untracked, ![u] = Started]
    <3>1. PICK oldest \in Oldest(Retained) : windows' = [Retained EXCEPT ![oldest] = Untracked, ![u] = Started]
      BY <2>3
    <3>2. oldest \in Uids
      BY DEF Oldest, Tracked
    <3> QED
      BY <1>1, <1>2, <2>1, <3>1, <3>2
  <2> QED
    BY <2>1, <2>2, <2>3 DEF OpenWindow
<1>3. CASE Live(u) /\ windows[u].requests >= MaximumRequests
  <2>1. Retained[u] = windows[u] /\ Retained[u] # Untracked
    BY <1>1, <1>3
  <2>2. ~within /\ windows' = Retained
    BY <1>3, <2>1 DEF AllowAt
  <2> QED
    BY <1>1, <1>3, <1>5, <2>1, <2>2
<1>4. CASE Live(u) /\ windows[u].requests < MaximumRequests
  <2>1. Retained[u] = windows[u] /\ Retained[u] # Untracked /\ ~(windows[u].requests >= MaximumRequests)
    BY <1>1, <1>4, <1>5
  <2>2. within /\ windows' = [Retained EXCEPT ![u].requests = @ + 1]
    BY <2>1 DEF AllowAt
  <2>3. windows'[u] = [windows[u] EXCEPT !.requests = @ + 1]
    BY <1>1, <2>1, <2>2
  <2>4. \A v \in Uids \ {u} : windows'[v] = Retained[v]
    BY <1>1, <2>2
  <2> QED
    BY <1>4, <2>1, <2>2, <2>3, <2>4
<1> QED
  BY <1>2, <1>3, <1>4, <1>5

(* A request in RequestRates is one of the limiter, and takes a slot if it *)
(* is allowed.                                                             *)
LEMMA RequestEffect ==
  ASSUME recent \in [Uids -> [Slots -> 0..Minute]], NEW u \in Uids, Request(u)
  PROVE  \E within \in BOOLEAN :
           /\ AllowAt(u, within)
           /\ within => \E s \in Slots : recent[u][s] = Minute /\ recent' = [recent EXCEPT ![u][s] = 0]
           /\ ~within => recent' = recent
           /\ answer' = [uid |-> u, allowed |-> within]
           /\ evicted' = evicted \union {v \in Uids \ {u} : Live(v) /\ windows'[v] = Untracked}
<1> DEFINE slot == CHOOSE s \in Spare(u) : TRUE
<1>1. PICK within \in BOOLEAN :
        /\ AllowAt(u, within)
        /\ recent' = IF within THEN [recent EXCEPT ![u][slot] = 0] ELSE recent
        /\ evicted' = evicted \union {v \in Uids \ {u} : Live(v) /\ windows'[v] = Untracked}
        /\ answer' = [uid |-> u, allowed |-> within]
  BY DEF Request
<1>2. slot \in Slots /\ recent[u][slot] = Minute
  <2>1. slot \in Spare(u)
    BY DEF Request
  <2> HIDE DEF slot
  <2>2. slot \in Slots /\ ~(recent[u][slot] < Minute)
    BY <2>1 DEF Spare, Within
  <2>3. recent[u][slot] \in 0..Minute
    BY <2>2
  <2>4. \A n \in 0..Minute : ~(n < Minute) => n = Minute
    OBVIOUS
  <2> QED
    BY <2>2, <2>3, <2>4
<1> HIDE DEF slot
<1> QED
  BY <1>1, <1>2

LEMMA InitRates ==
  ASSUME RateInit
  PROVE  RateInv
<1>1. windows \in [Uids -> Windows] /\ \A u \in Uids : ~Live(u)
  BY UntrackedType DEF RateInit, Live
<1>2. recent \in [Uids -> [Slots -> 0..Minute]] /\ \A u \in Uids, s \in Slots : recent[u][s] = Minute
  BY DEF RateInit
<1>3. \A u \in Uids : Within(u) = {}
  BY <1>2 DEF Within
<1> QED
  BY <1>1, <1>2, <1>3, FS_EmptySet DEF RateInv

(* The windows of others are kept or dropped; the one of u is begun or     *)
(* counts one more.                                                        *)
LEMMA RequestKeepsRates ==
  ASSUME RateInv, NEW u \in Uids, Request(u)
  PROVE  RateInv'
<1> USE DEF RateInv
<1>1. PICK within \in BOOLEAN :
        /\ AllowAt(u, within)
        /\ within => \E s \in Slots : recent[u][s] = Minute /\ recent' = [recent EXCEPT ![u][s] = 0]
        /\ ~within => recent' = recent
        /\ evicted' = evicted \union {v \in Uids \ {u} : Live(v) /\ windows'[v] = Untracked}
  BY RequestEffect
<1>2. windows' \in [Uids -> Windows]
  BY <1>1, AllowType
<1>3. recent' \in [Uids -> [Slots -> 0..Minute]]
  BY <1>1
<1>4. ASSUME NEW v \in Uids \ {u}
      PROVE  /\ Live(v)' => Live(v) /\ windows'[v] = windows[v]
             /\ ~Live(v)' /\ v \notin evicted' => ~Live(v)
             /\ recent'[v] = recent[v]
             /\ v \notin evicted' => v \notin evicted
  <2>1. windows'[v] \in {Retained[v], Untracked}
    BY <1>1, AllowEffect
  <2>2. Retained[v] = IF Live(v) THEN windows[v] ELSE Untracked
    BY DEF Retained
  <2>3. recent'[v] = recent[v]
    BY <1>1
  <2> QED
    BY <1>1, <2>1, <2>2, <2>3 DEF Live
<1>5. ASSUME NEW v \in Uids \ {u}
      PROVE  /\ Young(v)' = {s \in Slots : recent[v][s] <= windows'[v].age}
             /\ Older(v)' = {s \in Slots : windows'[v].age < recent[v][s] /\ recent[v][s] < Minute}
             /\ Within(v)' = Within(v)
  BY <1>4 DEF Young, Older, Within
<1>6. ASSUME NEW v \in Uids \ {u}
      PROVE  /\ Live(v)' =>
                  /\ \E s \in Slots : recent'[v][s] = windows'[v].age
                  /\ Cardinality(Young(v))' >= windows'[v].requests
             /\ Live(v)' /\ v \notin evicted' =>
                  /\ Cardinality(Young(v))' = windows'[v].requests
                  /\ Cardinality(Older(v))' < MaximumRequests
             /\ ~Live(v)' /\ v \notin evicted' =>
                  /\ Cardinality(Within(v))' < MaximumRequests
                  /\ \A s \in Slots : recent'[v][s] # 0
  <2>1. Live(v)' => Young(v)' = Young(v) /\ Older(v)' = Older(v)
    BY <1>4, <1>5 DEF Young, Older
  <2> HIDE DEF Live, Young, Older, Within
  <2> QED
    BY <1>4, <1>5, <2>1
<1>7. u \in evicted' <=> u \in evicted
  BY <1>1
<1>8. /\ Live(u)' =>
           /\ \E s \in Slots : recent'[u][s] = windows'[u].age
           /\ Cardinality(Young(u))' >= windows'[u].requests
      /\ Live(u)' /\ u \notin evicted' =>
           /\ Cardinality(Young(u))' = windows'[u].requests
           /\ Cardinality(Older(u))' < MaximumRequests
      /\ ~Live(u)' /\ u \notin evicted' =>
           /\ Cardinality(Within(u))' < MaximumRequests
           /\ \A s \in Slots : recent'[u][s] # 0
  <2>1. CASE ~Live(u)
    <3>1. within /\ windows'[u] = Started
      BY <1>1, <2>1, AllowEffect
    <3>2. PICK s \in Slots : recent[u][s] = Minute /\ recent' = [recent EXCEPT ![u][s] = 0]
      BY <1>1, <3>1
    <3>3. recent'[u] = [recent[u] EXCEPT ![s] = 0]
      BY <3>2
    <3>4. Live(u)'
      BY <3>1 DEF Live, Started, Untracked
    <3>5. s \in Young(u)' /\ recent'[u][s] = windows'[u].age
      BY <3>1, <3>3 DEF Young, Started
    <3>6. Cardinality(Young(u))' >= 1
      <4>1. Young(u)' \in SUBSET Slots
        BY DEF Young
      <4>2. {s} \in SUBSET Young(u)' /\ Cardinality({s}) = 1
        BY <3>5, FS_Singleton
      <4> QED
        BY <4>1, <4>2, SlotCounts
    <3>7. ASSUME u \notin evicted
          PROVE  Young(u)' = {s} /\ Older(u)' = Within(u)
      <4>1. windows'[u].age = 0 /\ \A r \in Slots : recent[u][r] \in 0..Minute /\ recent[u][r] # 0
        BY <2>1, <3>1, <3>7 DEF Started
      <4>2. Young(u)' = {s}
        BY <3>3, <4>1 DEF Young
      <4>3. Older(u)' = {r \in Slots : 0 < recent'[u][r] /\ recent'[u][r] < Minute}
        BY <4>1 DEF Older
      <4>4. \A r \in Slots : (0 < recent'[u][r] /\ recent'[u][r] < Minute) <=> recent[u][r] < Minute
        BY <3>2, <3>3, <4>1
      <4> QED
        BY <4>2, <4>3, <4>4 DEF Within
    <3>8. windows'[u].requests = 1 /\ Cardinality({s}) = 1
      <4>1. windows'[u].requests = 1
        BY <3>1 DEF Started
      <4> QED
        BY <4>1, FS_Singleton
    <3> HIDE DEF Live, Young, Older, Within
    <3> QED
      BY <1>7, <2>1, <3>4, <3>5, <3>6, <3>7, <3>8
  <2>2. CASE Live(u) /\ windows[u].requests >= MaximumRequests
    <3>1. ~within /\ windows'[u] = windows[u] /\ recent' = recent
      BY <1>1, <2>2, AllowEffect
    <3>2. Live(u)' /\ Young(u)' = Young(u) /\ Older(u)' = Older(u)
      BY <2>2, <3>1 DEF Live, Young, Older
    <3> HIDE DEF Live, Young, Older, Within
    <3> QED
      BY <1>7, <2>2, <3>1, <3>2
  <2>3. CASE Live(u) /\ windows[u].requests < MaximumRequests
    <3>1. within /\ windows'[u] = [windows[u] EXCEPT !.requests = @ + 1]
      BY <1>1, <2>3, AllowEffect
    <3>2. PICK s \in Slots : recent[u][s] = Minute /\ recent' = [recent EXCEPT ![u][s] = 0]
      BY <1>1, <3>1
    <3>3. recent'[u] = [recent[u] EXCEPT ![s] = 0]
      BY <3>2
    <3>4. windows[u].age \in 0..(Minute - 1) /\ windows[u].requests \in Nat
      BY <2>3 DEF Live, Windows
    <3>5. windows'[u].age = windows[u].age /\ windows'[u].requests = windows[u].requests + 1
      BY <3>1 DEF Windows
    <3>6. Live(u)'
      BY <3>4, <3>5 DEF Live, Untracked
    <3>7. s \notin Young(u) /\ Young(u)' = Young(u) \union {s} /\ Older(u)' = Older(u)
      BY <3>2, <3>3, <3>4, <3>5 DEF Young, Older
    <3>8. Cardinality(Young(u))' = Cardinality(Young(u)) + 1 /\ Cardinality(Young(u)) \in Nat
      <4>1. Young(u) \in SUBSET Slots
        BY DEF Young
      <4>2. IsFiniteSet(Young(u)) /\ Cardinality(Young(u)) \in Nat
        BY <4>1, SlotCounts
      <4> QED
        BY <3>7, <4>2, FS_AddElement
    <3>9. \E r \in Slots : recent'[u][r] = windows'[u].age
      <4>1. PICK r \in Slots : recent[u][r] = windows[u].age
        BY <2>3
      <4>2. r # s
        BY <3>2, <3>4, <4>1
      <4> QED
        BY <3>3, <3>5, <4>1, <4>2
    <3> HIDE DEF Live, Young, Older, Within
    <3> QED
      BY <1>7, <2>3, <3>4, <3>5, <3>6, <3>7, <3>8, <3>9
  <2>4. windows[u].requests \in Nat
    BY DEF Windows
  <2> QED
    BY <2>1, <2>2, <2>3, <2>4
<1> HIDE DEF Live, Young, Older, Within
<1> QED
  BY <1>2, <1>3, <1>6, <1>8

(* A window grows older with its requests, and when it is over its first   *)
(* request is a minute ago.                                                *)
LEMMA TimeKeepsRates ==
  ASSUME RateInv, MinutePasses
  PROVE  RateInv'
<1> USE DEF RateInv
<1>1. Tick
  BY DEF MinutePasses, Tick, Grow, Untracked
<1>2. windows' \in [Uids -> Windows]
  BY <1>1, TickType
<1>3. recent' = [u \in Uids |-> [s \in Slots |-> IF recent[u][s] < Minute THEN recent[u][s] + 1 ELSE Minute]]
  BY DEF MinutePasses
<1>4. recent' \in [Uids -> [Slots -> 0..Minute]]
  BY <1>3
<1>5. evicted' = {u \in evicted : Within(u)' # {}}
  BY DEF MinutePasses, Within
<1>6. ASSUME NEW u \in Uids
      PROVE  /\ Live(u)' =>
                  /\ \E s \in Slots : recent'[u][s] = windows'[u].age
                  /\ Cardinality(Young(u))' >= windows'[u].requests
             /\ Live(u)' /\ u \notin evicted' =>
                  /\ Cardinality(Young(u))' = windows'[u].requests
                  /\ Cardinality(Older(u))' < MaximumRequests
             /\ ~Live(u)' /\ u \notin evicted' =>
                  /\ Cardinality(Within(u))' < MaximumRequests
                  /\ \A s \in Slots : recent'[u][s] # 0
  <2>1. \A s \in Slots : recent'[u][s] = IF recent[u][s] < Minute THEN recent[u][s] + 1 ELSE Minute
    BY <1>3
  <2>2. \A s \in Slots : recent[u][s] \in 0..Minute
    OBVIOUS
  <2>3. \A s \in Slots : recent'[u][s] # 0
    BY <2>1, <2>2
  <2>4. windows[u] \in Windows /\ windows[u].age \in 0..Minute /\ windows[u].requests \in 0..MaximumRequests
    BY DEF Windows
  <2>5. windows'[u] = IF windows[u] = Untracked \/ windows[u].age = Minute THEN windows[u]
                      ELSE [windows[u] EXCEPT !.age = @ + 1]
    BY <1>1 DEF Tick, Grow
  <2>6. Live(u) => windows'[u].age = windows[u].age + 1 /\ windows'[u].requests = windows[u].requests
    BY <2>4, <2>5 DEF Live, Windows
  <2>7. Live(u)' => Live(u)
    BY <2>4, <2>5 DEF Live
  <2>8. /\ Young(u) \in SUBSET Slots /\ Older(u) \in SUBSET Slots /\ Within(u) \in SUBSET Slots
        /\ Older(u)' \in SUBSET Slots /\ Within(u)' \in SUBSET Slots
    BY DEF Young, Older, Within
  <2>9. CASE u \notin evicted' /\ u \in evicted
    <3>1. Within(u)' = {}
      BY <1>5, <2>9
    <3>2. ~Live(u)'
      <4> SUFFICES ASSUME Live(u)' PROVE FALSE
        OBVIOUS
      <4>1. PICK s \in Slots : recent[u][s] = windows[u].age
        BY <2>7
      <4>2. windows'[u].age < Minute /\ windows[u].age < Minute
        BY <2>7 DEF Live
      <4>3. recent'[u][s] < Minute
        BY <2>1, <2>4, <2>6, <2>7, <4>1, <4>2
      <4> QED
        BY <3>1, <4>3 DEF Within
    <3> HIDE DEF Live, Young, Older, Within
    <3> QED
      BY <2>3, <3>1, <3>2, FS_EmptySet
  <2>10. CASE Live(u)' /\ (u \in evicted' \/ u \notin evicted)
    <3>1. windows[u].age \in 0..(Minute - 1) /\ windows[u].age + 1 \in 0..(Minute - 1)
      BY <2>4, <2>6, <2>7, <2>10 DEF Live
    <3>2. Young(u)' = Young(u)
      BY <2>1, <2>2, <2>6, <2>7, <2>10, <3>1 DEF Young
    <3>3. Older(u)' \in SUBSET Older(u)
      BY <2>1, <2>2, <2>6, <2>7, <2>10, <3>1 DEF Older
    <3>4. \E s \in Slots : recent'[u][s] = windows'[u].age
      BY <2>1, <2>6, <2>7, <2>10, <3>1
    <3>5. /\ Cardinality(Older(u))' <= Cardinality(Older(u))
          /\ Cardinality(Older(u))' \in Nat /\ Cardinality(Older(u)) \in Nat
      BY <2>8, <3>3, SlotCounts
    <3>6. u \notin evicted' => u \notin evicted
      BY <2>10
    <3> HIDE DEF Live, Young, Older, Within
    <3> QED
      BY <2>6, <2>7, <2>10, <3>2, <3>4, <3>5, <3>6
  <2>11. CASE ~Live(u)' /\ u \notin evicted' /\ u \notin evicted
    <3>1. CASE Live(u)
      <4>1. windows[u].age = Minute - 1
        <5>1. windows[u].age < Minute /\ windows'[u].age = windows[u].age + 1
          BY <2>6, <3>1 DEF Live
        <5>2. windows'[u] # Untracked
          BY <2>4, <5>1 DEF Untracked
        <5>3. ~(windows'[u].age < Minute)
          BY <2>11, <5>2 DEF Live
        <5>4. windows[u].age \in Nat /\ Minute \in Nat
          BY <2>4
        <5>5. windows[u].age + 1 >= Minute
          BY <5>1, <5>3, <5>4
        <5> QED
          BY <5>1, <5>4, <5>5
      <4>2. PICK s \in Slots : recent[u][s] = windows[u].age
        BY <3>1
      <4>3. Within(u)' \in SUBSET (Young(u) \ {s}) /\ s \in Young(u)
        BY <2>1, <2>2, <4>1, <4>2 DEF Within, Young
      <4>4. /\ Cardinality(Young(u)) = windows[u].requests
            /\ Cardinality(Young(u) \ {s}) = Cardinality(Young(u)) - 1
        BY <2>8, <2>11, <3>1, <4>3, SlotCounts, FS_RemoveElement
      <4>5. Cardinality(Within(u))' <= Cardinality(Young(u) \ {s}) /\ Cardinality(Within(u))' \in Nat
        <5>1. Young(u) \ {s} \in SUBSET Slots
          BY <2>8
        <5> QED
          BY <4>3, <5>1, SlotCounts
      <4> HIDE DEF Live, Young, Older, Within
      <4> QED
        BY <2>3, <2>4, <2>11, <4>4, <4>5
    <3>2. CASE ~Live(u)
      <4>1. Within(u)' \in SUBSET Within(u)
        BY <2>1, <2>2 DEF Within
      <4>2. /\ Cardinality(Within(u))' <= Cardinality(Within(u))
            /\ Cardinality(Within(u))' \in Nat /\ Cardinality(Within(u)) \in Nat
        BY <2>8, <4>1, SlotCounts
      <4> HIDE DEF Live, Young, Older, Within
      <4> QED
        BY <2>3, <2>11, <3>2, <4>2
    <3> QED
      BY <3>1, <3>2
  <2> HIDE DEF Live, Young, Older, Within
  <2>12. CASE ~Live(u)' /\ u \in evicted'
    BY <2>12
  <2>13. u \in evicted' => u \in evicted
    BY <1>5
  <2> QED
    BY <2>9, <2>10, <2>11, <2>12, <2>13
<1> HIDE DEF Live, Young, Older, Within
<1> QED
  BY <1>2, <1>4, <1>6

LEMMA RatesInvariant ==
  RateSpec => []RateInv
<1>1. ASSUME RateInv, [RateNext]_rateVars PROVE RateInv'
  <2>1. CASE MinutePasses
    BY <1>1, <2>1, TimeKeepsRates
  <2>2. ASSUME NEW u \in Uids, Request(u) PROVE RateInv'
    BY <1>1, <2>2, RequestKeepsRates
  <2>3. CASE UNCHANGED rateVars
    BY <1>1, <2>3 DEF rateVars, RateInv, Live, Young, Older, Within
  <2> QED
    BY <1>1, <2>1, <2>2, <2>3 DEF RateNext
<1> QED
  BY <1>1, InitRates, PTL DEF RateSpec

(* Whoever was refused had used up a budget within the minute, and still   *)
(* has until time passes.                                                  *)
RefusalInv ==
  ~answer.allowed =>
    /\ answer.uid \in Uids
    /\ Cardinality(Within(answer.uid)) >= MaximumRequests

LEMMA RefusalStep ==
  ASSUME RateInv, RefusalInv, [RateNext]_rateVars
  PROVE  RefusalInv'
<1>1. CASE MinutePasses
  BY <1>1 DEF MinutePasses, Nobody, RefusalInv
<1>2. ASSUME NEW u \in Uids, Request(u) PROVE RefusalInv'
  <2>1. PICK within \in BOOLEAN :
          /\ AllowAt(u, within)
          /\ ~within => recent' = recent
          /\ answer' = [uid |-> u, allowed |-> within]
    BY <1>2, RequestEffect DEF RateInv
  <2> SUFFICES ASSUME ~within PROVE Cardinality(Within(u))' >= MaximumRequests
    BY <2>1 DEF RefusalInv
  <2>2. Live(u) /\ windows[u].requests >= MaximumRequests /\ windows[u].requests \in Nat
    <3>1. windows \in [Uids -> Windows] /\ windows[u].requests \in Nat
      BY DEF RateInv, Windows
    <3>2. Live(u) /\ ~(windows[u].requests < MaximumRequests)
      BY <2>1, <3>1, AllowEffect
    <3> QED
      BY <3>1, <3>2
  <2>3. Cardinality(Young(u)) >= windows[u].requests
    BY <2>2 DEF RateInv
  <2>4. Within(u)' = Within(u) /\ Within(u) \in SUBSET Slots
    BY <2>1 DEF Within
  <2>5. Young(u) \in SUBSET Within(u)
    BY <2>2 DEF Young, Within, Live, RateInv, Windows
  <2>6. /\ Cardinality(Young(u)) <= Cardinality(Within(u))
        /\ Cardinality(Young(u)) \in Nat /\ Cardinality(Within(u)) \in Nat
    BY <2>4, <2>5, SlotCounts
  <2> QED
    BY <2>2, <2>3, <2>4, <2>6
<1>3. CASE UNCHANGED rateVars
  BY <1>3 DEF rateVars, RefusalInv, Within
<1> QED
  BY <1>1, <1>2, <1>3 DEF RateNext

(* In whatever minute, a uid gets less than twice its budget, unless the   *)
(* table has forgotten it: allow_at, for any budget, any room in the table *)
(* and any length of a minute.                                             *)
LEMMA RatesBounded ==
  RateSpec => []RatesAreBounded
<1>1. ASSUME RateInv PROVE RatesAreBounded
  <2> SUFFICES ASSUME NEW u \in Uids \ evicted
               PROVE  Cardinality(Within(u)) < 2 * MaximumRequests
    BY DEF RatesAreBounded, Recent, Within
  <2>1. Within(u) \in SUBSET Slots /\ Young(u) \in SUBSET Slots /\ Older(u) \in SUBSET Slots
    BY DEF Within, Young, Older
  <2>2. Cardinality(Within(u)) \in Nat /\ Cardinality(Young(u)) \in Nat /\ Cardinality(Older(u)) \in Nat
        /\ IsFiniteSet(Young(u)) /\ IsFiniteSet(Older(u))
    BY <2>1, SlotCounts
  <2>3. CASE Live(u)
    <3>1. windows[u].requests <= MaximumRequests /\ windows[u].requests \in Nat /\ windows[u].age \in 0..(Minute - 1)
      BY <1>1, <2>3 DEF RateInv, Windows, Live
    <3>2. Within(u) = Young(u) \union Older(u) /\ Young(u) \intersect Older(u) = {}
      BY <1>1, <3>1 DEF RateInv, Within, Young, Older
    <3>3. Cardinality(Within(u)) = Cardinality(Young(u)) + Cardinality(Older(u))
      <4>1. Cardinality(Young(u) \union Older(u)) =
              Cardinality(Young(u)) + Cardinality(Older(u)) - Cardinality(Young(u) \intersect Older(u))
        BY <2>2, FS_Union
      <4>2. Cardinality(Young(u) \intersect Older(u)) = 0
        BY <3>2, FS_EmptySet
      <4> QED
        BY <2>2, <3>2, <4>1, <4>2
    <3>4. Cardinality(Young(u)) = windows[u].requests /\ Cardinality(Older(u)) < MaximumRequests
      BY <1>1, <2>3 DEF RateInv
    <3> QED
      BY <2>2, <3>1, <3>3, <3>4
  <2>4. CASE ~Live(u)
    BY <1>1, <2>2, <2>4 DEF RateInv
  <2> QED
    BY <2>3, <2>4
<1> QED
  BY <1>1, RatesInvariant, PTL

(* Nobody is refused by allow_at who has not used up a budget within the   *)
(* minute.                                                                 *)
LEMMA RefusalsEarned ==
  RateSpec => []RefusalsAreEarned
<1>1. RateInit => RefusalInv
  BY DEF RateInit, Nobody, RefusalInv
<1>2. RefusalInv => RefusalsAreEarned
  BY DEF RefusalInv, RefusalsAreEarned, Recent, Within
<1>3. RateInv /\ RefusalInv /\ [RateNext]_rateVars => RefusalInv'
  BY RefusalStep
<1> QED
  BY <1>1, <1>2, <1>3, RatesInvariant, PTL DEF RateSpec

(* A uid gets its budget, and less than twice of it, in whatever minute.   *)
THEOREM BudgetsKept ==
  RateSpec => []BudgetsAreKept
<1>1. RatesAreBounded /\ RefusalsAreEarned => BudgetsAreKept
  BY DEF BudgetsAreKept
<1> QED
  BY <1>1, RatesBounded, RefusalsEarned, PTL

(* Where allow_at forgets a budget early, as many others as the table has  *)
(* room for have had requests within the minute.                           *)
THEOREM CrowdsEvict ==
  RateSpec => OnlyCrowdsEvict
<1>1. ASSUME RateInv, [RateNext]_rateVars, NEW u \in evicted' \ evicted
      PROVE  Cardinality({v \in Uids \ {u} : Recent(v)' > 0}) >= MaximumUids
  <2>1. PICK q \in Uids : Request(q)
    BY <1>1 DEF RateNext, rateVars, MinutePasses
  <2>2. PICK within \in BOOLEAN :
          /\ AllowAt(q, within)
          /\ within => \E s \in Slots : recent[q][s] = Minute /\ recent' = [recent EXCEPT ![q][s] = 0]
          /\ ~within => recent' = recent
          /\ evicted' = evicted \union {v \in Uids \ {q} : Live(v) /\ windows'[v] = Untracked}
    BY <1>1, <2>1, RequestEffect DEF RateInv
  <2>3. u \in Uids \ {q} /\ Live(u) /\ windows'[u] = Untracked
    BY <1>1, <2>2
  <2>4. \A v \in Uids : Retained[v] = IF Live(v) THEN windows[v] ELSE Untracked
    BY DEF Retained
  <2>5. Retained[u] # Untracked /\ Retained \in [Uids -> Windows]
    BY <1>1, <2>3, <2>4, RetainedType DEF Live, RateInv
  <2>6. ~Live(q) /\ within /\ OpenWindow(q)
    <3>1. Retained[q] = Untracked
      BY <2>2, <2>3, <2>5 DEF AllowAt
    <3>2. ~Live(q)
      BY <2>4, <3>1 DEF Live
    <3> QED
      BY <2>2, <3>1, <3>2 DEF AllowAt, Untracked
  <2>7. Cardinality(Tracked(Retained)) >= MaximumUids /\ Cardinality(Tracked(Retained)) \in Nat
    <3>1. IsFiniteSet(Tracked(Retained)) /\ Cardinality(Tracked(Retained)) \in Nat
      BY FS_Subset, FS_CardinalityType DEF Tracked
    <3>2. CASE Cardinality(Tracked(Retained)) < MaximumUids
      BY <2>3, <2>5, <2>6, <3>2 DEF OpenWindow
    <3> QED
      BY <3>1, <3>2
  <2> DEFINE T == Tracked(Retained)
             S == (T \ {u}) \union {q}
             W == {v \in Uids \ {u} : Recent(v)' > 0}
  <2>8. u \in T /\ q \notin T /\ T \in SUBSET Uids /\ IsFiniteSet(T)
    <3>1. Retained[q] = Untracked
      BY <2>4, <2>6
    <3> QED
      BY <2>3, <2>5, <3>1, FS_Subset DEF Tracked
  <2>9. IsFiniteSet(S) /\ Cardinality(S) = Cardinality(T)
    <3> HIDE DEF T
    <3>1. IsFiniteSet(T \ {u}) /\ Cardinality(T \ {u}) = Cardinality(T) - 1
      BY <2>8, FS_RemoveElement
    <3>2. q \notin T \ {u}
      BY <2>8
    <3>3. Cardinality(T) \in Nat
      BY <2>8, FS_CardinalityType
    <3>4. IsFiniteSet((T \ {u}) \union {q}) /\ Cardinality((T \ {u}) \union {q}) = Cardinality(T \ {u}) + 1
      BY <3>1, <3>2, FS_AddElement
    <3> QED
      BY <3>1, <3>3, <3>4
  <2>10. ASSUME NEW v \in S PROVE v \in W
    <3>1. v \in Uids \ {u}
      BY <2>3, <2>8
    <3>2. \E s \in Slots : recent'[v][s] < Minute
      <4>1. CASE v = q
        BY <1>1, <2>2, <2>6, <4>1 DEF RateInv
      <4>2. CASE v # q
        <5>1. Live(v)
          BY <2>4, <2>10, <4>2 DEF Tracked
        <5>2. PICK s \in Slots : recent[v][s] = windows[v].age
          BY <1>1, <3>1, <5>1 DEF RateInv
        <5>3. recent'[v] = recent[v]
          BY <1>1, <2>2, <3>1, <4>2 DEF RateInv
        <5> QED
          BY <5>1, <5>2, <5>3 DEF Live
      <4> QED
        BY <4>1, <4>2
    <3>3. Within(v)' # {} /\ Within(v)' \in SUBSET Slots
      BY <3>2 DEF Within
    <3>4. Cardinality(Within(v)') > 0
      BY <3>3, SlotCounts, FS_EmptySet
    <3> QED
      BY <3>1, <3>4 DEF Recent, Within
  <2>11. W \in SUBSET Uids /\ IsFiniteSet(W) /\ Cardinality(W) \in Nat
    BY FS_Subset, FS_CardinalityType
  <2> HIDE DEF S, T, W
  <2>12. Cardinality(S) <= Cardinality(W)
    BY <2>10, <2>11, FS_Subset
  <2>13. Cardinality(W) >= MaximumUids
    BY <2>7, <2>9, <2>11, <2>12 DEF T
  <2> QED
    BY <2>13 DEF W
<1>2. RateInv /\ [RateNext]_rateVars =>
        [\A u \in evicted' \ evicted :
           Cardinality({v \in Uids \ {u} : Recent(v)' > 0}) >= MaximumUids]_rateVars
  BY <1>1
<1> QED
  BY <1>2, RatesInvariant, PTL DEF RateSpec, OnlyCrowdsEvict

================================================================================
