--------------------------- MODULE InstanceProofs ---------------------------
(***************************************************************************)
(* Proofs about Instance.  Everything rests on LockInv: a process holds    *)
(* the lock of the identity it read exactly while it is between taking and *)
(* dropping it.  SocketInv, for a single identity, says what the holder    *)
(* may rely on about the socket file at each of its steps.                 *)
(***************************************************************************)
EXTENDS Instance, TLAPS

USE DEF Procs

Owns(p) == \/ p \in Daemons /\ Holding(p)
           \/ p \in Clis /\ Calling(p)

LockInv ==
  /\ \A p \in Procs : Owns(p) => id[p] \in Identities /\ lock[id[p]] = p
  /\ \A i \in Identities : lock[i] # None => id[lock[i]] = i /\ Owns(lock[i])
  /\ \A c \in Clis : cli[c] # "idle" => id[c] \in Identities /\ kind[c] # None
  /\ \A c \in Clis : job[c] # "none" => link[c] \in Daemons

Inv == TypeOK /\ LockInv

(* Initially nobody holds a lock. *)
LEMMA InitInv == Init => Inv
BY ProcsAssumption, ResultsAssumption DEF Init, Inv, TypeOK, LockInv, Owns, Holding, Calling, Results

(* Every step keeps types and locks in order. *)
LEMMA StepInv == Inv /\ [Next]_vars => Inv'
<1>. SUFFICES ASSUME Inv, [Next]_vars PROVE Inv'
  OBVIOUS
<1>. USE ProcsAssumption, ResultsAssumption
<1>1. ASSUME NEW d \in Daemons, NEW i \in Identities, Start(d, i) PROVE Inv'
  <2>1. TypeOK'
    BY <1>1 DEF Inv, Start, TypeOK, request
  <2>2. LockInv'
    BY <1>1 DEF Inv, Start, TypeOK, request, LockInv, Owns, Holding, Calling
  <2>. QED BY <2>1, <2>2 DEF Inv
<1>2. ASSUME NEW d \in Daemons, NEW why \in {"failed", "in_use"}, Holding(d), Abandon(d, why)
      PROVE  Inv'
  <2>1. TypeOK'
    BY <1>2 DEF Inv, Abandon, Unlocked, TypeOK, request
  <2>2. LockInv'
    BY <1>2 DEF Inv, Abandon, Unlocked, TypeOK, request, LockInv, Owns, Holding, Calling
  <2>. QED BY <2>1, <2>2 DEF Inv
<1>3. ASSUME NEW d \in Daemons, Holding(d), sock' \in {sock, None, d},
             NEW next \in {"found", "stale", "clear", "bound", "serving", "closing", "unlinked"},
             Goto(d, next)
      PROVE  Inv'
  <2>1. TypeOK'
    BY <1>3 DEF Inv, Goto, TypeOK, request
  <2>2. LockInv'
    BY <1>3 DEF Inv, Goto, TypeOK, request, LockInv, Owns, Holding, Calling
  <2>. QED BY <2>1, <2>2 DEF Inv
<1>4. ASSUME NEW d \in Daemons, Look(d) \/ Serve(d) \/ NoEndpoint(d) \/ RemoveSocket(d) PROVE Inv'
  BY <1>4, <1>2, <1>3 DEF Look, Serve, NoEndpoint, RemoveSocket, Holding
<1>5. ASSUME NEW d \in Daemons, Probe(d) PROVE Inv'
  BY <1>5, <1>2, <1>3 DEF Probe, Holding
<1>6. ASSUME NEW d \in Daemons, Unlink(d) PROVE Inv'
  BY <1>6, <1>2, <1>3 DEF Unlink, Holding
<1>7. ASSUME NEW d \in Daemons, Bind(d) PROVE Inv'
  BY <1>7, <1>2, <1>3 DEF Bind, Holding
<1>8. ASSUME NEW d \in Daemons, Stop(d) \/ CloseListener(d) PROVE Inv'
  <2>1. TypeOK'
    BY <1>8 DEF Inv, Stop, CloseListener, TypeOK
  <2>2. LockInv'
    BY <1>8 DEF Inv, Stop, CloseListener, TypeOK, LockInv, Owns, Holding, Calling
  <2>. QED BY <2>1, <2>2 DEF Inv
<1>9. ASSUME NEW d \in Daemons, Unlock(d) PROVE Inv'
  <2>1. TypeOK'
    BY <1>9 DEF Inv, Unlock, Unlocked, TypeOK, request
  <2>2. LockInv'
    BY <1>9 DEF Inv, Unlock, Unlocked, TypeOK, request, LockInv, Owns, Holding, Calling
  <2>. QED BY <2>1, <2>2 DEF Inv
<1>10. ASSUME NEW d \in Daemons, Kill(d) PROVE Inv'
  <2>1. TypeOK'
    BY <1>10 DEF Inv, Kill, Unlocked, TypeOK
  <2>2. LockInv'
    BY <1>10 DEF Inv, Kill, Unlocked, TypeOK, LockInv, Owns, Holding, Calling
  <2>. QED BY <2>1, <2>2 DEF Inv
<1>11. ASSUME NEW c \in Clis, NEW k \in {"exec", "peers", "probe", "history"},
              NEW i \in Identities, Invoke(c, k, i)
       PROVE  Inv'
  <2>1. TypeOK'
    BY <1>11 DEF Inv, Invoke, TypeOK
  <2>2. LockInv'
    BY <1>11 DEF Inv, Invoke, TypeOK, LockInv, Owns, Holding, Calling
  <2>. QED BY <2>1, <2>2 DEF Inv
<1>12. ASSUME NEW c \in Clis, Connect(c) PROVE Inv'
  <2>1. kind[c] \in {"exec", "peers", "probe", "history"}
    BY <1>12 DEF Connect, Inv, TypeOK, LockInv
  <2>2. Fallback(kind[c]) \in {"endpoint", "in_process", "no_daemon"}
    BY <2>1 DEF Fallback
  <2>3. TypeOK'
    BY <1>12, <2>2 DEF Inv, Connect, TypeOK, Listening
  <2>4. LockInv'
    BY <1>12, <2>2 DEF Inv, Connect, TypeOK, LockInv, Owns, Holding, Calling, Listening
  <2>. QED BY <2>3, <2>4 DEF Inv
<1>13. ASSUME NEW c \in Clis, Lost(c) \/ TimesOut(c) \/ NoDaemon(c) \/ InProcess(c) PROVE Inv'
  <2>1. TypeOK'
    BY <1>13 DEF Inv, Lost, TimesOut, NoDaemon, InProcess, Told, Unanswered, TypeOK, Results
  <2>2. LockInv'
    BY <1>13 DEF Inv, Lost, TimesOut, NoDaemon, InProcess, Told, TypeOK, LockInv, Owns,
                 Holding, Calling
  <2>. QED BY <2>1, <2>2 DEF Inv
<1>14. ASSUME NEW c \in Clis, TakeEndpoint(c) PROVE Inv'
  <2>1. TypeOK'
    BY <1>14 DEF Inv, TakeEndpoint, Told, TypeOK, Results
  <2>2. LockInv'
    BY <1>14 DEF Inv, TakeEndpoint, Told, TypeOK, LockInv, Owns, Holding, Calling
  <2>. QED BY <2>1, <2>2 DEF Inv
<1>15. ASSUME NEW c \in Clis, NEW carried \in BOOLEAN, NEW r \in Results, Called(c, carried, r)
       PROVE  Inv'
  <2>1. TypeOK'
    BY <1>15 DEF Inv, Called, TypeOK
  <2>2. LockInv'
    BY <1>15 DEF Inv, Called, TypeOK, LockInv, Owns, Holding, Calling
  <2>. QED BY <2>1, <2>2 DEF Inv
<1>16. ASSUME NEW c \in Clis, Release(c) \/ Interrupt(c) PROVE Inv'
  <2>1. TypeOK'
    BY <1>16 DEF Inv, Release, Interrupt, Unlocked, TypeOK
  <2>2. LockInv'
    BY <1>16 DEF Inv, Release, Interrupt, Unlocked, TypeOK, LockInv, Owns, Holding, Calling
  <2>. QED BY <2>1, <2>2 DEF Inv
<1>17. ASSUME NEW c \in Clis, Accept(c) \/ Carry(c) PROVE Inv'
  <2>1. TypeOK'
    BY <1>17 DEF Inv, Accept, Carry, TypeOK
  <2>2. LockInv'
    BY <1>17 DEF Inv, Accept, Carry, TypeOK, LockInv, Owns, Holding, Calling
  <2>. QED BY <2>1, <2>2 DEF Inv
<1>18. ASSUME NEW c \in Clis, NEW r \in Results, Answer(c, r) PROVE Inv'
  <2>1. TypeOK'
    BY <1>18 DEF Inv, Answer, Told, TypeOK
  <2>2. LockInv'
    BY <1>18 DEF Inv, Answer, Told, TypeOK, LockInv, Owns, Holding, Calling
  <2>. QED BY <2>1, <2>2 DEF Inv
<1>19. ASSUME UNCHANGED vars PROVE Inv'
  BY <1>19 DEF Inv, vars, TypeOK, LockInv, Owns, Holding, Calling
<1>. QED
  BY <1>1, <1>4, <1>5, <1>6, <1>7, <1>8, <1>9, <1>10, <1>11, <1>12, <1>13, <1>14, <1>15,
     <1>16, <1>17, <1>18, <1>19 DEF Next, DaemonStep, CliStep, JobStep, Terminated

(* Types hold, and locks are where the code believes them to be, in every  *)
(* reachable state, for any number of daemons, invocations and identities. *)
THEOREM InstanceTypeCorrect == Spec => []TypeOK
<1>1. Inv => TypeOK
  BY DEF Inv
<1>. QED BY InitInv, StepInv, <1>1, PTL DEF Spec

(* At most one live endpoint per identity: the lock taken by daemon() and  *)
(* with_endpoint covers the whole life of what they create.                *)
THEOREM OneEndpointHolds == Spec => []OneEndpoint
<1>1. Inv => OneEndpoint
  BY DEF Inv, LockInv, OneEndpoint, UsesEndpoint, Owns, Holding
<1>. QED BY InitInv, StepInv, <1>1, PTL DEF Spec

(* What the lock holder may rely on about the socket file while it is the  *)
(* only one that could touch it.                                           *)
SocketInv ==
  \A d \in Daemons :
    /\ phase[d] \in {"found", "stale"} => sock # None /\ ~Listening(sock)
    /\ phase[d] = "clear" => sock = None
    /\ phase[d] \in {"bound", "serving", "closing"} => sock = d
    /\ phase[d] \in {"unlinked", "closed"} => sock = None
    /\ phase[d] # "in_use"

(* All processes read the same identity: the config is not edited. *)
OneIdentity == \A i, j \in Identities : i = j

(* With one identity at most one daemon is between lock and unlock. *)
LEMMA OneHolder ==
  ASSUME OneIdentity, Inv
  PROVE  \A d, e \in Daemons : Holding(d) /\ Holding(e) => d = e
BY DEF OneIdentity, Inv, LockInv, Owns

(* A step of daemon d alone keeps SocketInv, once d itself is in order and *)
(* nobody else holds the lock.                                             *)
LEMMA StepSocket ==
  ASSUME OneIdentity, Inv, SocketInv, [Next]_vars
  PROVE  SocketInv'
<1>. USE ProcsAssumption
<1>1. \A d, e \in Daemons : Holding(d) /\ Holding(e) => d = e
  BY OneHolder
<1>2. ASSUME NEW d \in Daemons, NEW i \in Identities, Start(d, i) PROVE SocketInv'
  BY <1>2 DEF Start, SocketInv, Listening, Inv, TypeOK
<1>3. ASSUME NEW d \in Daemons, Look(d) PROVE SocketInv'
  BY <1>1, <1>3 DEF Look, Abandon, Goto, SocketInv, Listening, Holding, Inv, TypeOK
<1>4. ASSUME NEW d \in Daemons, Probe(d) PROVE SocketInv'
  BY <1>1, <1>4 DEF Probe, Abandon, Goto, SocketInv, Listening, Holding, Inv, TypeOK
<1>5. ASSUME NEW d \in Daemons, Unlink(d) PROVE SocketInv'
  BY <1>1, <1>5 DEF Unlink, Abandon, Goto, SocketInv, Listening, Holding, Inv, TypeOK
<1>6. ASSUME NEW d \in Daemons, Bind(d) PROVE SocketInv'
  BY <1>1, <1>6 DEF Bind, Abandon, Goto, SocketInv, Listening, Holding, Inv, TypeOK
<1>7. ASSUME NEW d \in Daemons, Serve(d) \/ NoEndpoint(d) PROVE SocketInv'
  BY <1>1, <1>7 DEF Serve, NoEndpoint, Goto, SocketInv, Listening, Holding, Inv, TypeOK
<1>8. ASSUME NEW d \in Daemons, Stop(d) PROVE SocketInv'
  BY <1>1, <1>8 DEF Stop, SocketInv, Listening, Holding, Inv, TypeOK
<1>9. ASSUME NEW d \in Daemons, RemoveSocket(d) PROVE SocketInv'
  BY <1>1, <1>9 DEF RemoveSocket, Goto, SocketInv, Listening, Holding, Inv, TypeOK
<1>10. ASSUME NEW d \in Daemons, CloseListener(d) \/ Unlock(d) \/ Kill(d) PROVE SocketInv'
  BY <1>1, <1>10 DEF CloseListener, Unlock, Kill, SocketInv, Listening, Holding, Inv, TypeOK
<1>11. ASSUME UNCHANGED <<phase, sock>> PROVE SocketInv'
  BY <1>11 DEF SocketInv, Listening
<1>12. ASSUME NEW c \in Clis, NEW k \in {"exec", "peers", "probe", "history"},
              NEW i \in Identities, Invoke(c, k, i)
       PROVE  UNCHANGED <<phase, sock>>
  BY <1>12 DEF Invoke
<1>13. ASSUME NEW c \in Clis, CliStep(c) \/ JobStep(c) \/ Interrupt(c)
       PROVE  UNCHANGED <<phase, sock>>
  BY <1>13 DEF CliStep, JobStep, Interrupt, Connect, Lost, TimesOut, NoDaemon, InProcess,
               TakeEndpoint, Release, Called, Accept, Carry, Answer
<1>14. CASE UNCHANGED vars
  BY <1>14, <1>11 DEF vars
<1>. QED
  BY <1>2, <1>3, <1>4, <1>5, <1>6, <1>7, <1>8, <1>9, <1>10, <1>11, <1>12, <1>13, <1>14
  DEF Next, DaemonStep, Terminated

(* At first no daemon is past its start, whatever file was left behind.    *)
LEMMA InitSocket == Init => SocketInv
BY DEF Init, SocketInv

(* Unless the config is edited, a serving daemon owns the socket at the    *)
(* path, whatever other daemons were started, stopped or killed before.    *)
THEOREM ReachableHolds == ASSUME OneIdentity PROVE Spec => []Reachable
<1>1. Inv /\ SocketInv /\ [Next]_vars => SocketInv'
  BY StepSocket
<1>2. SocketInv => Reachable
  BY DEF SocketInv, Reachable
<1>. QED BY InitInv, StepInv, InitSocket, <1>1, <1>2, PTL DEF Spec

(* Unless the config is edited, a daemon that got the lock never finds the *)
(* socket in use: a stale file never keeps a daemon from starting.         *)
THEOREM LockImpliesSocketHolds == ASSUME OneIdentity PROVE Spec => []LockImpliesSocket
<1>1. Inv /\ SocketInv /\ [Next]_vars => SocketInv'
  BY StepSocket
<1>2. SocketInv => LockImpliesSocket
  BY DEF SocketInv, LockImpliesSocket
<1>. QED BY InitInv, StepInv, InitSocket, <1>1, <1>2, PTL DEF Spec

(* Unless the config is edited, bind_socket only ever removes a socket     *)
(* that nobody listens on.                                                 *)
THEOREM ReplacesOnlyStaleHolds == ASSUME OneIdentity PROVE Spec => ReplacesOnlyStale
<1>1. Inv /\ SocketInv /\ [Next]_vars => SocketInv'
  BY StepSocket
<1>2. SocketInv /\ [Next]_vars =>
        [\A d \in Daemons : phase[d] = "stale" /\ phase'[d] = "clear" => ~Listening(sock)]_vars
  BY DEF SocketInv
<1>. QED BY InitInv, StepInv, InitSocket, <1>1, <1>2, PTL DEF Spec, ReplacesOnlyStale

(* How far a request got on its one route, and what that allows the        *)
(* invocation to have been told.                                           *)
RouteOf(c) ==
  /\ ran[c] \in {0, 1}
  /\ cli[c] \in {"idle", "connect", "endpoint", "in_process", "no_daemon", "calling"} =>
       job[c] = "none" /\ ran[c] = 0 /\ result[c] = None
  /\ cli[c] = "waiting" => job[c] \notin {"none", "answered"} /\ result[c] = None
  /\ job[c] # "none" => cli[c] \in {"waiting", "done", "killed"}
  /\ job[c] \in {"queued", "running"} => ran[c] = 0
  /\ job[c] = "carried" => ran[c] = 1
  /\ result[c] = "ok" => ran[c] = 1 /\ job[c] \notin {"queued", "running"}
  /\ kind[c] = "exec" /\ result[c] \in {"err", "busy"} =>
       ran[c] = 0 /\ job[c] \notin {"queued", "running"}

RouteInv == \A c \in Clis : RouteOf(c)

(* A step that does not touch a request's record keeps its route. *)
LEMMA RouteFrame ==
  ASSUME NEW c \in Clis, RouteOf(c), cli'[c] = cli[c], kind'[c] = kind[c],
         job'[c] = job[c], ran'[c] = ran[c], result'[c] = result[c]
  PROVE  RouteOf(c)'
BY DEF RouteOf

(* Every step keeps each request on its one route. *)
LEMMA StepRoute ==
  ASSUME Inv, RouteInv, [Next]_vars
  PROVE  RouteInv'
<1>. USE ResultsAssumption
<1>. TypeOK
  BY DEF Inv
<1>1. ASSUME UNCHANGED <<cli, kind, ran, result>>, NEW d \in Daemons,
             Stop(d) \/ CloseListener(d) \/ Kill(d)
      PROVE  RouteInv'
  BY <1>1 DEF RouteInv, RouteOf, Stop, CloseListener, Kill, TypeOK
<1>2. ASSUME NEW d \in Daemons, DaemonStep(d) \/ Kill(d) PROVE RouteInv'
  <2>1. CASE UNCHANGED request
    BY <2>1 DEF request, RouteInv, RouteOf
  <2>2. UNCHANGED request \/ Stop(d) \/ CloseListener(d) \/ Kill(d)
    BY <1>2 DEF DaemonStep, Start, Look, Probe, Unlink, Bind, Serve, NoEndpoint, RemoveSocket,
                Unlock, Abandon, Goto
  <2>. QED BY <1>1, <2>1, <2>2 DEF Stop, CloseListener, Kill
<1>3. ASSUME NEW c \in Clis, NEW k \in {"exec", "peers", "probe", "history"},
             NEW i \in Identities, Invoke(c, k, i)
      PROVE  RouteInv'
  BY <1>3 DEF Invoke, RouteInv, RouteOf, TypeOK
<1>4. ASSUME NEW c \in Clis, CliStep(c) \/ JobStep(c) \/ Interrupt(c) PROVE RouteInv'
  <2>1. kind' = kind
    BY <1>4 DEF CliStep, JobStep, Interrupt, Connect, Lost, TimesOut, NoDaemon, InProcess,
                TakeEndpoint, Release, Called, Accept, Carry, Answer
  <2>2. ASSUME NEW b \in Clis \ {c} PROVE RouteOf(b)'
    <3>1. cli'[b] = cli[b] /\ job'[b] = job[b] /\ ran'[b] = ran[b] /\ result'[b] = result[b]
      BY <1>4, <2>2 DEF CliStep, JobStep, Interrupt, Connect, Lost, TimesOut, NoDaemon,
         InProcess, TakeEndpoint, Release, Called, Accept, Carry, Answer, Told, TypeOK
    <3>. QED BY <2>1, <2>2, <3>1, RouteFrame DEF RouteInv
  <2>3. RouteOf(c)'
    <3>. USE <2>1 DEF RouteInv, RouteOf, TypeOK
    <3>1. CASE Connect(c)
      <4>1. kind[c] \in {"exec", "peers", "probe", "history"}
        BY <3>1 DEF Connect, Inv, LockInv
      <4>2. Fallback(kind[c]) \in {"endpoint", "in_process", "no_daemon"}
        BY <4>1 DEF Fallback
      <4>. QED BY <3>1, <4>2 DEF Connect
    <3>2. CASE Lost(c) \/ TimesOut(c)
      BY <3>2 DEF Lost, TimesOut, Told, Unanswered
    <3>3. CASE NoDaemon(c) \/ InProcess(c)
      BY <3>3 DEF NoDaemon, InProcess, Told
    <3>4. CASE TakeEndpoint(c)
      BY <3>4 DEF TakeEndpoint, Told
    <3>5. CASE Release(c) \/ Interrupt(c)
      BY <3>5 DEF Release, Interrupt
    <3>6. ASSUME NEW carried \in BOOLEAN, NEW r \in Results, Called(c, carried, r)
          PROVE  RouteOf(c)'
      BY <3>6 DEF Called
    <3>7. CASE Accept(c) \/ Carry(c)
      BY <3>7 DEF Accept, Carry
    <3>8. ASSUME NEW r \in Results, Answer(c, r) PROVE RouteOf(c)'
      BY <3>8 DEF Answer, Told
    <3>. QED BY <1>4, <3>1, <3>2, <3>3, <3>4, <3>5, <3>6, <3>7, <3>8 DEF CliStep, JobStep
  <2>. QED BY <2>2, <2>3 DEF RouteInv
<1>5. CASE UNCHANGED vars
  BY <1>5 DEF vars, RouteInv, RouteOf
<1>. QED BY <1>2, <1>3, <1>4, <1>5 DEF Next, Terminated

(* A request is carried out at most once, by a daemon or by the process    *)
(* itself, and an exec reported as failed or refused never is.             *)
THEOREM RoutedOnceHolds == Spec => []RoutedOnce
<1>1. Init => RouteInv
  BY ResultsAssumption DEF Init, RouteInv, RouteOf
<1>2. Inv /\ RouteInv /\ [Next]_vars => RouteInv'
  BY StepRoute
<1>3. RouteInv => RoutedOnce
  BY DEF RouteInv, RouteOf, RoutedOnce
<1>. QED BY InitInv, StepInv, <1>1, <1>2, <1>3, PTL DEF Spec
=============================================================================
