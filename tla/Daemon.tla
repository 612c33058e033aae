------------------------------- MODULE Daemon -------------------------------
(***************************************************************************)
(* Admission, execution and shutdown in a running daemon:                  *)
(* crates/sshe-node/src/daemon.rs (the select loop), server.rs,            *)
(* dispatch.rs, and sshe-core/src/exec.rs for what a request leaves        *)
(* running.                                                                *)
(*                                                                         *)
(* A connection is one incoming QUIC handshake and what follows; its task  *)
(* serves its streams, and holds its slot, until every request received on *)
(* it is finished.  A local connection is one request and one task.  The   *)
(* semaphores are counters.  Peers, the local CLI and the commands are     *)
(* external: they may stall, vanish or leave processes behind.             *)
(***************************************************************************)
EXTENDS Integers, FiniteSets

CONSTANTS Conns,           \* incoming connections
          Trusted,         \* the ones from an EndpointId in [peers]
          PeerReqs,        \* requests that arrive on them
          LocalReqs,       \* connections to the Unix socket, one request each
          MaxConnections,  \* MAX_CONNECTIONS
          MaxConcurrent,   \* daemon.max_concurrent
          None

ASSUME ConnsAssumption ==
  Trusted \subseteq Conns /\ None \notin Conns \cup {"result", "busy"}
ASSUME ReqsAssumption == PeerReqs \cap LocalReqs = {}
ASSUME DaemonLimitsAssumption ==
  MaxConnections \in Nat \ {0} /\ MaxConcurrent \in Nat \ {0}

VARIABLES
  daemon,  \* "up", "stopping" once the loop is left, "down"
  conn,    \* where each connection's task is
  req,     \* where each request is
  on,      \* the connection a peer request came in on
  answer,  \* what is being written back
  child,   \* the process group a request runs: its leader "alive", only
           \* background members "lingering", or nothing left
  free     \* each semaphore's free permits

vars == <<daemon, conn, req, on, answer, child, free>>

Reqs == PeerReqs \cup LocalReqs

(* connection_slots, local_slots, peer_permits and local_permits.          *)
Limit == [conn |-> MaxConnections, localconn |-> 2 * MaxConcurrent,
          peer |-> MaxConcurrent, local |-> MaxConcurrent]

Source(r) == IF r \in PeerReqs THEN "peer" ELSE "local"
Acquire(s) == free' = [free EXCEPT ![s] = @ - 1]
Release(s) == free' = [free EXCEPT ![s] = @ + 1]

(* Mutant of Permits: one pool for everybody's requests.                   *)
PermitsShared(r) == "peer"

(* The semaphore a request draws its permit from. *)
Permits(r) == Source(r)

Init ==
  /\ daemon = "up"
  /\ conn = [c \in Conns |-> "none"]
  /\ req = [r \in Reqs |-> "idle"]
  /\ on = [r \in PeerReqs |-> None]
  /\ answer = [r \in Reqs |-> None]
  /\ child = [r \in Reqs |-> "none"]
  /\ free = Limit

HoldsSlot(c) == conn[c] \in {"handshake", "serving", "draining"}
Open(r) == req[r] \in {"reading", "running", "replying"}
Living(r) == child[r] \in {"alive", "lingering"}

-----------------------------------------------------------------------------
(* The loop's ep.accept arm: a slot for the handshake, or it is refused.   *)
Incoming(c) ==
  /\ daemon = "up" /\ conn[c] = "none"
  /\ \/ /\ free.conn > 0
        /\ Acquire("conn")
        /\ conn' = [conn EXCEPT ![c] = "handshake"]
     \/ /\ free.conn = 0
        /\ conn' = [conn EXCEPT ![c] = "refused"]
        /\ UNCHANGED free
  /\ UNCHANGED <<daemon, req, on, answer, child>>

(* handle_peer ends: the slot is dropped with the task. *)
EndConn(c) ==
  /\ conn' = [conn EXCEPT ![c] = "ended"]
  /\ Release("conn")
  /\ UNCHANGED <<daemon, req, on, answer, child>>

(* The handshake completes; a stranger is told UNAUTHORIZED at once.       *)
Handshaken(c) ==
  /\ conn[c] = "handshake"
  /\ \/ /\ c \in Trusted
        /\ conn' = [conn EXCEPT ![c] = "serving"]
        /\ UNCHANGED <<daemon, req, on, answer, child, free>>
     \/ c \notin Trusted /\ EndConn(c)

(* Mutant of HandshakeFails: the handshake is awaited without a timer.     *)
HandshakeUntimed(c) == FALSE /\ EndConn(c)

(* It fails, or HANDSHAKE_TIMEOUT is up. *)
HandshakeFails(c) == conn[c] = "handshake" /\ EndConn(c)

(* accept_bi returns a stream: one more request in flight on c.            *)
OpenStream(r, c) ==
  /\ conn[c] = "serving" /\ req[r] = "idle"
  /\ req' = [req EXCEPT ![r] = "reading"]
  /\ on' = [on EXCEPT ![r] = c]
  /\ UNCHANGED <<daemon, conn, answer, child, free>>

(* Mutant of Closes: the requests in flight are dropped with the stream.   *)
ClosesAtOnce(c) ==
  /\ conn[c] = "serving"
  /\ LET mine == {r \in PeerReqs : on[r] = c /\ Open(r)}
     IN /\ req' = [r \in Reqs |-> IF r \in mine THEN "over" ELSE req[r]]
        /\ child' = [r \in Reqs |-> IF r \in mine THEN "none" ELSE child[r]]
        /\ free' = [free EXCEPT !.conn = @ + 1,
                       !.peer = @ + Cardinality({r \in mine : req[r] = "running"})]
  /\ conn' = [conn EXCEPT ![c] = "ended"]
  /\ UNCHANGED <<daemon, on, answer>>

(* accept_bi fails: no more streams, but what was received goes on.        *)
Closes(c) ==
  /\ conn[c] = "serving"
  /\ conn' = [conn EXCEPT ![c] = "draining"]
  /\ UNCHANGED <<daemon, req, on, answer, child, free>>

(* serve_peer returns when nothing is in flight any more. *)
Drained(c) ==
  /\ conn[c] = "draining"
  /\ \A r \in PeerReqs : on[r] = c => ~Open(r)
  /\ EndConn(c)

(* The loop's listener.accept arm: without a local slot the connection is  *)
(* dropped unread.                                                         *)
AcceptLocal(r) ==
  /\ daemon = "up" /\ req[r] = "idle"
  /\ \/ /\ free.localconn > 0
        /\ Acquire("localconn")
        /\ req' = [req EXCEPT ![r] = "reading"]
     \/ /\ free.localconn = 0
        /\ req' = [req EXCEPT ![r] = "dropped"]
        /\ UNCHANGED free
  /\ UNCHANGED <<daemon, conn, on, answer, child>>

-----------------------------------------------------------------------------
(* The request is read and a permit is free: dispatch or forward starts in *)
(* the same poll, and with it the command, if there is one and it spawns.  *)
Admit(r, spawns) ==
  /\ req[r] = "reading" /\ free[Permits(r)] > 0
  /\ Acquire(Permits(r))
  /\ req' = [req EXCEPT ![r] = "running"]
  /\ child' = [child EXCEPT ![r] = IF spawns THEN "alive" ELSE "none"]
  /\ UNCHANGED <<daemon, conn, on, answer>>

(* BUSY: answered, not executed. *)
Refuse(r) ==
  /\ req[r] = "reading" /\ free[Permits(r)] = 0
  /\ req' = [req EXCEPT ![r] = "replying"]
  /\ answer' = [answer EXCEPT ![r] = "busy"]
  /\ UNCHANGED <<daemon, conn, on, child, free>>

(* Requests that are over: nothing of them is left.                        *)
Forget(over) ==
  /\ req' = [r \in Reqs |-> IF r \in over THEN "over" ELSE req[r]]
  /\ on' = [r \in PeerReqs |-> IF r \in over THEN None ELSE on[r]]
  /\ answer' = [r \in Reqs |-> IF r \in over THEN None ELSE answer[r]]

(* Mutant of EndReq: the slot is not dropped with the task.                *)
EndReqKeepsSlot(r) ==
  /\ Forget({r})
  /\ UNCHANGED <<daemon, conn, child, free>>

(* The end of a local task frees its slot; a stream has none of its own.   *)
EndReq(r) ==
  /\ Forget({r})
  /\ IF r \in LocalReqs THEN Release("localconn") ELSE UNCHANGED free
  /\ UNCHANGED <<daemon, conn, child>>

(* No whole frame within IO_TIMEOUT. *)
ReadFails(r) == req[r] = "reading" /\ EndReq(r)

(* The command ends; what it put in the background may stay in its group.  *)
ChildExits(r, rest) ==
  /\ child[r] = "alive"
  /\ child' = [child EXCEPT ![r] = rest]
  /\ UNCHANGED <<daemon, conn, req, on, answer, free>>

(* Mutant of Reap: only the leader is killed, as kill_on_drop alone does.  *)
ReapLeader(r) ==
  child' = [child EXCEPT ![r] = IF child[r] = "lingering" THEN "lingering" ELSE "none"]

(* ProcessGroup::drop: execute is over, killpg whatever is left of it.     *)
Reap(r) == child' = [child EXCEPT ![r] = "none"]

(* The command is over, or its timer is up and it is not, or the call is:  *)
(* an answer.  The permit goes with the match arm, before it is written.   *)
Finish(r) ==
  /\ req[r] = "running"
  /\ req' = [req EXCEPT ![r] = "replying"]
  /\ answer' = [answer EXCEPT ![r] = "result"]
  /\ Release(Permits(r))
  /\ Reap(r)
  /\ UNCHANGED <<daemon, conn, on>>

(* write_frame succeeds, fails or is given up after IO_TIMEOUT: whichever, *)
(* the task is over.                                                       *)
Reply(r) == req[r] = "replying" /\ EndReq(r)

-----------------------------------------------------------------------------
(* A signal, or an accept arm that fails: the loop is left, abort_all.     *)
Stop ==
  /\ daemon = "up"
  /\ daemon' = "stopping"
  /\ UNCHANGED <<conn, req, on, answer, child, free>>

(* Mutant of AbortConn: connections being served are left to their peers.  *)
AbortConnUnlessServing(c) ==
  /\ daemon = "stopping" /\ conn[c] = "handshake"
  /\ EndConn(c)

(* An aborted task is dropped at its await, with all it holds.  Until then *)
(* it may get on with what it was doing.                                   *)
AbortConn(c) ==
  LET mine == {r \in PeerReqs : on[r] = c /\ Open(r)} IN
  /\ daemon = "stopping" /\ HoldsSlot(c)
  /\ conn' = [conn EXCEPT ![c] = "ended"]
  /\ Forget(mine)
  /\ child' = [r \in Reqs |-> IF r \in mine THEN "none" ELSE child[r]]
  /\ free' = [free EXCEPT !.conn = @ + 1,
                 !.peer = @ + Cardinality({r \in mine : req[r] = "running"})]
  /\ UNCHANGED daemon

AbortLocal(r) ==
  /\ daemon = "stopping" /\ Open(r)
  /\ Forget({r})
  /\ Reap(r)
  /\ free' = [free EXCEPT !.localconn = @ + 1,
                 !.local = @ + (IF req[r] = "running" THEN 1 ELSE 0)]
  /\ UNCHANGED <<daemon, conn>>

(* Every task is joined and the endpoint closed: daemon() returns.         *)
Down ==
  /\ daemon = "stopping"
  /\ \A c \in Conns : ~HoldsSlot(c)
  /\ \A r \in LocalReqs : ~Open(r)
  /\ daemon' = "down"
  /\ UNCHANGED <<conn, req, on, answer, child, free>>

Terminated == daemon = "down" /\ UNCHANGED vars

ConnStep(c) == Incoming(c) \/ Handshaken(c) \/ HandshakeFails(c) \/ Closes(c) \/ Drained(c)
ReqStep(r) == \/ \E spawns \in BOOLEAN : Admit(r, spawns)
              \/ Refuse(r) \/ ReadFails(r)
              \/ Finish(r) \/ Reply(r)
              \/ \E rest \in {"lingering", "none"} : ChildExits(r, rest)

Next == \/ \E c \in Conns : ConnStep(c) \/ AbortConn(c)
        \/ \E r \in PeerReqs, c \in Conns : OpenStream(r, c)
        \/ \E r \in LocalReqs : AcceptLocal(r) \/ AbortLocal(r)
        \/ \E r \in Reqs : ReqStep(r)
        \/ Stop \/ Down \/ Terminated

Spec == Init /\ [][Next]_vars

(* Every wait of a task has a timer: HANDSHAKE_ and IO_TIMEOUT, the        *)
(* command's own, the call's deadline; and an aborted connection is        *)
(* dropped.  Nobody has to connect, send, read or close anything, and the  *)
(* daemon may run forever.                                                 *)
ConnTimesOut(c) == HandshakeFails(c) \/ Drained(c)
TimesOut(r) == ReadFails(r) \/ Finish(r) \/ Reply(r)

FairSpec ==
  /\ Spec
  /\ \A c \in Conns : WF_vars(ConnTimesOut(c)) /\ WF_vars(AbortConn(c))
  /\ \A r \in Reqs : WF_vars(TimesOut(r))
  /\ WF_vars(Down)

-----------------------------------------------------------------------------
(* Types; and a request in flight on a connection keeps its task alive.    *)
TypeOK ==
  /\ daemon \in {"up", "stopping", "down"}
  /\ conn \in [Conns -> {"none", "refused", "handshake", "serving", "draining", "ended"}]
  /\ req \in [Reqs -> {"idle", "dropped", "reading", "running", "replying", "over"}]
  /\ on \in [PeerReqs -> Conns \cup {None}]
  /\ answer \in [Reqs -> {"result", "busy", None}]
  /\ child \in [Reqs -> {"none", "alive", "lingering"}]
  /\ free \in [DOMAIN Limit -> Nat]
  /\ \A r \in PeerReqs : Open(r) => on[r] \in Trusted /\ HoldsSlot(on[r])

Running(s) == {r \in Reqs : Source(r) = s /\ req[r] = "running"}

(* The limits hold and no permit is lost, on any way out of a task: the    *)
(* free permits and the holders always add up to the limit.                *)
PermitsAccounted ==
  /\ free.conn = MaxConnections - Cardinality({c \in Conns : HoldsSlot(c)})
  /\ free.localconn = 2 * MaxConcurrent - Cardinality({r \in LocalReqs : Open(r)})
  /\ \A s \in {"peer", "local"} : free[s] = MaxConcurrent - Cardinality(Running(s))

(* No process of a command outlives its request, be it finished, timed     *)
(* out, drained or aborted; so none is left when daemon() returns.         *)
NoOrphans == \A r \in Reqs : Living(r) => req[r] = "running" /\ daemon # "down"

(* Each source has its own permits: a request is told "busy" only when     *)
(* max_concurrent requests of the same source are running, so that peers   *)
(* cannot lock the local CLI out, nor the CLI the peers.                   *)
BusyOnlyByOwnSource ==
  [][\A r \in Reqs :
       answer[r] = None /\ answer'[r] = "busy" =>
         Cardinality(Running(Source(r))) = MaxConcurrent]_vars

(* server.rs line 49: "Requests already received still complete".  While   *)
(* the daemon is up a running request is left only with an answer, even    *)
(* when its connection is gone.                                            *)
ReceivedStillCompletes ==
  [][\A r \in Reqs :
       daemon = "up" /\ req[r] = "running" /\ req'[r] # "running" =>
         req'[r] = "replying" /\ answer'[r] = "result"]_vars

(* config.rs line 36, README.md line 150: requests in excess of the limit  *)
(* get a busy reply.  So no local request is turned away without one.      *)
ExcessGetsBusyReply == \A r \in LocalReqs : req[r] # "dropped"

(* A connection that is no longer served gives its slot back: neither a    *)
(* handshake that stalls nor a long drain keeps one forever.               *)
SlotsComeBack == \A c \in Conns : conn[c] \in {"handshake", "draining"} ~>
                                    conn[c] \in {"serving", "ended"}

(* Once stopping, the daemon stops, whatever peers and commands do.        *)
Stops == daemon = "stopping" ~> daemon = "down"
=============================================================================
