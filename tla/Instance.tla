------------------------------ MODULE Instance ------------------------------
(***************************************************************************)
(* Daemons and CLI invocations of one config path:                         *)
(* crates/sshe-node/src/identity.rs (lock), daemon.rs (bind_socket, start  *)
(* and teardown), client.rs (invoke and its routes).                       *)
(*                                                                         *)
(* The processes share the Unix socket's path, and the identity unless the *)
(* config is edited to name another one.  A daemon's locals are dropped in *)
(* reverse order: the socket's guard, the listener, the lock.  Processes   *)
(* may be killed at any time; the kernel then frees the lock and closes    *)
(* the listener but leaves the socket file.  What a request does once it   *)
(* is handed over is external here; Dialer and Sampler model it.           *)
(***************************************************************************)
EXTENDS Integers

CONSTANTS Daemons,  \* starts of `sshe daemon`
          Clis,     \* CLI invocations that need more than this process
          Identities,  \* the identities the config names over time
          Old,      \* a daemon that was killed before
          None

ASSUME ProcsAssumption == /\ Daemons \cap Clis = {}
                          /\ Old \notin Daemons \cup Clis
                          /\ None \notin Daemons \cup Clis \cup {Old}
ASSUME ResultsAssumption ==
  None \notin {"ok", "busy", "err", "unknown", "exec", "peers", "probe", "history"}

VARIABLES
  phase,   \* where each daemon is
  cli,     \* where each invocation is
  id,      \* the identity in the config that each process read
  lock,    \* who holds each identity's lock file
  sock,    \* whose socket is at the path, listening or not; None: no file
  kind,    \* what is asked: "exec" or "peers" (by endpoint), "probe", "history"
  link,    \* the daemon an invocation is connected to
  job,     \* its request there: "queued" for accept, "running", "dropped"...
  ran,     \* how often the request was carried out
  result   \* what the invocation is told

vars == <<phase, cli, id, lock, sock, kind, link, job, ran, result>>

Procs == Daemons \cup Clis

Init ==
  /\ phase = [d \in Daemons |-> "off"]
  /\ cli = [c \in Clis |-> "idle"]
  /\ id = [p \in Procs |-> None]
  /\ lock = [i \in Identities |-> None]
  /\ sock \in {None, Old}
  /\ kind = [c \in Clis |-> None]
  /\ link = [c \in Clis |-> None]
  /\ job = [c \in Clis |-> "none"]
  /\ ran = [c \in Clis |-> 0]
  /\ result = [c \in Clis |-> None]

request == <<cli, kind, link, job, ran, result>>

Listening(s) == s \in Daemons /\ phase[s] \in {"bound", "serving", "closing", "unlinked"}
Holding(d) == phase[d] \in {"locked", "found", "stale", "clear", "bound", "serving",
                            "closing", "unlinked", "closed"}
Calling(c) == cli[c] \in {"calling", "release"}

-----------------------------------------------------------------------------
(* Mutant of Start: the lock file is opened, not locked. *)
StartUnlocked(d, i) ==
  /\ phase[d] = "off"
  /\ id' = [id EXCEPT ![d] = i]
  /\ phase' = [phase EXCEPT ![d] = "locked"]
  /\ lock' = [lock EXCEPT ![i] = d]
  /\ UNCHANGED <<sock, request>>

(* daemon(): the config is read; the identity's lock, or IdentityBusy.     *)
Start(d, i) ==
  /\ phase[d] = "off"
  /\ id' = [id EXCEPT ![d] = i]
  /\ \/ /\ lock[i] = None
        /\ lock' = [lock EXCEPT ![i] = d]
        /\ phase' = [phase EXCEPT ![d] = "locked"]
     \/ /\ lock[i] # None
        /\ phase' = [phase EXCEPT ![d] = "failed"]
        /\ UNCHANGED lock
  /\ UNCHANGED <<sock, request>>

(* The lock is given back, or the kernel frees it. *)
Unlocked(p) == [i \in Identities |-> IF lock[i] = p THEN None ELSE lock[i]]

(* An error before there is a socket to clean up. *)
Abandon(d, why) ==
  /\ phase' = [phase EXCEPT ![d] = why]
  /\ lock' = Unlocked(d)
  /\ UNCHANGED <<id, sock, request>>

Goto(d, next) ==
  /\ phase' = [phase EXCEPT ![d] = next]
  /\ UNCHANGED <<id, lock, request>>

(* bind_socket, one filesystem call at a time: is there a file?  A path    *)
(* that is too long, a directory that is not private or a file that is no  *)
(* socket is an error.                                                     *)
Look(d) ==
  /\ phase[d] = "locked"
  /\ \/ Abandon(d, "failed")
     \/ sock = None /\ Goto(d, "clear") /\ UNCHANGED sock
     \/ sock # None /\ Goto(d, "found") /\ UNCHANGED sock

(* A connection to it shows whether a daemon listens. *)
Probe(d) ==
  /\ phase[d] = "found"
  /\ \/ sock = None /\ Abandon(d, "failed")
     \/ Listening(sock) /\ Abandon(d, "in_use")
     \/ sock # None /\ ~Listening(sock) /\ Goto(d, "stale") /\ UNCHANGED sock

Unlink(d) ==
  /\ phase[d] = "stale"
  /\ \/ sock = None /\ Abandon(d, "failed")
     \/ sock # None /\ sock' = None /\ Goto(d, "clear")

(* bind creates the file, or finds one again. *)
Bind(d) ==
  /\ phase[d] = "clear"
  /\ \/ sock # None /\ Abandon(d, "in_use")
     \/ sock = None /\ sock' = d /\ Goto(d, "bound")

(* The endpoint is up and the loop accepts; or it cannot be created, and   *)
(* the teardown begins.                                                    *)
Serve(d) == phase[d] = "bound" /\ Goto(d, "serving") /\ UNCHANGED sock
NoEndpoint(d) == phase[d] = "bound" /\ Goto(d, "closing") /\ UNCHANGED sock

(* The loop ends: requests in service are aborted, their streams dropped.  *)
Stop(d) ==
  /\ phase[d] = "serving"
  /\ phase' = [phase EXCEPT ![d] = "closing"]
  /\ job' = [c \in Clis |-> IF link[c] = d /\ job[c] \in {"running", "carried"}
                            THEN "dropped" ELSE job[c]]
  /\ UNCHANGED <<id, cli, lock, sock, kind, link, ran, result>>

(* The endpoint is closed; SocketGuard::drop removes what is at the path.  *)
RemoveSocket(d) ==
  /\ phase[d] = "closing"
  /\ sock' = None
  /\ Goto(d, "unlinked")

(* The listener is dropped, and with it every connection it did not accept. *)
CloseListener(d) ==
  /\ phase[d] = "unlinked"
  /\ phase' = [phase EXCEPT ![d] = "closed"]
  /\ job' = [c \in Clis |-> IF link[c] = d /\ job[c] = "queued" THEN "dropped" ELSE job[c]]
  /\ UNCHANGED <<id, cli, lock, sock, kind, link, ran, result>>

Unlock(d) ==
  /\ phase[d] = "closed"
  /\ phase' = [phase EXCEPT ![d] = "exited"]
  /\ lock' = Unlocked(d)
  /\ UNCHANGED <<id, sock, request>>

(* SIGKILL or a power failure's end: nothing is cleaned up in user space.  *)
Kill(d) ==
  /\ Holding(d)
  /\ phase' = [phase EXCEPT ![d] = "killed"]
  /\ lock' = Unlocked(d)
  /\ job' = [c \in Clis |-> IF link[c] = d /\ job[c] \in {"queued", "running", "carried"}
                            THEN "dropped" ELSE job[c]]
  /\ UNCHANGED <<id, cli, sock, kind, link, ran, result>>

-----------------------------------------------------------------------------
(* What an invocation does without a daemon: route(), lines 26-39.         *)
Fallback(k) == CASE k \in {"exec", "peers"} -> "endpoint"
                 [] k = "probe"            -> "in_process"
                 [] k = "history"          -> "no_daemon"

Invoke(c, k, i) ==
  /\ cli[c] = "idle"
  /\ id' = [id EXCEPT ![c] = i]
  /\ cli' = [cli EXCEPT ![c] = "connect"]
  /\ kind' = [kind EXCEPT ![c] = k]
  /\ UNCHANGED <<phase, lock, sock, link, job, ran, result>>

(* via_daemon connects and writes its request, or there is nobody: no      *)
(* socket, or one nobody listens on.                                       *)
Connect(c) ==
  /\ cli[c] = "connect"
  /\ \/ /\ Listening(sock)
        /\ link' = [link EXCEPT ![c] = sock]
        /\ job' = [job EXCEPT ![c] = "queued"]
        /\ cli' = [cli EXCEPT ![c] = "waiting"]
     \/ /\ ~Listening(sock)
        /\ cli' = [cli EXCEPT ![c] = Fallback(kind[c])]
        /\ UNCHANGED <<link, job>>
  /\ UNCHANGED <<id, phase, lock, sock, kind, ran, result>>

Told(c, r) ==
  /\ cli' = [cli EXCEPT ![c] = "done"]
  /\ result' = [result EXCEPT ![c] = r]

(* The daemon accepts and reads it, or drops it unread. *)
Accept(c) ==
  /\ job[c] = "queued" /\ phase[link[c]] = "serving"
  /\ \E next \in {"running", "dropped"} : job' = [job EXCEPT ![c] = next]
  /\ UNCHANGED <<id, phase, cli, lock, sock, kind, link, ran, result>>

(* forward or dispatch carries it out; the invocation need not be there.   *)
Carry(c) ==
  /\ job[c] = "running"
  /\ job' = [job EXCEPT ![c] = "carried"]
  /\ ran' = [ran EXCEPT ![c] = @ + 1]
  /\ UNCHANGED <<id, phase, cli, lock, sock, kind, link, result>>

(* The answer: "busy" or an error before it was carried out, else success  *)
(* or, from the daemon's own call, an unknown outcome.                     *)
Answer(c, r) ==
  /\ r \in (IF job[c] = "carried" THEN {"ok", "unknown"} ELSE {"busy", "err", "unknown"})
  /\ job[c] \in {"running", "carried"}
  /\ job' = [job EXCEPT ![c] = "answered"]
  /\ IF cli[c] = "waiting" THEN Told(c, r) ELSE UNCHANGED <<cli, result>>
  /\ UNCHANGED <<id, phase, lock, sock, kind, link, ran>>

(* unknown_if_exec *)
Unanswered(c) == IF kind[c] = "exec" THEN "unknown" ELSE "err"

(* Mutant of Lost: a lost daemon is taken for an absent one.               *)
LostFallsBack(c) ==
  /\ cli[c] = "waiting" /\ job[c] = "dropped"
  /\ cli' = [cli EXCEPT ![c] = Fallback(kind[c])]
  /\ UNCHANGED <<id, phase, lock, sock, kind, link, job, ran, result>>

(* The stream ends without an answer. *)
Lost(c) ==
  /\ cli[c] = "waiting" /\ job[c] = "dropped"
  /\ Told(c, Unanswered(c))
  /\ UNCHANGED <<id, phase, lock, sock, kind, link, job, ran>>

(* LOCAL_TIMEOUT; the daemon goes on. *)
TimesOut(c) ==
  /\ cli[c] = "waiting"
  /\ Told(c, Unanswered(c))
  /\ UNCHANGED <<id, phase, lock, sock, kind, link, job, ran>>

(* history without a daemon. *)
NoDaemon(c) ==
  /\ cli[c] = "no_daemon"
  /\ Told(c, "err")
  /\ UNCHANGED <<id, phase, lock, sock, kind, link, job, ran>>

(* in_process: the key must be readable, then the probe is run here.       *)
InProcess(c) ==
  /\ cli[c] = "in_process"
  /\ \/ Told(c, "err") /\ UNCHANGED ran
     \/ Told(c, "ok") /\ ran' = [ran EXCEPT ![c] = @ + 1]
  /\ UNCHANGED <<id, phase, lock, sock, kind, link, job>>

(* Mutant of TakeEndpoint: a temporary endpoint does not need the lock.    *)
TakeEndpointUnlocked(c) ==
  /\ cli[c] = "endpoint"
  /\ cli' = [cli EXCEPT ![c] = "calling"]
  /\ UNCHANGED <<id, phase, lock, sock, kind, link, job, ran, result>>

(* with_endpoint: the lock is held for the endpoint's lifetime.  It is an  *)
(* error if the alias is unknown or the lock is taken.                     *)
TakeEndpoint(c) ==
  /\ cli[c] = "endpoint"
  /\ \/ /\ lock[id[c]] = None
        /\ lock' = [lock EXCEPT ![id[c]] = c]
        /\ cli' = [cli EXCEPT ![c] = "calling"]
        /\ UNCHANGED result
     \/ Told(c, "err") /\ UNCHANGED lock
  /\ UNCHANGED <<phase, id, sock, kind, link, job, ran>>

(* The call on the own endpoint ends, carried out or not. *)
Called(c, carried, r) ==
  /\ cli[c] = "calling"
  /\ r \in (IF carried THEN {"ok", "unknown"} ELSE {"busy", "err", "unknown"})
  /\ cli' = [cli EXCEPT ![c] = "release"]
  /\ result' = [result EXCEPT ![c] = r]
  /\ ran' = [ran EXCEPT ![c] = @ + (IF carried THEN 1 ELSE 0)]
  /\ UNCHANGED <<id, phase, lock, sock, kind, link, job>>

(* ep.close, then the lock goes. *)
Release(c) ==
  /\ cli[c] = "release"
  /\ cli' = [cli EXCEPT ![c] = "done"]
  /\ lock' = Unlocked(c)
  /\ UNCHANGED <<id, phase, sock, kind, link, job, ran, result>>

(* The invocation is interrupted; a request it sent is not taken back.     *)
Interrupt(c) ==
  /\ cli[c] \notin {"idle", "done", "killed"}
  /\ cli' = [cli EXCEPT ![c] = "killed"]
  /\ lock' = Unlocked(c)
  /\ UNCHANGED <<id, phase, sock, kind, link, job, ran, result>>

Terminated ==
  /\ \A d \in Daemons : phase[d] \notin {"off"} /\ ~Holding(d)
  /\ \A c \in Clis : cli[c] \in {"done", "killed"}
  /\ UNCHANGED vars

DaemonStep(d) == \/ \E i \in Identities : Start(d, i)
                 \/ Look(d) \/ Probe(d) \/ Unlink(d) \/ Bind(d)
                 \/ Serve(d) \/ NoEndpoint(d) \/ Stop(d) \/ RemoveSocket(d)
                 \/ CloseListener(d) \/ Unlock(d)

Results == {"ok", "busy", "err", "unknown"}
CliStep(c) == \/ Connect(c) \/ Lost(c) \/ TimesOut(c) \/ NoDaemon(c)
              \/ InProcess(c) \/ TakeEndpoint(c) \/ Release(c)
              \/ \E carried \in BOOLEAN, r \in Results : Called(c, carried, r)

JobStep(c) == Accept(c) \/ Carry(c) \/ \E r \in Results : Answer(c, r)

Next == \/ \E d \in Daemons : DaemonStep(d) \/ Kill(d)
        \/ \E c \in Clis, i \in Identities, k \in {"exec", "peers", "probe", "history"} :
             Invoke(c, k, i)
        \/ \E c \in Clis : CliStep(c) \/ JobStep(c) \/ Interrupt(c)
        \/ Terminated

Spec == Init /\ [][Next]_vars

-----------------------------------------------------------------------------
(* Types; in particular an invocation is only ever connected to a daemon   *)
(* that was listening.                                                     *)
TypeOK ==
  /\ phase \in [Daemons -> {"off", "locked", "found", "stale", "clear", "bound", "serving",
                            "closing", "unlinked", "closed", "exited", "failed", "in_use",
                            "killed"}]
  /\ cli \in [Clis -> {"idle", "connect", "waiting", "endpoint", "in_process", "no_daemon",
                       "calling", "release", "done", "killed"}]
  /\ id \in [Procs -> Identities \cup {None}]
  /\ lock \in [Identities -> Procs \cup {None}]
  /\ sock \in Daemons \cup {Old, None}
  /\ kind \in [Clis -> {"exec", "peers", "probe", "history", None}]
  /\ link \in [Clis -> Daemons \cup {None}]
  /\ job \in [Clis -> {"none", "queued", "running", "carried", "answered", "dropped"}]
  /\ ran \in [Clis -> Nat]
  /\ result \in [Clis -> Results \cup {None}]

(* One endpoint per identity: a daemon and a temporary endpoint, or two of *)
(* either, never use the key at the same time.                             *)
UsesEndpoint(p) == \/ p \in Daemons /\ phase[p] \in {"serving", "closing"}
                   \/ p \in Clis /\ Calling(p)
OneEndpoint == \A p, q \in Procs :
                 UsesEndpoint(p) /\ UsesEndpoint(q) /\ id[p] = id[q] => p = q

(* A serving daemon can be reached: the socket at the path is its own,     *)
(* whatever daemons were started, stopped or killed meanwhile; so the CLI  *)
(* goes its own way only while no daemon serves.                           *)
Reachable == \A d \in Daemons : phase[d] = "serving" => sock = d

(* With the lock there is nobody to fight for the socket: a daemon never   *)
(* finds it in use, and a stale file never keeps it from starting.         *)
LockImpliesSocket == \A d \in Daemons : phase[d] # "in_use"

(* daemon.rs line 127: bind_socket replaces "only a stale socket no daemon *)
(* is listening on".                                                       *)
ReplacesOnlyStale ==
  [][\A d \in Daemons : phase[d] = "stale" /\ phase'[d] = "clear" => ~Listening(sock)]_vars

(* A request is carried out at most once, on whichever route; an exec that *)
(* is reported as failed or refused was not and will not be carried out.   *)
RoutedOnce ==
  \A c \in Clis :
    /\ ran[c] <= 1
    /\ result[c] = "ok" => ran[c] = 1
    /\ kind[c] = "exec" /\ result[c] \in {"err", "busy"} =>
         ran[c] = 0 /\ job[c] \notin {"queued", "running"}
=============================================================================
