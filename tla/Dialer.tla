------------------------------- MODULE Dialer -------------------------------
(***************************************************************************)
(* Remote calls over one cached connection per peer:                       *)
(* crates/sshe-node/src/transport.rs, with the classification of           *)
(* connection errors in error.rs.                                          *)
(*                                                                         *)
(* A caller is one Dialer::call.  Time is relative: budget is what remains *)
(* of the call's deadline, left what remains of the phase's timer.  A      *)
(* caller holds its peer's lock exactly while it dials.  A connection is   *)
(* named by the call and the attempt that dialed it, or by its peer if it  *)
(* was there before the calls of the model.  The peer and the network are  *)
(* external: they may answer, refuse, reset a stream or close the          *)
(* connection at any time, and a submitted request may still be run after  *)
(* the caller has stopped waiting.                                         *)
(***************************************************************************)
EXTENDS Integers

CONSTANTS Callers,
          Peers,       \* the configured peers
          Stranger,    \* an address that is not a configured peer
          DialLimit, IoLimit, RpcLimit,  \* DIAL_, IO_ and RPC_TIMEOUT, in ticks
          CloseReasons,                  \* how connections end here
          None

ASSUME LimitsAssumption ==
  DialLimit \in Nat \ {0} /\ IoLimit \in Nat \ {0} /\ RpcLimit \in Nat \ {0}
ASSUME NamesAssumption == Stranger \notin Peers /\ None \notin Peers \cup {Stranger}
ASSUME NoneAssumption ==
  None \notin {"exec", "query", "ok", "busy", "err", "unknown"}
ASSUME CallersAssumption == Callers \cap Peers = {}
ASSUME ReasonsAssumption ==
  CloseReasons \subseteq {"unauthorized", "connection_closed", "timed_out",
                          "application_closed", "other"}
ASSUME NoConnAssumption == None \notin (Callers \X {1, 2}) \cup (Peers \X {0})

VARIABLES
  pc,       \* where each call is
  req,      \* "exec" or "query", every other request; None before the call
  peer,     \* whom it is for
  attempt,  \* 1, or 2 on the replacement connection
  via,      \* the connection in use
  reused,   \* it was cached, not dialed by this attempt
  failed,   \* Failed: submitted, failure kind; and whether the connection died
  budget,   \* until the call's deadline
  left,     \* until the phase's timer fires
  result,   \* what the call returned
  conn,     \* each connection's state: "open", why it closed, or "none":
            \* not there yet, or closed and in no call's hands any more
  cached,   \* the connection in each peer's slot
  remote,   \* what became of each attempt's exec at the peer; queries change
            \* nothing there and are not followed
  spent     \* history variable: how long the call has taken

vars == <<pc, req, peer, attempt, via, reused, failed, budget, left, result,
          conn, cached, remote, spent>>

CallLimit == DialLimit + IoLimit + RpcLimit
Attempts == {1, 2}
Earlier(p) == <<p, 0>>
Conns == (Callers \X Attempts) \cup (Peers \X {0})

(* error.rs: how a closed connection is reported.  "application_closed"    *)
(* stands for Reset and LocallyClosed too, which are reported alike.       *)
connection_kind(reason) ==
  CASE reason = "unauthorized"       -> "unauthorized"
    [] reason = "connection_closed"  -> "refused"
    [] reason = "timed_out"          -> "timeout"
    [] reason = "application_closed" -> "connection_lost"
    [] OTHER                         -> "other"

NotFailed == [submitted |-> FALSE, kind |-> "none", dead |-> FALSE]

Init ==
  /\ pc = [c \in Callers |-> "idle"]
  /\ req = [c \in Callers |-> None]
  /\ peer = [c \in Callers |-> None]
  /\ attempt = [c \in Callers |-> 1]
  /\ via = [c \in Callers |-> None]
  /\ reused = [c \in Callers |-> FALSE]
  /\ failed = [c \in Callers |-> NotFailed]
  /\ budget = [c \in Callers |-> 0]
  /\ left = [c \in Callers |-> 0]
  /\ result = [c \in Callers |-> None]
  /\ cached \in [Peers -> {None} \cup (Peers \X {0})]
  /\ \A p \in Peers : cached[p] \in {None, Earlier(p)}
  /\ conn = [i \in Conns |-> IF \E p \in Peers : cached[p] = i THEN "open" ELSE "none"]
  /\ remote = [c \in Callers |-> [a \in Attempts |-> "none"]]
  /\ spent = [c \in Callers |-> 0]

call == <<req, peer, attempt, spent>>
route == <<via, reused>>
net == <<conn, cached>>

Active(c) == pc[c] \in {"queue", "dial", "open", "rpc", "failed"}
Smaller(a, b) == IF a < b THEN a ELSE b

(* within_deadline: a phase's own limit, never past the call's deadline.   *)
Phase(c, limit) == Smaller(limit, budget[c])

(* c lets go of its connection; a closed one nobody else uses is gone.     *)
LetGo(c) ==
  conn' = [i \in Conns |->
             IF /\ via[c] = i /\ conn[i] # "open"
                /\ \A d \in Callers \ {c} : via[d] # i
             THEN "none" ELSE conn[i]]

(* The call is over: what it held is dropped. *)
Drop(c) ==
  /\ left' = [left EXCEPT ![c] = 0]
  /\ budget' = [budget EXCEPT ![c] = 0]
  /\ spent' = [spent EXCEPT ![c] = 0]
  /\ attempt' = [attempt EXCEPT ![c] = 1]
  /\ via' = [via EXCEPT ![c] = None]
  /\ reused' = [reused EXCEPT ![c] = FALSE]
  /\ failed' = [failed EXCEPT ![c] = NotFailed]
  /\ LetGo(c)

(* Starting a phase.  With no time left its work is not even polled.       *)
Begin(c, phase, limit) ==
  /\ pc' = [pc EXCEPT ![c] = IF budget[c] > 0 THEN phase ELSE "failed"]
  /\ left' = [left EXCEPT ![c] = IF budget[c] > 0 THEN Phase(c, limit) ELSE 0]
  /\ failed' = [failed EXCEPT ![c] =
                  IF budget[c] > 0 THEN NotFailed
                  ELSE [NotFailed EXCEPT !.kind = "timeout"]]

Fail(c, submitted, kind, dead) ==
  /\ pc' = [pc EXCEPT ![c] = "failed"]
  /\ left' = [left EXCEPT ![c] = 0]
  /\ failed' = [failed EXCEPT ![c] =
                  [submitted |-> submitted, kind |-> kind, dead |-> dead]]

Return(c, r) ==
  /\ pc' = [pc EXCEPT ![c] = "done"]
  /\ result' = [result EXCEPT ![c] = r]
  /\ Drop(c)

-----------------------------------------------------------------------------
(* Dialer::call: a configured peer's slot is queued for, another is an     *)
(* error at once.                                                          *)
Call(c, r, p) ==
  /\ pc[c] = "idle"
  /\ req' = [req EXCEPT ![c] = r]
  /\ peer' = [peer EXCEPT ![c] = p]
  /\ \/ /\ p \in Peers
        /\ pc' = [pc EXCEPT ![c] = "queue"]
        /\ budget' = [budget EXCEPT ![c] = CallLimit]
        /\ left' = [left EXCEPT ![c] = Smaller(DialLimit, CallLimit)]
        /\ UNCHANGED <<attempt, spent, route, failed, result, conn>>
     \/ /\ p \notin Peers
        /\ Return(c, "err")
  /\ UNCHANGED <<cached, remote>>

Locked(p) == \E d \in Callers : pc[d] = "dial" /\ peer[d] = p

Reusable(p) == cached[p] # None /\ conn[cached[p]] = "open"

(* connection(): the lock is granted and the slot's connection is alive.   *)
Reuse(c) ==
  LET p == peer[c] IN
  /\ pc[c] = "queue" /\ ~Locked(p) /\ Reusable(p)
  /\ via' = [via EXCEPT ![c] = cached[p]]
  /\ reused' = [reused EXCEPT ![c] = TRUE]
  /\ Begin(c, "open", IoLimit)
  /\ UNCHANGED <<call, budget, result, net, remote>>

(* Mutant of Dial: the slot is not locked while someone dials.             *)
DialUnlocked(c) ==
  LET p == peer[c] IN
  /\ pc[c] = "queue" /\ ~Reusable(p)
  /\ pc' = [pc EXCEPT ![c] = "dial"]
  /\ UNCHANGED <<call, route, failed, budget, left, result, net, remote>>

(* The lock is granted and there is nothing to reuse.  Queueing and        *)
(* dialing are one phase: the timer runs on.                               *)
Dial(c) ==
  LET p == peer[c] IN
  /\ pc[c] = "queue" /\ ~Locked(p) /\ ~Reusable(p)
  /\ pc' = [pc EXCEPT ![c] = "dial"]
  /\ UNCHANGED <<call, route, failed, budget, left, result, net, remote>>

(* ep.connect succeeds: the slot is filled before the lock is released.    *)
Connected(c) ==
  LET i == <<c, attempt[c]>> IN
  /\ pc[c] = "dial"
  /\ conn' = [conn EXCEPT ![i] = "open"]
  /\ cached' = [cached EXCEPT ![peer[c]] = i]
  /\ via' = [via EXCEPT ![c] = i]
  /\ reused' = [reused EXCEPT ![c] = FALSE]
  /\ Begin(c, "open", IoLimit)
  /\ UNCHANGED <<call, budget, result, remote>>

(* connect_failed: connection()'s error is returned as it is, on the       *)
(* second attempt too.                                                     *)
ConnectFailed(c) ==
  /\ pc[c] = "dial"
  /\ Return(c, "err")
  /\ UNCHANGED <<req, peer, cached, remote>>

(* The timer of queueing and dialing. *)
NotConnected(c) ==
  /\ pc[c] \in {"queue", "dial"} /\ left[c] = 0
  /\ Return(c, "err")
  /\ UNCHANGED <<req, peer, cached, remote>>

(* open_bi succeeds; the first poll of the next phase submits.             *)
Submit(c) ==
  /\ pc[c] = "open" /\ conn[via[c]] = "open"
  /\ Begin(c, "rpc", RpcLimit)
  /\ remote' = IF budget[c] > 0 /\ req[c] = "exec"
               THEN [remote EXCEPT ![c][attempt[c]] = "sent"] ELSE remote
  /\ UNCHANGED <<call, route, budget, result, net>>

(* The connection is dead: open_bi, the write or the read reports why.     *)
ConnectionDied(c) ==
  /\ pc[c] \in {"open", "rpc"} /\ conn[via[c]] # "open"
  /\ Fail(c, pc[c] = "rpc", connection_kind(conn[via[c]]), TRUE)
  /\ UNCHANGED <<call, route, budget, result, net, remote>>

(* The stream alone fails: reset or stopped by the peer, ended early, or   *)
(* holding something that is not a response.                               *)
StreamFailed(c, kind) ==
  /\ pc[c] = "rpc" /\ conn[via[c]] = "open"
  /\ Fail(c, TRUE, kind, FALSE)
  /\ UNCHANGED <<call, route, budget, result, net, remote>>

(* Mutant of Expired: the response is awaited without a timer.             *)
ExpiredOpening(c) ==
  /\ pc[c] = "open" /\ left[c] = 0 /\ conn[via[c]] = "open"
  /\ Fail(c, FALSE, "timeout", FALSE)
  /\ UNCHANGED <<call, route, budget, result, net, remote>>

(* Mutant of Expired: only a response counts as proof of submission.       *)
ExpiredUnsubmitted(c) ==
  /\ pc[c] \in {"open", "rpc"} /\ left[c] = 0 /\ conn[via[c]] = "open"
  /\ Fail(c, FALSE, "timeout", FALSE)
  /\ UNCHANGED <<call, route, budget, result, net, remote>>

(* The timer of opening the stream or of the RPC.  Tokio polls the work    *)
(* first, so a dead connection is noticed before the timer.                *)
Expired(c) ==
  /\ pc[c] \in {"open", "rpc"} /\ left[c] = 0 /\ conn[via[c]] = "open"
  /\ Fail(c, pc[c] = "rpc", "timeout", FALSE)
  /\ UNCHANGED <<call, route, budget, result, net, remote>>

(* The response is read; a busy peer answers too. *)
Respond(c) ==
  /\ pc[c] = "rpc" /\ conn[via[c]] = "open"
  /\ \/ Return(c, "ok") /\ (req[c] = "exec" => remote[c][attempt[c]] = "ran")
     \/ Return(c, "busy") /\ (req[c] = "exec" => remote[c][attempt[c]] = "busy")
  /\ UNCHANGED <<req, peer, cached, remote>>

(* Mutant of Retryable: a submitted exec is sent again as well. *)
RetryableSubmitted(c) ==
  /\ reused[c] /\ attempt[c] = 1
  /\ failed[c].kind = "connection_lost"
  /\ conn[via[c]] # "open"

(* The guard of call_until's retry arm, lines 148-151. *)
Retryable(c) ==
  /\ reused[c] /\ attempt[c] = 1
  /\ ~failed[c].submitted \/ req[c] # "exec"
  /\ failed[c].kind = "connection_lost"
  /\ conn[via[c]] # "open"

(* Mutant of Retry: the second attempt gets a deadline of its own.         *)
RetryAfresh(c) ==
  /\ pc[c] = "failed" /\ Retryable(c)
  /\ attempt' = [attempt EXCEPT ![c] = 2]
  /\ via' = [via EXCEPT ![c] = None]
  /\ reused' = [reused EXCEPT ![c] = FALSE]
  /\ LetGo(c)
  /\ Begin(c, "queue", DialLimit)
  /\ budget' = [budget EXCEPT ![c] = CallLimit]
  /\ UNCHANGED <<req, peer, spent, result, cached, remote>>

(* Once more through connection(), with the same deadline. *)
Retry(c) ==
  /\ pc[c] = "failed" /\ Retryable(c)
  /\ attempt' = [attempt EXCEPT ![c] = 2]
  /\ via' = [via EXCEPT ![c] = None]
  /\ reused' = [reused EXCEPT ![c] = FALSE]
  /\ LetGo(c)
  /\ Begin(c, "queue", DialLimit)
  /\ UNCHANGED <<req, peer, spent, budget, result, cached, remote>>

(* unknown_if_exec, for what failed after it was submitted. *)
Reported(c) == IF failed[c].submitted /\ req[c] = "exec" THEN "unknown" ELSE "err"

GiveUp(c) ==
  /\ pc[c] = "failed" /\ ~Retryable(c)
  /\ Return(c, Reported(c))
  /\ UNCHANGED <<req, peer, cached, remote>>

(* The call is dropped at an await: check_peer's own timeout, or shutdown. *)
Cancel(c) ==
  /\ pc[c] \in {"queue", "dial", "open", "rpc"}
  /\ pc' = [pc EXCEPT ![c] = "gone"]
  /\ Drop(c)
  /\ UNCHANGED <<req, peer, result, cached, remote>>

-----------------------------------------------------------------------------
(* The peer has read the exec and runs it, or has no permit for it; the    *)
(* caller may have stopped waiting long ago.                               *)
PeerRuns(c, a) ==
  /\ remote[c][a] = "sent"
  /\ remote' = [remote EXCEPT ![c][a] = "ran"]
  /\ UNCHANGED <<pc, call, route, failed, budget, left, result, net>>

PeerBusy(c, a) ==
  /\ remote[c][a] = "sent"
  /\ remote' = [remote EXCEPT ![c][a] = "busy"]
  /\ UNCHANGED <<pc, call, route, failed, budget, left, result, net>>

ConnectionCloses(i, reason) ==
  /\ conn[i] = "open"
  /\ conn' = [conn EXCEPT ![i] = IF \E c \in Callers : via[c] = i THEN reason ELSE "none"]
  /\ UNCHANGED <<pc, call, route, failed, budget, left, result, cached, remote>>

(* Timers fire when they are due: time does not pass a timer that is up.   *)
Tick ==
  /\ \E c \in Callers : Active(c)
  /\ \A c \in Callers : Active(c) => left[c] > 0
  /\ left' = [c \in Callers |-> IF Active(c) THEN left[c] - 1 ELSE left[c]]
  /\ budget' = [c \in Callers |-> IF Active(c) THEN budget[c] - 1 ELSE budget[c]]
  /\ spent' = [c \in Callers |-> IF Active(c) THEN spent[c] + 1 ELSE spent[c]]
  /\ UNCHANGED <<pc, req, peer, attempt, route, failed, result, net, remote>>

(* Every call has returned. *)
Terminated == /\ \A c \in Callers : pc[c] \in {"done", "gone"}
              /\ UNCHANGED vars

Step(c) == \/ Reuse(c) \/ Dial(c) \/ Connected(c) \/ ConnectFailed(c)
           \/ NotConnected(c) \/ Submit(c) \/ ConnectionDied(c) \/ Expired(c) \/ Respond(c)
           \/ \E kind \in {"connection_lost", "other"} : StreamFailed(c, kind)
           \/ Retry(c) \/ GiveUp(c)

Environment == \/ \E c \in Callers, a \in Attempts : PeerRuns(c, a) \/ PeerBusy(c, a)
               \/ \E i \in Conns, reason \in CloseReasons : ConnectionCloses(i, reason)

Next == \/ \E c \in Callers, r \in {"exec", "query"}, p \in Peers \cup {Stranger} :
             Call(c, r, p)
        \/ \E c \in Callers : Step(c) \/ Cancel(c)
        \/ Environment
        \/ Tick
        \/ Terminated

Spec == Init /\ [][Next]_vars

(* Timers fire and ready tasks are polled.  Nothing is assumed of the peer *)
(* or the network: NotConnected, Expired or ConnectionDied ends each wait.  *)
Prompt(c) == \/ NotConnected(c) \/ ConnectionDied(c) \/ Expired(c)
             \/ Retry(c) \/ GiveUp(c)

FairSpec == /\ Spec /\ WF_vars(Tick)
            /\ \A c \in Callers : WF_vars(Prompt(c))

-----------------------------------------------------------------------------
Kinds == {"none", "unauthorized", "refused", "timeout", "connection_lost", "other"}

(* Types; and a call that uses a connection has one, to a configured peer. *)
TypeOK ==
  /\ pc \in [Callers -> {"idle", "queue", "dial", "open", "rpc", "failed", "done", "gone"}]
  /\ req \in [Callers -> {"exec", "query", None}]
  /\ peer \in [Callers -> Peers \cup {Stranger, None}]
  /\ attempt \in [Callers -> Attempts]
  /\ via \in [Callers -> Conns \cup {None}]
  /\ reused \in [Callers -> BOOLEAN]
  /\ failed \in [Callers -> [submitted : BOOLEAN, kind : Kinds, dead : BOOLEAN]]
  /\ budget \in [Callers -> Int]
  /\ left \in [Callers -> Nat]
  /\ result \in [Callers -> {"ok", "busy", "err", "unknown", None}]
  /\ conn \in [Conns -> {"none", "open"} \cup CloseReasons]
  /\ cached \in [Peers -> Conns \cup {None}]
  /\ remote \in [Callers -> [Attempts -> {"none", "sent", "ran", "busy"}]]
  /\ spent \in [Callers -> Nat]
  /\ \A c \in Callers : /\ Active(c) => peer[c] \in Peers
                        /\ pc[c] \in {"open", "rpc"} => via[c] # None

(* The peer never runs an exec twice, whatever is reused, closed, retried  *)
(* or late.                                                                *)
ExecAtMostOnce ==
  \A c \in Callers : req[c] = "exec" =>
    \A a, b \in Attempts :
      remote[c][a] \in {"sent", "ran"} /\ remote[c][b] \in {"sent", "ran"} => a = b

(* What the caller of an exec is told stays true: an error means that the  *)
(* request never left, "busy" that it will not run, success that it ran.   *)
ToldTheTruth ==
  \A c \in Callers : req[c] = "exec" =>
    /\ result[c] = "err" => \A a \in Attempts : remote[c][a] = "none"
    /\ result[c] = "busy" => \A a \in Attempts : remote[c][a] \in {"none", "busy"}
    /\ result[c] = "ok" => \E a \in Attempts : remote[c][a] = "ran"

(* At most one connection to a peer is open, and it is the one in the      *)
(* peer's slot: concurrent calls share one dial and no connection leaks.   *)
ConnPeer(i) == IF i[1] \in Peers THEN i[1] ELSE peer[i[1]]
OneConnection ==
  \A i \in Conns : conn[i] = "open" => cached[ConnPeer(i)] = i

(* A call never outlives its deadline, however often it queues, dials and  *)
(* starts over: no phase and no retry gets a fresh budget.                 *)
ReturnsByDeadline ==
  \A c \in Callers : spent[c] <= CallLimit /\ (Active(c) => left[c] <= CallLimit - spent[c])

(* Every call ends, whatever the peer and the network do or do not do: in  *)
(* the end, as each caller calls once, nobody is left in a call.           *)
EveryCallEnds == <>[](\A c \in Callers : ~Active(c))

(* README.md line 149 and the comment on Dialer::call: a reused connection *)
(* that turns out to be dead is replaced once, unless that could run an    *)
(* exec twice.                                                             *)
DeadReusedConnectionIsReplaced ==
  [][\A c \in Callers :
       /\ pc[c] = "failed" /\ failed[c].dead
       /\ reused[c] /\ attempt[c] = 1
       /\ ~failed[c].submitted \/ req[c] # "exec"
       => pc'[c] # "done"]_vars

(* The exec calls as ExecOutcome sees them. *)
OutcomeOf(c) == IF req[c] # "exec" \/ pc[c] \notin {"done", "gone"} THEN "pending"
                ELSE IF pc[c] = "gone" THEN "gone" ELSE result[c]
SubmittedOf(c) == \E a \in Attempts : remote[c][a] # "none"
RanOf(c) == \E a \in Attempts : remote[c][a] = "ran"

outcomeBar == [c \in Callers |-> OutcomeOf(c)]
submittedBar == [c \in Callers |-> SubmittedOf(c)]
ranBar == [c \in Callers |-> RanOf(c)]

Abstract == INSTANCE ExecOutcome
  WITH outcome <- outcomeBar, submitted <- submittedBar, ran <- ranBar

(* Dialer keeps ExecOutcome's promise for every exec. *)
ImplementsExecOutcome == Abstract!Spec
=============================================================================
