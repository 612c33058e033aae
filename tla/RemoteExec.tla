----------------------------- MODULE RemoteExec -----------------------------
(***************************************************************************)
(* One `sshe @peer exec` from end to end, and the timers that nest in it:  *)
(* the CLI waits for its daemon (client.rs, via_daemon), the daemon for    *)
(* the call to the peer (server.rs, serve_local; transport.rs), the peer's *)
(* daemon for the command (server.rs, serve_stream).  Dialer, Daemon and   *)
(* Exec have the details of each; here each is one timed participant, and  *)
(* the question is whether the limits of transport.rs fit each other.      *)
(*                                                                         *)
(* lag counts the time that is nobody's work: a frame on its way, a task   *)
(* not yet scheduled; near is between the CLI and its daemon, far between  *)
(* the daemons.  MARGIN_SECS is meant for it.                              *)
(***************************************************************************)
EXTENDS Integers

CONSTANTS DialSecs, IoSecs, MarginSecs,  \* transport.rs, in ticks
          ExecSecs,                      \* MAX_EXEC_SECONDS, in ticks
          None

ASSUME SecsAssumption ==
  {DialSecs, IoSecs, MarginSecs, ExecSecs} \subseteq Nat \ {0}

Outcomes == {"reply", "error", "unknown"}
ASSUME NoOutcomeAssumption == None \notin Outcomes

VARIABLES
  cli,     \* "start", "waiting", "done"
  told,    \* what the CLI reports: the peer's "reply", an "error", "unknown"
  daemon,  \* "none", "reading", "connecting", "opening", "rpc", "writing", "over"
  answer,  \* what it sends to the CLI
  again,   \* the call is on its second connection
  peer,    \* "none", "reading", "running", "writing", "over"
  reply,   \* what the peer sends back: "reply", or "error" if it was busy
  ran,     \* the command was started
  left,    \* what is left of each participant's timer
  budget,  \* until the call's deadline
  lag,     \* history variable: time lost near and far
  faults   \* history variable: where a connection or a daemon was lost

vars == <<cli, told, daemon, answer, again, peer, reply, ran, left, budget, lag, faults>>
client == <<cli, told>>
caller == <<daemon, answer, again, budget>>
remote == <<peer, reply, ran>>
history == <<lag, faults>>

(* Mutant of RpcSecs: the limit of the slowest work and nothing more. *)
RpcSecsBare == ExecSecs

RpcSecs == ExecSecs + MarginSecs

CallSecs == DialSecs + IoSecs + RpcSecs

LocalSecs == CallSecs + MarginSecs

Init ==
  /\ cli = "start" /\ told = None
  /\ daemon = "none" /\ answer = None /\ again = FALSE
  /\ peer = "none" /\ reply = None /\ ran = FALSE
  /\ left = [cli |-> 0, daemon |-> 0, peer |-> 0]
  /\ budget = 0
  /\ lag = [near |-> 0, far |-> 0]
  /\ faults = {}

Smaller(a, b) == IF a < b THEN a ELSE b

-----------------------------------------------------------------------------
(* via_daemon: connected, the request is written and a reply awaited.      *)
Invoke ==
  /\ cli = "start"
  /\ cli' = "waiting"
  /\ daemon' = "reading"
  /\ left' = [left EXCEPT !.cli = LocalSecs, !.daemon = IoSecs]
  /\ UNCHANGED <<told, answer, again, budget, remote, history>>

Report(what) == cli' = "done" /\ told' = what

(* Mutant of NoReply: a failure is reported as such. *)
NoReplyPlain == "error"

(* unknown_if_exec of whatever ends the wait without a reply. *)
NoReply == "unknown"

(* LOCAL_TIMEOUT is up.  The daemon does not learn of it. *)
CliGivesUp ==
  /\ cli = "waiting" /\ left.cli = 0
  /\ Report(NoReply)
  /\ UNCHANGED <<caller, remote, left, history>>

(* The daemon stops, or cannot read or write the frame in time: the CLI    *)
(* sees the connection end.                                                *)
DaemonGone ==
  /\ daemon \notin {"none", "over"}
  /\ daemon' = "over"
  /\ IF cli = "waiting" THEN Report(NoReply) ELSE UNCHANGED client
  /\ left' = [left EXCEPT !.cli = 0, !.daemon = 0]
  /\ budget' = 0
  /\ faults' = faults \cup {"near"}
  /\ UNCHANGED <<answer, again, remote, lag>>

(* The answer reaches the CLI, if it still waits. *)
Answered ==
  /\ daemon = "writing"
  /\ daemon' = "over"
  /\ IF cli = "waiting" THEN Report(answer) ELSE UNCHANGED client
  /\ left' = [left EXCEPT !.cli = 0, !.daemon = 0]
  /\ UNCHANGED <<answer, again, budget, remote, history>>

-----------------------------------------------------------------------------
(* The daemon has an answer for the CLI; the write has IO_TIMEOUT. *)
Answer(what) ==
  /\ daemon' = "writing"
  /\ answer' = what
  /\ left' = [left EXCEPT !.daemon = IoSecs]
  /\ budget' = 0

(* within_deadline: the phase's limit, or what is left of the call.  With  *)
(* nothing left the phase fails before it starts.                          *)
Phase(phase, secs) ==
  IF budget > 0
  THEN /\ daemon' = phase
       /\ left' = [left EXCEPT !.daemon = Smaller(secs, budget)]
       /\ UNCHANGED <<answer, budget>>
  ELSE Answer("error")

(* serve_local: no permit, or an alias that is not configured. *)
Reject ==
  /\ daemon = "reading"
  /\ Answer("error")
  /\ UNCHANGED <<client, again, remote, history>>

(* forward: Dialer::call with its deadline; queueing and dialing first.    *)
Forward ==
  /\ daemon = "reading"
  /\ daemon' = "connecting"
  /\ budget' = CallSecs
  /\ left' = [left EXCEPT !.daemon = Smaller(DialSecs, CallSecs)]
  /\ UNCHANGED <<client, answer, again, remote, history>>

(* There is a connection, cached or dialed; a stream is opened on it.      *)
Connected ==
  /\ daemon = "connecting"
  /\ Phase("opening", IoSecs)
  /\ UNCHANGED <<client, again, remote, history>>

(* Mutant of Reconnect: the second attempt has a deadline of its own. *)
ReconnectAfresh ==
  /\ daemon = "opening" /\ ~again
  /\ again' = TRUE
  /\ daemon' = "connecting"
  /\ budget' = CallSecs
  /\ left' = [left EXCEPT !.daemon = DialSecs]
  /\ UNCHANGED <<client, answer, remote, history>>

(* The reused connection is dead and the exec not submitted: once more,    *)
(* with the same deadline.                                                 *)
Reconnect ==
  /\ daemon = "opening" /\ ~again
  /\ again' = TRUE
  /\ Phase("connecting", DialSecs)
  /\ UNCHANGED <<client, remote, history>>

(* Dialing or opening fails, or its time is up: nothing was submitted.     *)
Unsubmitted ==
  /\ daemon \in {"connecting", "opening"}
  /\ Answer("error")
  /\ UNCHANGED <<client, again, remote, history>>

(* The exec is sent. *)
Submit ==
  /\ daemon = "opening"
  /\ Phase("rpc", RpcSecs)
  /\ peer' = IF budget > 0 THEN "reading" ELSE peer
  /\ UNCHANGED <<client, again, reply, ran, history>>

(* RPC_TIMEOUT, or the deadline, is up: the command may have run.  The     *)
(* peer goes on.                                                           *)
RpcExpired ==
  /\ daemon = "rpc" /\ left.daemon = 0
  /\ Answer("unknown")
  /\ UNCHANGED <<client, again, remote, history>>

(* The connection or the stream is lost. *)
RpcLost ==
  /\ daemon = "rpc"
  /\ Answer("unknown")
  /\ faults' = faults \cup {"far"}
  /\ UNCHANGED <<client, again, remote, lag>>

-----------------------------------------------------------------------------
(* serve_stream reads the request, late perhaps, and starts the command    *)
(* with its time-out, or is busy.                                          *)
Start(secs) ==
  /\ peer = "reading"
  /\ peer' = "running"
  /\ ran' = TRUE
  /\ left' = [left EXCEPT !.peer = secs]
  /\ UNCHANGED <<client, caller, reply, history>>

Reply(what) ==
  /\ peer' = "writing"
  /\ reply' = what
  /\ left' = [left EXCEPT !.peer = IoSecs]
  /\ UNCHANGED <<client, caller, ran, history>>

Busy == peer = "reading" /\ Reply("error")

(* execute returns: the command ended, failed or was killed by its timer.  *)
Executed == peer = "running" /\ Reply("reply")

(* The peer's daemon stops, or gives up a frame; its command goes with it. *)
PeerGone ==
  /\ peer \in {"reading", "running", "writing"}
  /\ peer' = "over"
  /\ left' = [left EXCEPT !.peer = 0]
  /\ faults' = faults \cup {"far"}
  /\ UNCHANGED <<client, caller, reply, ran, lag>>

(* The reply arrives at the daemon, if that still waits. *)
Replied ==
  /\ peer = "writing"
  /\ peer' = "over"
  /\ IF daemon = "rpc"
     THEN /\ daemon' = "writing" /\ answer' = reply /\ budget' = 0
          /\ left' = [left EXCEPT !.peer = 0, !.daemon = IoSecs]
     ELSE left' = [left EXCEPT !.peer = 0] /\ UNCHANGED <<daemon, answer, budget>>
  /\ UNCHANGED <<client, again, reply, ran, history>>

Waiting == [cli |-> cli = "waiting", daemon |-> daemon \notin {"none", "over"},
            peer |-> peer \in {"reading", "running", "writing"}]
Calling == daemon \in {"connecting", "opening", "rpc"}

(* No timer is passed by; what is lost on the way is counted.  A request   *)
(* that nobody reads yet has no timer at the peer.                         *)
Tick ==
  /\ \E who \in DOMAIN Waiting : Waiting[who]
  /\ \A who \in DOMAIN Waiting : Waiting[who] /\ left[who] = 0 => who = "peer" /\ peer = "reading"
  /\ left' = [who \in DOMAIN Waiting |->
                IF Waiting[who] /\ left[who] > 0 THEN left[who] - 1 ELSE left[who]]
  /\ budget' = IF Calling THEN budget - 1 ELSE budget
  /\ lag' = [near |-> IF daemon \in {"reading", "writing"} /\ cli = "waiting"
                      THEN Smaller(lag.near + 1, MarginSecs) ELSE lag.near,
             far  |-> IF daemon = "rpc" /\ peer \in {"reading", "writing"}
                      THEN Smaller(lag.far + 1, MarginSecs) ELSE lag.far]
  /\ UNCHANGED <<client, daemon, answer, again, remote, faults>>

Terminated ==
  cli = "done" /\ (\A who \in DOMAIN Waiting : ~Waiting[who]) /\ UNCHANGED vars

Daemon == Reject \/ Forward \/ Connected \/ Reconnect \/ Unsubmitted \/ Submit
          \/ RpcExpired \/ RpcLost
Peer == (\E secs \in 1..ExecSecs : Start(secs)) \/ Busy \/ Executed \/ PeerGone \/ Replied

Next == Invoke \/ CliGivesUp \/ DaemonGone \/ Answered \/ Daemon \/ Peer \/ Tick \/ Terminated

Spec == Init /\ [][Next]_vars

-----------------------------------------------------------------------------
TypeOK ==
  /\ cli \in {"start", "waiting", "done"}
  /\ told \in Outcomes \cup {None}
  /\ daemon \in {"none", "reading", "connecting", "opening", "rpc", "writing", "over"}
  /\ answer \in Outcomes \cup {None}
  /\ again \in BOOLEAN /\ ran \in BOOLEAN
  /\ peer \in {"none", "reading", "running", "writing", "over"}
  /\ reply \in {None, "reply", "error"}
  /\ left \in [{"cli", "daemon", "peer"} -> Nat]
  /\ budget \in Nat
  /\ lag \in [{"near", "far"} -> 0..MarginSecs]
  /\ faults \subseteq {"near", "far"}

(* transport.rs line 37: "Leave the daemon time to return a response       *)
(* before the CLI gives up".  Unless the daemon is lost, or the way to it  *)
(* and back takes the whole margin, what the CLI reports is the daemon's   *)
(* answer, however long it queued, dialed, dialed again and waited.        *)
DaemonAnswersInTime ==
  cli = "done" => told = answer \/ "near" \in faults \/ lag.near = MarginSecs

(* transport.rs lines 25-28: the margin "on top of bounded server work".   *)
(* On the first connection an exec has the time it may take, even if       *)
(* queueing, dialing and opening used up theirs: its outcome is unknown    *)
(* only if the peer or the connection is lost or the way takes the margin. *)
PeerAnswersInTime ==
  answer = "unknown" => again \/ "far" \in faults \/ lag.far = MarginSecs

(* From end to end, an error other than "unknown" is a promise: the        *)
(* command was not run and will not be, whoever has given up meanwhile.    *)
ErrorMeansNotRun == told = "error" => ~ran /\ peer # "reading"
=============================================================================
