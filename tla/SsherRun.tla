------------------------------ MODULE SsherRun ------------------------------
(***************************************************************************)
(* One invocation of ssher from its arguments to the end of the session:   *)
(* crates/ssher/src/app.rs (run), ssher/selector.rs and proxy.rs.  The     *)
(* cache file is module SsherCache's subject; here it is a candidate that  *)
(* is used without a probe, or nothing.                                    *)
(*                                                                         *)
(* External: the resolver, the endpoints, ping, ssh at stdin and stdout    *)
(* and the server at the socket.  The stream of a direction is counted in  *)
(* units; io::copy holds at most one.  Time passes only while ssher has    *)
(* nothing to do.                                                          *)
(***************************************************************************)
EXTENDS SsherConfig

CONSTANTS Hosts,      \* aliases that may be in the file
          Host,       \* --host
          Endpoints,  \* addresses that may be listed
          Secs,       \* values of a time-out or a TTL in the file, in ticks
          Second,     \* ticks in a second
          MaxUnits    \* bound on what each side sends

ASSUME RunAssumption ==
  /\ Host \in Hosts /\ Secs \subseteq Nat /\ Second \in Nat \ {0} /\ MaxUnits \in Nat
  /\ None \notin Endpoints

Results == {"invalid", "unreachable", "unconnected", "ok", "broken"}
ASSUME NoResultAssumption == None \notin Results

Ways == {"up", "down"}  \* stdin to socket, socket to stdout

VARIABLES
  pc,     \* "start", "read", "probe", "connect", "bridge", "over"
  home,   \* $HOME is set
  final,  \* FinalConfig
  probe,  \* each endpoint's probe: "none", "resolving", "waiting", "answered", "failed"
  left,   \* until the timer of a probe fires
  best,   \* the endpoint in use
  early,  \* history variable: the endpoints that answered before all others
  late,   \* history variable: time has passed since
  sent,   \* units each side has sent
  held,   \* whether io::copy holds a unit it has read
  put,    \* units delivered
  shut,   \* the sides that will send no more
  half,   \* each copy: "copying", "done", "failed"
  fin,    \* the socket's write side was shut down
  result  \* of the invocation

vars == <<pc, home, final, probe, left, best, early, late, sent, held, put, shut, half,
          fin, result>>
selection == <<probe, early, late>>
streams == <<sent, held, put, shut, half, fin>>

NoTimers == [e \in Endpoints |-> 0]

Init ==
  /\ pc = "start" /\ home \in BOOLEAN /\ final = None
  /\ probe = [e \in Endpoints |-> "none"]
  /\ left = NoTimers
  /\ best = None /\ early = {} /\ late = FALSE
  /\ sent = [w \in Ways |-> 0] /\ held = [w \in Ways |-> FALSE]
  /\ put = [w \in Ways |-> 0] /\ shut = {}
  /\ half = [w \in Ways |-> "copying"] /\ fin = FALSE
  /\ result = None

Exit(r) == pc' = "over" /\ result' = r

-----------------------------------------------------------------------------
(* A port of zero and a config that is not found end the invocation.       *)
FindConfig(port, asked, present) ==
  /\ pc = "start"
  /\ IF port = 0 \/ resolve_config_path(asked, home, present) = None
     THEN Exit("invalid") ELSE pc' = "read" /\ UNCHANGED result
  /\ UNCHANGED <<home, final, left, best, selection, streams>>

(* read_config_file fails; or `id -u`, which the default cache path needs, *)
(* cannot be run.                                                          *)
ConfigUnreadable ==
  /\ pc = "read"
  /\ Exit("invalid")
  /\ UNCHANGED <<home, final, left, best, selection, streams>>

(* The config is read, validated and resolved; then the cache, unless it   *)
(* is to be refreshed, names a listed endpoint or nothing.                 *)
Configure(config, cached) ==
  LET resolved == resolve_host(config, Host, home) IN
  /\ pc = "read"
  /\ \/ /\ ~validate(config) \/ resolved = None
        /\ Exit("invalid")
        /\ UNCHANGED <<final, left, best, selection>>
     \/ /\ validate(config) /\ resolved # None
        /\ final' = resolved
        /\ \/ /\ cached \in resolved.host.endpoints
              /\ best' = cached
              /\ pc' = "connect"
              /\ UNCHANGED <<left, selection>>
           \/ /\ cached = None
              /\ probe' = [e \in Endpoints |->
                             IF e \in resolved.host.endpoints THEN "resolving" ELSE "none"]
              /\ pc' = "probe"
              /\ UNCHANGED <<left, best, early, late>>
        /\ UNCHANGED result
  /\ UNCHANGED <<home, streams>>

-----------------------------------------------------------------------------
Timeout == final.host.probe_timeout_ms

(* ping -W takes whole seconds, at least one. *)
PingTimeout == LET s == Timeout \div Second IN (IF s < 1 THEN 1 ELSE s) * Second

Pending(e) == probe[e] \in {"resolving", "waiting"}

(* probe_tcp has an address: its timer starts only now.  ping resolves the *)
(* name itself and then waits as long as it was told to.                   *)
Resolved(e) ==
  /\ pc = "probe" /\ probe[e] = "resolving"
  /\ probe' = [probe EXCEPT ![e] = "waiting"]
  /\ left' = [left EXCEPT ![e] = IF final.host.selection_mode = "lowest_tcp_latency"
                                 THEN Timeout ELSE PingTimeout]
  /\ UNCHANGED <<pc, home, final, best, early, late, streams, result>>

(* The connection is accepted, or the ping answered. *)
Answers(e) ==
  /\ pc = "probe" /\ probe[e] = "waiting"
  /\ probe' = [probe EXCEPT ![e] = "answered"]
  /\ left' = [left EXCEPT ![e] = 0]
  /\ early' = IF late THEN early ELSE early \cup {e}
  /\ UNCHANGED <<pc, home, final, best, late, streams, result>>

(* Mutant of ProbeFails: a connect without a time-out. *)
ProbeFailsUntimed(e) ==
  /\ pc = "probe" /\ probe[e] = "resolving"
  /\ probe' = [probe EXCEPT ![e] = "failed"]
  /\ UNCHANGED <<pc, home, final, left, best, early, late, streams, result>>

(* It is refused, the name does not resolve, ping prints something else,   *)
(* or the time is up.                                                      *)
ProbeFails(e) ==
  /\ pc = "probe" /\ Pending(e)
  /\ probe' = [probe EXCEPT ![e] = "failed"]
  /\ left' = [left EXCEPT ![e] = 0]
  /\ UNCHANGED <<pc, home, final, best, early, late, streams, result>>

(* Mutant of CanTake: all the probes are awaited first. *)
CanTakeLast(e) ==
  pc = "probe" /\ probe[e] = "answered" /\ \A d \in Endpoints : ~Pending(d)

CanTake(e) == pc = "probe" /\ probe[e] = "answered"

(* select_best_endpoint returns the first success of FuturesUnordered; the *)
(* other probes are dropped, the cache is written.  Then the proxy         *)
(* connects again.                                                         *)
Take(e) ==
  /\ CanTake(e)
  /\ best' = e
  /\ pc' = "connect"
  /\ left' = NoTimers
  /\ UNCHANGED <<home, final, selection, streams, result>>

AllFailed ==
  pc = "probe" /\ \A e \in final.host.endpoints : probe[e] = "failed"

(* Error::Unreachable, when no probe is left. *)
Unreachable ==
  /\ AllFailed
  /\ Exit("unreachable")
  /\ UNCHANGED <<home, final, left, best, selection, streams>>

-----------------------------------------------------------------------------
(* proxy_tcp_stdio: connected within the time-out, or not: refused, or the *)
(* endpoint, cached perhaps, is gone.  No other one is tried.              *)
Connected ==
  /\ pc = "connect"
  /\ pc' = "bridge"
  /\ UNCHANGED <<home, final, left, best, selection, streams, result>>

ConnectFails ==
  /\ pc = "connect"
  /\ Exit("unconnected")
  /\ UNCHANGED <<home, final, left, best, selection, streams>>

bystanders == <<home, final, left, best, selection>>

(* ssh and the server send, and stop sending. *)
Send(w) ==
  /\ pc = "bridge" /\ w \notin shut /\ sent[w] < MaxUnits
  /\ sent' = [sent EXCEPT ![w] = @ + 1]
  /\ UNCHANGED <<pc, bystanders, held, put, shut, half, fin, result>>

Shut(w) ==
  /\ pc = "bridge" /\ w \notin shut
  /\ shut' = shut \cup {w}
  /\ UNCHANGED <<pc, bystanders, sent, held, put, half, fin, result>>

Copying(w) == pc = "bridge" /\ half[w] = "copying"
Taken(w) == put[w] + (IF held[w] THEN 1 ELSE 0)

(* io::copy reads ... *)
CopyReads(w) ==
  /\ Copying(w) /\ ~held[w] /\ sent[w] > Taken(w)
  /\ held' = [held EXCEPT ![w] = TRUE]
  /\ UNCHANGED <<pc, bystanders, sent, put, shut, half, fin, result>>

(* ... and writes; write_all waits until the other side takes it. *)
CopyWrites(w) ==
  /\ Copying(w) /\ held[w]
  /\ held' = [held EXCEPT ![w] = FALSE]
  /\ put' = [put EXCEPT ![w] = @ + 1]
  /\ UNCHANGED <<pc, bystanders, sent, shut, half, fin, result>>

(* The source has ended and everything is written: shutdown() of the       *)
(* socket's write side, or flush() of stdout, which stays open.            *)
CopyEnds(w) ==
  /\ Copying(w) /\ w \in shut /\ ~held[w] /\ sent[w] = put[w]
  /\ half' = [half EXCEPT ![w] = "done"]
  /\ fin' = (fin \/ w = "up")
  /\ UNCHANGED <<pc, bystanders, sent, held, put, shut, result>>

(* A read or a write fails: the connection was reset, or ssh is gone.      *)
CopyFails(w) ==
  /\ Copying(w)
  /\ half' = [half EXCEPT ![w] = "failed"]
  /\ UNCHANGED <<pc, bystanders, sent, held, put, shut, fin, result>>

(* Mutant of BothOver: select! in place of join!. *)
BothOverEither == pc = "bridge" /\ \E w \in Ways : half[w] # "copying"

BothOver == pc = "bridge" /\ \A w \in Ways : half[w] # "copying"

(* join!: whatever became of one half, the other is awaited. *)
BridgeOver ==
  /\ BothOver
  /\ Exit(IF \A w \in Ways : half[w] = "done" THEN "ok" ELSE "broken")
  /\ UNCHANGED <<bystanders, streams>>

(* Timers fire when they are due, and what is ready is taken first.        *)
Tick ==
  /\ pc = "probe" /\ ~AllFailed
  /\ \A e \in Endpoints : ~CanTake(e) /\ (probe[e] = "waiting" => left[e] > 0)
  /\ left' = [e \in DOMAIN left |-> IF left[e] > 0 THEN left[e] - 1 ELSE 0]
  /\ late' = (late \/ early # {})
  /\ UNCHANGED <<pc, home, final, best, probe, early, streams, result>>

Terminated == pc = "over" /\ UNCHANGED vars

Files == {DefaultPaths[i] : i \in 1..Len(DefaultPaths)} \cup {"given"}
Configs == [global : {None} \cup GlobalConfigs(Secs),
            hosts : UNION {[H -> HostConfigs(Secs, Endpoints)] : H \in SUBSET Hosts}]

(* The program counter is tested first: TLC need not try every file.       *)
Start == \/ /\ pc = "start"
            /\ \E port \in {0, 22}, asked \in {None, "given"}, present \in SUBSET Files :
                 FindConfig(port, asked, present)
         \/ ConfigUnreadable
         \/ /\ pc = "read"
            /\ \E config \in Configs, cached \in Endpoints \cup {None} :
                 Configure(config, cached)

Select(e) == Resolved(e) \/ Answers(e) \/ ProbeFails(e) \/ Take(e)
Copy(w) == CopyReads(w) \/ CopyWrites(w) \/ CopyEnds(w)

Next == \/ Start
        \/ \E e \in Endpoints : Select(e)
        \/ Unreachable \/ Connected \/ ConnectFails \/ Tick
        \/ \E w \in Ways : Send(w) \/ Shut(w) \/ Copy(w) \/ CopyFails(w)
        \/ BridgeOver \/ Terminated

Spec == Init /\ [][Next]_vars

(* ssher is polled, timers fire, the resolver answers and what is written  *)
(* is taken; nobody has to accept, answer, send or stop.                   *)
FairSpec ==
  /\ Spec
  /\ \A e \in Endpoints : WF_vars(ProbeFails(e)) /\ WF_vars(Take(e))
  /\ WF_vars(Unreachable) /\ WF_vars(ConnectFails)
  /\ \A w \in Ways : WF_vars(Copy(w))
  /\ WF_vars(BridgeOver)

-----------------------------------------------------------------------------
TypeOK ==
  /\ pc \in {"start", "read", "probe", "connect", "bridge", "over"}
  /\ home \in BOOLEAN /\ late \in BOOLEAN /\ fin \in BOOLEAN
  /\ probe \in [Endpoints -> {"none", "resolving", "waiting", "answered", "failed"}]
  /\ left \in [Endpoints -> Nat]
  /\ best \in Endpoints \cup {None}
  /\ early \subseteq Endpoints
  /\ sent \in [Ways -> Nat] /\ put \in [Ways -> Nat] /\ held \in [Ways -> BOOLEAN]
  /\ shut \subseteq Ways
  /\ half \in [Ways -> {"copying", "done", "failed"}]
  /\ result \in Results \cup {None}

(* Whatever the file leaves out or gets wrong, globally or for any host,   *)
(* an invocation that goes on has a time-out and a TTL that are not zero   *)
(* and at least one endpoint.                                              *)
ConfigUsable ==
  final # None => /\ final.host.probe_timeout_ms > 0 /\ final.ttl_sec > 0
                  /\ final.host.endpoints # {} /\ final.host.selection_mode \in Modes

(* README.md lines 226-227: the first endpoint to succeed is taken.  One   *)
(* that was probed had answered before any other; "unreachable" is said    *)
(* only when every endpoint has failed.                                    *)
ChoiceIsBest ==
  /\ best # None => /\ best \in final.host.endpoints
                    /\ (\E e \in Endpoints : probe[e] # "none") => best \in early
  /\ result = "unreachable" => \A e \in final.host.endpoints : probe[e] = "failed"

(* The bridge loses nothing without saying so.  The server sees the end of *)
(* ssh's stream only after all of it; "ok" means that both directions were *)
(* delivered to their end; and neither the end nor the failure of one cuts *)
(* off the other: a half-closed session goes on.                           *)
BridgeFaithful ==
  LET Whole(w) == w \in shut /\ put[w] = sent[w] IN
  /\ fin => Whole("up")
  /\ result = "ok" => \A w \in Ways : Whole(w)
  /\ result = "broken" => \A w \in Ways : Whole(w) \/ half[w] = "failed"

(* The choice ends although endpoints may be silent, and so does the       *)
(* session once both sides have stopped sending.                           *)
RunEnds ==
  /\ pc \in {"probe", "connect"} ~> pc \in {"bridge", "over"}
  /\ (pc = "bridge" /\ shut = Ways) ~> pc = "over"
=============================================================================
