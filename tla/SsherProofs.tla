---------------------------- MODULE SsherProofs -----------------------------
(* Theorems about ssher: SsherConfig and SsherRun, for any configuration   *)
(* file, endpoints and limits; and the cache file of SsherCache.           *)
EXTENDS SsherRun, SsherCache, TLAPS

(* A configuration that an invocation can go on with. *)
Finals == [host : [probe_timeout_ms : Nat \ {0}, selection_mode : Modes,
                   endpoints : (SUBSET Endpoints) \ {{}}],
           ttl_sec : Nat \ {0}]

(* The settings of a file that validate accepts: what is there is usable.  *)
LEMMA GlobalTypes ==
  ASSUME NEW config \in Configs, validate(config)
  PROVE  /\ Global(config, "probe_timeout_ms") \in (Nat \ {0}) \cup {None}
         /\ Global(config, "cache_ttl_sec") \in (Nat \ {0}) \cup {None}
         /\ Global(config, "selection_mode") \in Modes \cup {None}
<1>1. config.global \in {None} \cup GlobalConfigs(Secs)
  BY DEF Configs
<1>2. CASE config.global = None
  BY <1>2 DEF Global
<1>3. CASE config.global # None
  <2>1. config.global \in GlobalConfigs(Secs)
    BY <1>1, <1>3
  <2>2. config.global.probe_timeout_ms # 0 /\ config.global.cache_ttl_sec # 0
    BY <1>3 DEF validate
  <2>3. /\ Global(config, "probe_timeout_ms") = config.global.probe_timeout_ms
        /\ Global(config, "cache_ttl_sec") = config.global.cache_ttl_sec
        /\ Global(config, "selection_mode") = config.global.selection_mode
    BY <1>3 DEF Global
  <2>. QED BY <2>1, <2>2, <2>3, RunAssumption DEF GlobalConfigs
<1>. QED BY <1>2, <1>3

(* config.rs, resolve_host after validate: every setting has a value, the  *)
(* host's own, the global one or the default, and it is usable.            *)
LEMMA ResolvedUsable ==
  ASSUME NEW config \in Configs, NEW alias, NEW hom, validate(config),
         resolve_host(config, alias, hom) # None
  PROVE  resolve_host(config, alias, hom) \in Finals
<1>1. alias \in DOMAIN config.hosts
  BY DEF resolve_host
<1>2. PICK H \in SUBSET Hosts : config.hosts \in [H -> HostConfigs(Secs, Endpoints)]
  BY DEF Configs
<1>. DEFINE mine == config.hosts[alias]
<1>3. mine \in HostConfigs(Secs, Endpoints)
  BY <1>1, <1>2
<1>4. mine.probe_timeout_ms # 0 /\ mine.endpoints # {}
  BY <1>1 DEF validate
<1>5. DefaultTimeout \in Nat \ {0} /\ DefaultTtl \in Nat \ {0}
  BY DefaultsAssumption
<1>6. mine.probe_timeout_ms \in (Nat \ {0}) \cup {None} /\ mine.selection_mode \in Modes \cup {None}
      /\ mine.endpoints \in (SUBSET Endpoints) \ {{}}
  BY <1>3, <1>4, RunAssumption DEF HostConfigs
<1>7. merge_host_config(config, alias) \in [probe_timeout_ms : Nat \ {0}, selection_mode : Modes,
                                           endpoints : (SUBSET Endpoints) \ {{}}]
  <2>1. Or(mine.probe_timeout_ms, Or(Global(config, "probe_timeout_ms"), DefaultTimeout)) \in Nat \ {0}
    BY <1>5, <1>6, GlobalTypes DEF Or
  <2>2. "lowest_tcp_latency" \in Modes
    BY DEF Modes
  <2>3. Or(mine.selection_mode, Or(Global(config, "selection_mode"), "lowest_tcp_latency")) \in Modes
    BY <1>6, <2>2, GlobalTypes DEF Or
  <2>. QED BY <1>6, <2>1, <2>3 DEF merge_host_config
<1>8. Or(Global(config, "cache_ttl_sec"), DefaultTtl) \in Nat \ {0}
  BY <1>5, GlobalTypes DEF Or
<1>9. resolve_host(config, alias, hom) = [host |-> merge_host_config(config, alias),
        ttl_sec |-> Or(Global(config, "cache_ttl_sec"), DefaultTtl)]
  BY DEF resolve_host
<1>. QED BY <1>7, <1>8, <1>9 DEF Finals

-----------------------------------------------------------------------------
(* The time-outs of a probe are numbers. *)
LEMMA TimeoutTypes == ASSUME final \in Finals PROVE Timeout \in Nat /\ PingTimeout \in Nat
<1>1. Timeout \in Nat /\ Second \in Nat \ {0}
  BY RunAssumption DEF Timeout, Finals
<1>. DEFINE s == IF Timeout \div Second < 1 THEN 1 ELSE Timeout \div Second
<1>2. Timeout \div Second \in Int
  BY <1>1
<1>3. s \in Nat
  BY <1>2
<1>4. \A a, b \in Nat : a * b \in Nat
  OBVIOUS
<1>5. PingTimeout = s * Second
  BY DEF PingTimeout
<1>. HIDE DEF s
<1>. QED BY <1>1, <1>3, <1>4, <1>5

(* The invariant of the choice: nothing is chosen or probed before there   *)
(* is a usable configuration, only listed endpoints are probed, no time    *)
(* passes while an answer waits to be taken, and once something is chosen  *)
(* or given up nothing more is probed.                                     *)
ChoiceInv ==
  /\ final \in Finals \cup {None}
  /\ pc \in {"probe", "connect", "bridge"} => final \in Finals
  /\ pc \in {"start", "read"} => \A e \in Endpoints : probe[e] = "none"
  /\ pc = "probe" => \A e \in Endpoints : probe[e] # "none" => e \in final.host.endpoints
  /\ pc \in {"start", "read", "probe"} => best = None
  /\ pc \in {"start", "read", "probe"} => ~late /\ early = {e \in Endpoints : probe[e] = "answered"}
  /\ pc # "over" => result = None
  /\ ChoiceIsBest

(* Init establishes the types and the invariant. *)
LEMMA ChoiceInit == Init => TypeOK /\ ChoiceInv
<1>. SUFFICES ASSUME Init PROVE TypeOK /\ ChoiceInv
  OBVIOUS
<1>1. held \in [Ways -> BOOLEAN] /\ late \in BOOLEAN /\ fin \in BOOLEAN
  BY DEF Init
<1>2. TypeOK
  BY <1>1 DEF Init, TypeOK, NoTimers
<1>3. ChoiceInv
  BY NoResultAssumption DEF Init, ChoiceInv, ChoiceIsBest, Results
<1>. QED BY <1>2, <1>3

(* Before and after the choice, nothing that ChoiceInv is about changes,   *)
(* except that the invocation ends.                                        *)
LEMMA ChoiceKept ==
  ASSUME TypeOK, ChoiceInv, UNCHANGED <<home, final, left, best, probe, early, late>>,
         \/ pc' = pc /\ result' = result
         \/ pc = "start" /\ pc' = "read" /\ result' = result
         \/ pc = "connect" /\ pc' = "bridge" /\ result' = result
         \/ pc # "over" /\ pc' = "over" /\ result' \in Results \ {"unreachable"}
         \/ AllFailed /\ pc' = "over" /\ result' = "unreachable"
  PROVE  ChoiceInv'
BY NoResultAssumption DEF ChoiceInv, ChoiceIsBest, AllFailed, Results, TypeOK

(* The configuration and the choice keep the types and the invariant. *)
LEMMA StartStep == ASSUME TypeOK, ChoiceInv, Start PROVE TypeOK' /\ ChoiceInv'
<1>. USE DEF selection, streams
<1>1. ASSUME NEW port, NEW asked, NEW present, FindConfig(port, asked, present)
      PROVE  TypeOK' /\ ChoiceInv'
  <2>1. /\ UNCHANGED <<home, final, left, best, selection, streams>>
        /\ \/ pc = "start" /\ pc' = "read" /\ result' = result
           \/ pc = "start" /\ pc' = "over" /\ result' = "invalid"
    BY <1>1 DEF FindConfig, Exit
  <2>2. ChoiceInv'
    BY <2>1, ChoiceKept DEF Results
  <2>. QED BY <2>1, <2>2 DEF TypeOK, Results
<1>2. CASE ConfigUnreadable
  <2>1. /\ UNCHANGED <<home, final, left, best, selection, streams>>
        /\ pc = "read" /\ pc' = "over" /\ result' = "invalid"
    BY <1>2 DEF ConfigUnreadable, Exit
  <2>2. ChoiceInv'
    BY <2>1, ChoiceKept DEF Results
  <2>. QED BY <2>1, <2>2 DEF TypeOK, Results
<1>3. ASSUME NEW config \in Configs, NEW cached \in Endpoints \cup {None}, Configure(config, cached)
      PROVE  TypeOK' /\ ChoiceInv'
  <2>. DEFINE resolved == resolve_host(config, Host, home)
  <2>0. pc = "read" /\ UNCHANGED <<home, streams>>
    BY <1>3 DEF Configure
  <2>1. CASE Exit("invalid") /\ UNCHANGED <<final, left, best, selection>>
    <3>1. ChoiceInv'
      BY <2>0, <2>1, ChoiceKept DEF Exit, Results
    <3>. QED BY <2>0, <2>1, <3>1 DEF TypeOK, Exit, Results
  <2>2. CASE validate(config) /\ resolved # None /\ final' = resolved /\ result' = result
    <3>1. final' \in Finals
      BY <2>2, ResolvedUsable
    <3>2. final'.host.endpoints \subseteq Endpoints
      BY <3>1 DEF Finals
    <3>3. result' = None
      BY <2>0, <2>2 DEF ChoiceInv
    <3>4. CASE /\ cached \in final'.host.endpoints /\ best' = cached
               /\ pc' = "connect" /\ UNCHANGED <<left, selection>>
      <4>1. \A e \in Endpoints : probe'[e] = "none"
        BY <2>0, <3>4 DEF ChoiceInv
      <4>2. ChoiceInv'
        BY <3>1, <3>3, <3>4, <4>1, NoResultAssumption DEF ChoiceInv, ChoiceIsBest, Results
      <4>. QED BY <2>0, <2>2, <3>2, <3>4, <4>2 DEF TypeOK
    <3>5. CASE /\ probe' = [e \in Endpoints |->
                              IF e \in final'.host.endpoints THEN "resolving" ELSE "none"]
               /\ pc' = "probe" /\ UNCHANGED <<left, best, early, late>>
      <4>1. best' = None /\ ~late' /\ early' = {} /\ {e \in Endpoints : probe'[e] = "answered"} = {}
        BY <2>0, <3>5 DEF ChoiceInv
      <4>2. ChoiceInv'
        BY <3>1, <3>3, <3>5, <4>1, NoResultAssumption DEF ChoiceInv, ChoiceIsBest, Results
      <4>. QED BY <2>0, <2>2, <3>5, <4>2 DEF TypeOK
    <3>. QED BY <1>3, <2>0, <2>2, <3>4, <3>5 DEF Configure
  <2>. QED BY <1>3, <2>1, <2>2 DEF Configure
<1>. QED BY <1>1, <1>2, <1>3 DEF Start

(* A probe's steps and the passing of time. *)
LEMMA ProbeStep ==
  ASSUME TypeOK, ChoiceInv, NEW e \in Endpoints, Resolved(e) \/ Answers(e) \/ ProbeFails(e) \/ Take(e)
  PROVE  TypeOK' /\ ChoiceInv'
<1>. USE DEF selection, streams
<1>0. pc = "probe" /\ final \in Finals /\ best = None /\ result = None /\ ~late
      /\ early = {d \in Endpoints : probe[d] = "answered"}
      /\ \A d \in Endpoints : probe[d] # "none" => d \in final.host.endpoints
  BY DEF Resolved, Answers, ProbeFails, Take, CanTake, ChoiceInv
<1>1. CASE Resolved(e)
  <2>1. left' \in [Endpoints -> Nat]
    BY <1>0, <1>1, TimeoutTypes DEF Resolved, TypeOK
  <2>2. {d \in Endpoints : probe'[d] = "answered"} = {d \in Endpoints : probe[d] = "answered"}
    BY <1>1 DEF Resolved, TypeOK
  <2>3. ChoiceInv'
    BY <1>0, <1>1, <2>2, NoResultAssumption DEF Resolved, ChoiceInv, ChoiceIsBest, Results
  <2>. QED BY <1>1, <2>1, <2>3 DEF Resolved, TypeOK
<1>2. CASE Answers(e)
  <2>1. early' = {d \in Endpoints : probe'[d] = "answered"}
    BY <1>0, <1>2 DEF Answers, TypeOK
  <2>2. ChoiceInv'
    BY <1>0, <1>2, <2>1, NoResultAssumption DEF Answers, ChoiceInv, ChoiceIsBest, Results
  <2>. QED BY <1>2, <2>2 DEF Answers, TypeOK
<1>3. CASE ProbeFails(e)
  <2>1. {d \in Endpoints : probe'[d] = "answered"} = {d \in Endpoints : probe[d] = "answered"}
    BY <1>3 DEF ProbeFails, Pending, TypeOK
  <2>2. \A d \in Endpoints : probe'[d] # "none" => d \in final.host.endpoints
    BY <1>0, <1>3 DEF ProbeFails, Pending, TypeOK
  <2>3. /\ UNCHANGED <<pc, home, final, best, early, late, streams, result>>
        /\ left' = [left EXCEPT ![e] = 0]
        /\ probe' \in [Endpoints -> {"none", "resolving", "waiting", "answered", "failed"}]
    BY <1>3 DEF ProbeFails, TypeOK
  <2>4. ChoiceInv'
    BY <1>0, <2>1, <2>2, <2>3, NoResultAssumption DEF ChoiceInv, ChoiceIsBest, Results
  <2>. QED BY <2>3, <2>4 DEF TypeOK
<1>4. CASE Take(e)
  <2>1. e \in early
    BY <1>0, <1>4 DEF Take, CanTake
  <2>2. ChoiceInv'
    BY <1>0, <1>4, <2>1, NoResultAssumption DEF Take, CanTake, ChoiceInv, ChoiceIsBest, Results
  <2>. QED BY <1>4, <2>2 DEF Take, TypeOK, NoTimers
<1>. QED BY <1>1, <1>2, <1>3, <1>4

(* Every step keeps the types and the invariant of the choice. *)
LEMMA ChoiceStep == TypeOK /\ ChoiceInv /\ [Next]_vars => TypeOK' /\ ChoiceInv'
<1>. SUFFICES ASSUME TypeOK, ChoiceInv, [Next]_vars PROVE TypeOK' /\ ChoiceInv'
  OBVIOUS
<1>. USE DEF selection, streams, bystanders
<1>1. CASE Tick
  <2>1. pc = "probe" /\ early = {} /\ ~late
    BY <1>1 DEF Tick, CanTake, ChoiceInv
  <2>2. ~late' /\ UNCHANGED <<pc, home, final, best, probe, early, sent, held, put, shut, half, fin, result>>
    BY <1>1, <2>1 DEF Tick
  <2>3. left' \in [Endpoints -> Nat]
    BY <1>1 DEF Tick, TypeOK
  <2>4. ChoiceInv'
    BY <2>1, <2>2 DEF ChoiceInv, ChoiceIsBest
  <2>5. late' \in BOOLEAN
    BY <1>1 DEF Tick
  <2>6. TypeOK'
    BY <2>2, <2>3, <2>5 DEF TypeOK
  <2>. QED BY <2>4, <2>6
<1>2. CASE Unreachable \/ Connected \/ ConnectFails \/ BridgeOver
  <2>1. /\ UNCHANGED <<home, final, left, best, selection, streams>>
        /\ \/ pc = "connect" /\ pc' = "bridge" /\ result' = result
           \/ pc # "over" /\ pc' = "over" /\ result' \in {"unconnected", "ok", "broken"}
           \/ AllFailed /\ pc' = "over" /\ result' = "unreachable"
    BY <1>2 DEF Unreachable, Connected, ConnectFails, BridgeOver, BothOver, Exit
  <2>2. ChoiceInv'
    BY <2>1, ChoiceKept DEF Results
  <2>. QED BY <2>1, <2>2 DEF TypeOK, Results
<1>3. ASSUME NEW w \in Ways, Send(w) \/ Shut(w) \/ Copy(w) \/ CopyFails(w)
      PROVE  TypeOK' /\ ChoiceInv'
  <2>1. UNCHANGED <<pc, home, final, left, best, probe, early, late, result>>
    BY <1>3 DEF Send, Shut, Copy, CopyReads, CopyWrites, CopyEnds, CopyFails
  <2>2. ChoiceInv'
    BY <2>1, ChoiceKept
  <2>3. TypeOK'
    <3>1. CASE Send(w)
      BY <2>1, <3>1 DEF Send, TypeOK
    <3>2. CASE Shut(w)
      BY <2>1, <3>2 DEF Shut, TypeOK
    <3>3. CASE CopyReads(w)
      BY <2>1, <3>3 DEF CopyReads, TypeOK
    <3>4. CASE CopyWrites(w)
      BY <2>1, <3>4 DEF CopyWrites, TypeOK
    <3>5. CASE CopyEnds(w)
      BY <2>1, <3>5 DEF CopyEnds, TypeOK
    <3>6. CASE CopyFails(w)
      BY <2>1, <3>6 DEF CopyFails, TypeOK
    <3>. QED BY <1>3, <3>1, <3>2, <3>3, <3>4, <3>5, <3>6 DEF Copy
  <2>. QED BY <2>2, <2>3
<1>4. CASE UNCHANGED vars
  BY <1>4, ChoiceKept DEF TypeOK, vars
<1>. QED BY <1>1, <1>2, <1>3, <1>4, StartStep, ProbeStep DEF Next, Select, Terminated

LEMMA ChoiceHolds == Spec => [](TypeOK /\ ChoiceInv)
BY ChoiceInit, ChoiceStep, PTL DEF Spec

(* The state of an invocation has its types; the timers of the probes in   *)
(* particular are set from the configuration.                              *)
THEOREM TypeCorrect == Spec => []TypeOK
BY ChoiceHolds, PTL

(* config.rs, validate and resolve_host: of any file, an invocation that   *)
(* goes on has a time-out and a TTL that are not zero, a known mode and    *)
(* at least one endpoint.                                                  *)
THEOREM AlwaysUsable == Spec => []ConfigUsable
<1>1. ChoiceInv => ConfigUsable
  BY DEF ChoiceInv, ConfigUsable, Finals
<1>. QED BY <1>1, ChoiceHolds, PTL

(* selector.rs, select_best_endpoint: the endpoint in use is listed, and   *)
(* if it was probed it answered before any other; "unreachable" is         *)
(* reported only when every listed endpoint has failed.                    *)
THEOREM ChoiceRight == Spec => []ChoiceIsBest
<1>1. ChoiceInv => ChoiceIsBest
  BY DEF ChoiceInv
<1>. QED BY <1>1, ChoiceHolds, PTL

-----------------------------------------------------------------------------
(* The inductive invariant of the bridge: a half that is done has          *)
(* delivered everything, and its source sends no more.                     *)
BridgeInv ==
  /\ \A w \in Ways : half[w] = "done" => w \in shut /\ put[w] = sent[w]
  /\ fin => half["up"] = "done"
  /\ result = "ok" => \A w \in Ways : half[w] = "done"
  /\ result = "broken" => \A w \in Ways : half[w] # "copying"

(* Every step keeps BridgeInv. *)
LEMMA BridgeStep == TypeOK /\ ChoiceInv /\ BridgeInv /\ [Next]_vars => BridgeInv'
<1>. SUFFICES ASSUME TypeOK, ChoiceInv, BridgeInv, [Next]_vars PROVE BridgeInv'
  OBVIOUS
<1>. USE DEF selection, streams, bystanders
<1>1. CASE BridgeOver
  BY <1>1 DEF BridgeOver, BothOver, Exit, BridgeInv
<1>2. CASE \/ Start \/ (\E e \in Endpoints : Select(e))
           \/ Unreachable \/ Connected \/ ConnectFails \/ Tick
  <2>1. UNCHANGED streams /\ result' \notin {"ok", "broken"}
    <3>1. pc # "over"
      BY <1>2 DEF Start, FindConfig, ConfigUnreadable, Configure, Select, Resolved, Answers, ProbeFails,
         Take, CanTake, Unreachable, AllFailed, Connected, ConnectFails, Tick
    <3>2. result \notin {"ok", "broken"}
      BY <3>1, NoResultAssumption DEF ChoiceInv, Results
    <3>3. CASE Start
      BY <3>2, <3>3 DEF Start, FindConfig, ConfigUnreadable, Configure, Exit
    <3>4. CASE \E e \in Endpoints : Select(e)
      BY <3>2, <3>4 DEF Select, Resolved, Answers, ProbeFails, Take
    <3>5. CASE Unreachable \/ Connected \/ ConnectFails \/ Tick
      BY <3>2, <3>5 DEF Unreachable, Connected, ConnectFails, Tick, Exit
    <3>. QED BY <1>2, <3>3, <3>4, <3>5
  <2>. QED BY <2>1 DEF BridgeInv
<1>3. ASSUME NEW w \in Ways, Send(w) \/ Shut(w) \/ Copy(w) \/ CopyFails(w) PROVE BridgeInv'
  <2>0. pc = "bridge" /\ result' = result
    BY <1>3 DEF Send, Shut, Copy, CopyReads, CopyWrites, CopyEnds, CopyFails, Copying
  <2>1. result' \notin {"ok", "broken"}
    BY <2>0, NoResultAssumption DEF ChoiceInv, Results
  <2>2. CASE Send(w)
    BY <2>1, <2>2 DEF Send, BridgeInv, TypeOK
  <2>3. CASE Shut(w)
    BY <2>1, <2>3 DEF Shut, BridgeInv
  <2>4. CASE CopyReads(w)
    BY <2>1, <2>4 DEF CopyReads, BridgeInv
  <2>5. CASE CopyWrites(w)
    BY <2>1, <2>5 DEF CopyWrites, Copying, BridgeInv, TypeOK
  <2>6. CASE CopyEnds(w)
    BY <2>1, <2>6 DEF CopyEnds, Copying, BridgeInv, TypeOK
  <2>7. CASE CopyFails(w)
    BY <2>1, <2>7 DEF CopyFails, Copying, BridgeInv, TypeOK, Ways
  <2>. QED BY <1>3, <2>2, <2>3, <2>4, <2>5, <2>6, <2>7 DEF Copy
<1>4. CASE UNCHANGED vars
  BY <1>4 DEF BridgeInv, vars
<1>. QED BY <1>1, <1>2, <1>3, <1>4 DEF Next, Terminated

(* proxy.rs: the server sees the end of ssh's stream only after all of it, *)
(* "ok" means both directions arrived whole, and neither the end nor the   *)
(* failure of one direction cuts off the other.                            *)
THEOREM BridgeLosesNothing == Spec => []BridgeFaithful
<1>1. Init => BridgeInv
  BY NoResultAssumption DEF Init, BridgeInv, Results
<1>2. TypeOK /\ BridgeInv => BridgeFaithful
  BY DEF TypeOK, BridgeInv, BridgeFaithful, Ways
<1>. QED BY <1>1, <1>2, BridgeStep, ChoiceHolds, PTL DEF Spec

-----------------------------------------------------------------------------
(* The cache file under concurrent invocations: module SsherCache, whose   *)
(* state is its own.                                                       *)
(*                                                                         *)
(* An entry that has not expired is that of a probe of its host in its way *)
(* which is not older than the TTL.                                        *)
FreshEntry(h, entry) ==
  entry.expires > now =>
    \E t \in 0..now : entry.expires = t + TTL /\ <<h, entry.endpoint, entry.way, t>> \in probed
FreshFile(f) ==
  f \in CacheFiles /\ \A h \in Aliases : f[h] # Absent => FreshEntry(h, f[h])

(* It holds of the file and of every file about to be written.             *)
InvocationType ==
  \A p \in Procs :
    /\ place[p] # "over" => host[p] \in Aliases /\ way[p] \in Probings
    /\ place[p] = "store" => choice[p] \in Addresses
    /\ place[p] \in {"truncate", "write"} => /\ FreshFile(buffer[p])
                                             /\ buffer[p][host[p]] # Absent

CacheInv ==
  /\ now \in Nat /\ started \in 0..MaxStarts
  /\ place \in [Procs -> {"over", "load", "probe", "store", "truncate", "write"}]
  /\ host \in [Procs -> Aliases \cup {Absent}]
  /\ way \in [Procs -> Probings \cup {Absent}]
  /\ cands \in [Procs -> SUBSET Addresses]
  /\ choice \in [Procs -> Addresses \cup {Absent}]
  /\ buffer \in [Procs -> CacheFiles \cup {Absent}]
  /\ InvocationType
  /\ file # Torn => FreshFile(file)

(* More probes do not make a file older ... *)
LEMMA FreshMore ==
  ASSUME now' = now, probed \subseteq probed', NEW f, FreshFile(f)
  PROVE  FreshFile(f)'
BY DEF FreshFile, FreshEntry, CacheFiles, Entries

(* ... and when time passes, the probes that are forgotten are those whose *)
(* entries have expired.                                                   *)
LEMMA FreshLater ==
  ASSUME now \in Nat, now' = now + 1,
         probed' = {x \in probed : now' < x[4] + TTL},
         NEW f, FreshFile(f)
  PROVE  FreshFile(f)'
<1>1. f \in CacheFiles /\ TTL \in Nat
  BY CacheAssumption DEF FreshFile
<1>. SUFFICES ASSUME NEW h \in Aliases, f[h] # Absent, f[h].expires > now'
              PROVE  \E t \in 0..now' : /\ f[h].expires = t + TTL
                                        /\ <<h, f[h].endpoint, f[h].way, t>> \in probed'
  BY <1>1 DEF FreshFile, FreshEntry, CacheFiles, Entries
<1>2. f[h].expires \in Nat
  BY <1>1 DEF CacheFiles, Entries
<1>3. PICK t \in 0..now : /\ f[h].expires = t + TTL
                          /\ <<h, f[h].endpoint, f[h].way, t>> \in probed
  BY <1>2 DEF FreshFile, FreshEntry
<1>4. <<h, f[h].endpoint, f[h].way, t>> \in probed'
  BY <1>1, <1>2, <1>3
<1>5. t \in 0..now'
  OBVIOUS
<1>. QED BY <1>3, <1>4, <1>5

(* What store_cached_result is about to write has the new entry. *)
LEMMA FreshStored ==
  ASSUME now \in Nat, now' = now, NEW f, FreshFile(f),
         NEW h \in Aliases, NEW e \in Addresses, NEW w \in Probings,
         probed' = probed \cup {<<h, e, w, now>>}
  PROVE  FreshFile([f EXCEPT ![h] = [endpoint |-> e, way |-> w, expires |-> now + TTL]])'
<1>1. PICK t : t = now
  OBVIOUS
<1>2. PICK entry : entry = [endpoint |-> e, way |-> w, expires |-> t + TTL]
  OBVIOUS
<1>3. PICK new : new = [f EXCEPT ![h] = entry]
  OBVIOUS
<1>4. entry \in Entries /\ f \in CacheFiles
  BY <1>1, <1>2, CacheAssumption DEF Entries, FreshFile
<1>5. new \in CacheFiles /\ \A g \in Aliases : new[g] = IF g = h THEN entry ELSE f[g]
  BY <1>3, <1>4 DEF CacheFiles
<1>6. FreshEntry(h, entry)'
  BY <1>1, <1>2 DEF FreshEntry
<1>7. FreshFile(f)'
  BY FreshMore
<1>8. FreshFile(new)'
  BY <1>5, <1>6, <1>7 DEF FreshFile, CacheFiles, Entries
<1>. QED BY <1>1, <1>2, <1>3, <1>8

(* A write over another's file leaves entries of the two, or no file.      *)
LEMMA FreshOver ==
  ASSUME NEW mine, NEW theirs, FreshFile(mine), FreshFile(theirs),
         NEW f \in Over(mine, theirs), f # Torn
  PROVE  FreshFile(f)
<1>1. \/ f = mine
      \/ \E A \in SUBSET Aliases : f = [h \in Aliases |-> IF h \in A THEN mine[h] ELSE theirs[h]]
  BY DEF Over
<1>2. ASSUME NEW A \in SUBSET Aliases, f = [h \in Aliases |-> IF h \in A THEN mine[h] ELSE theirs[h]]
      PROVE  FreshFile(f)
  <2>1. f \in CacheFiles
    BY <1>2 DEF FreshFile, CacheFiles
  <2>. QED BY <1>2, <2>1 DEF FreshFile
<1>. QED BY <1>1, <1>2

(* The steps that end an invocation and change no file. *)
LEMMA GoneKeeps ==
  ASSUME CacheInv, NEW p \in Procs, Gone(p), UNCHANGED <<now, started, probed, file>>,
         choice' \in [Procs -> Addresses \cup {Absent}], \A q \in Procs \ {p} : choice'[q] = choice[q]
  PROVE  CacheInv'
BY FreshMore DEF CacheInv, InvocationType, Gone

(* Every step keeps CacheInv. *)
LEMMA CacheStep == CacheInv /\ [CacheNext]_cacheVars => CacheInv'
<1>. SUFFICES ASSUME CacheInv, [CacheNext]_cacheVars PROVE CacheInv'
  OBVIOUS
<1>. USE DEF world, args
<1>1. ASSUME NEW p \in Procs, NEW h \in Aliases, NEW w \in Probings,
             NEW es \in SUBSET Addresses, NEW r \in BOOLEAN, Invoke(p, h, w, es, r)
      PROVE  CacheInv'
  BY <1>1, FreshMore, CacheAssumption DEF CacheInv, InvocationType, Invoke
<1>2. ASSUME NEW p \in Procs, Load(p) PROVE CacheInv'
  <2>1. CASE Hit(p) /\ Gone(p) /\ choice' = [choice EXCEPT ![p] = file[host[p]].endpoint]
    <3>1. host[p] \in Aliases /\ file \in CacheFiles /\ file[host[p]] # Absent
      BY <1>2, <2>1 DEF CacheInv, InvocationType, FreshFile, Load, Hit
    <3>2. file[host[p]].endpoint \in Addresses
      BY <3>1 DEF CacheFiles, Entries
    <3>. QED BY <1>2, <2>1, <3>2, GoneKeeps DEF CacheInv, Load
  <2>2. CASE place' = [place EXCEPT ![p] = "probe"] /\ UNCHANGED <<host, way, cands, choice, buffer>>
    BY <1>2, <2>2, FreshMore DEF CacheInv, InvocationType, Load
  <2>. QED BY <1>2, <2>1, <2>2 DEF Load
<1>3. ASSUME NEW p \in Procs, Probe(p) PROVE CacheInv'
  <2>1. CASE Gone(p) /\ UNCHANGED choice
    BY <1>3, <2>1, GoneKeeps DEF CacheInv, Probe
  <2>2. CASE \E e \in cands[p] : /\ choice' = [choice EXCEPT ![p] = e]
                                 /\ place' = [place EXCEPT ![p] = "store"]
                                 /\ UNCHANGED <<host, way, cands, buffer>>
    BY <1>3, <2>2, FreshMore DEF CacheInv, InvocationType, Probe
  <2>. QED BY <1>3, <2>1, <2>2 DEF Probe
<1>4. ASSUME NEW p \in Procs, Store(p) PROVE CacheInv'
  <2>1. CASE Gone(p) /\ UNCHANGED probed
    BY <1>4, <2>1, GoneKeeps DEF CacheInv, Store
  <2>2. CASE file # Torn /\ ~(Gone(p) /\ UNCHANGED probed)
    <3>1. PICK new : new = [file EXCEPT ![host[p]] = [endpoint |-> choice[p], way |-> way[p],
                                                      expires |-> now + TTL]]
      OBVIOUS
    <3>2. /\ buffer' = [buffer EXCEPT ![p] = new]
          /\ probed' = probed \cup {<<host[p], choice[p], way[p], now>>}
          /\ place[p] = "store" /\ place' = [place EXCEPT ![p] = "truncate"]
          /\ UNCHANGED <<now, started, host, way, cands, file, choice>>
      BY <1>4, <2>2, <3>1 DEF Store
    <3>3. /\ host[p] \in Aliases /\ way[p] \in Probings /\ choice[p] \in Addresses
          /\ now \in Nat /\ FreshFile(file)
      BY <2>2, <3>2 DEF CacheInv, InvocationType
    <3>4. FreshFile(new)'
      BY <3>1, <3>2, <3>3, FreshStored
    <3>5. file' # Torn => FreshFile(file)'
      BY <3>2, <3>3, FreshMore
    <3>6. new \in CacheFiles /\ new[host[p]] # Absent
      <4>1. file \in CacheFiles /\ TTL \in Nat
        BY <3>3, CacheAssumption DEF FreshFile
      <4>2. PICK entry : entry = [endpoint |-> choice[p], way |-> way[p], expires |-> now + TTL]
        OBVIOUS
      <4>3. entry \in Entries /\ entry # Absent
        BY <3>3, <4>1, <4>2, CacheAssumption DEF Entries
      <4>4. new = [file EXCEPT ![host[p]] = entry]
        BY <3>1, <4>2
      <4>. QED BY <3>3, <4>1, <4>3, <4>4 DEF CacheFiles
    <3>7. InvocationType'
      BY <3>2, <3>3, <3>4, <3>6, FreshMore DEF CacheInv, InvocationType
    <3>8. buffer' \in [Procs -> CacheFiles \cup {Absent}]
      BY <3>2, <3>6 DEF CacheInv
    <3>. QED BY <3>2, <3>5, <3>7, <3>8 DEF CacheInv
  <2>. QED BY <1>4, <2>1, <2>2 DEF Store
<1>5. ASSUME NEW p \in Procs, Truncate(p) PROVE CacheInv'
  BY <1>5, FreshMore DEF CacheInv, InvocationType, Truncate
<1>6. ASSUME NEW p \in Procs, Write(p) PROVE CacheInv'
  <2>1. UNCHANGED <<now, started, choice, probed>> /\ Gone(p) /\ FreshFile(buffer[p])
    BY <1>6 DEF Write, CacheInv, InvocationType
  <2>2. file' # Torn => FreshFile(file')
    BY <1>6, <2>1, FreshOver DEF Write, CacheInv
  <2>3. file' # Torn => FreshFile(file)'
    BY <2>1, <2>2, FreshMore
  <2>. QED BY <2>1, <2>3, FreshMore DEF CacheInv, InvocationType, Gone
<1>7. ASSUME NEW p \in Procs, Crash(p) PROVE CacheInv'
  BY <1>7, GoneKeeps DEF CacheInv, Crash
<1>8. CASE CacheTick
  <2>1. \A f : FreshFile(f) => FreshFile(f)'
    BY <1>8, FreshLater DEF CacheInv, CacheTick
  <2>. QED BY <1>8, <2>1 DEF CacheInv, InvocationType, CacheTick
<1>9. CASE UNCHANGED cacheVars
  BY <1>9, FreshMore DEF CacheInv, InvocationType, cacheVars
<1>. QED
  BY <1>1, <1>2, <1>3, <1>4, <1>5, <1>6, <1>7, <1>8, <1>9 DEF CacheNext, Step, Rest

(* An empty cache satisfies it. *)
LEMMA CacheStart == CacheInit => CacheInv
BY CacheAssumption
DEF CacheInit, NoEntries, CacheInv, InvocationType, FreshFile, CacheFiles

(* Every variable of SsherCache keeps its type, and a file about to be     *)
(* written has an entry for the host of the invocation that writes it.     *)
THEOREM CacheTypeCorrect == CacheSpec => []CacheTypeOK
<1>1. CacheInv => CacheTypeOK
  BY DEF CacheInv, CacheTypeOK, InvocationType, FreshFile
<1>. QED BY <1>1, CacheStart, CacheStep, PTL DEF CacheSpec

(* cache.rs, load_cached_result: a hit is a candidate, and the result of a *)
(* probe of the same host in the same way that is younger than the TTL,    *)
(* whatever other invocations, crashes and edits did to the file.          *)
THEOREM HitsAreFresh == CacheSpec => HitIsFresh
<1>. DEFINE Fresh == \A p \in Procs :
       place[p] = "load" /\ place'[p] = "over" /\ choice'[p] # Absent =>
         /\ choice'[p] \in cands[p]
         /\ \E at \in 0..now : <<host[p], choice'[p], way[p], at>> \in probed
<1>1. CacheInv /\ [CacheNext]_cacheVars => [Fresh]_cacheVars
  <2>. SUFFICES ASSUME CacheInv, CacheNext, NEW p \in Procs, place[p] = "load",
                       place'[p] = "over", choice'[p] # Absent
                PROVE  /\ choice'[p] \in cands[p]
                       /\ \E at \in 0..now : <<host[p], choice'[p], way[p], at>> \in probed
    OBVIOUS
  <2>. USE DEF CacheInv, world, args
  <2>1. Load(p)
    <3>1. ASSUME NEW q \in Procs, Step(q) PROVE q = p
      BY <3>1 DEF Step, Load, Probe, Store, Truncate, Write, Gone
    <3>2. ASSUME NEW q \in Procs, Crash(q) PROVE FALSE
      BY <3>2 DEF Crash, Gone
    <3>3. ~CacheTick /\ ~Rest
      BY DEF CacheTick, Rest, cacheVars
    <3>4. ASSUME NEW q \in Procs, NEW h, NEW w, NEW es, NEW r, Invoke(q, h, w, es, r) PROVE FALSE
      BY <3>4 DEF Invoke
    <3>5. Step(p)
      BY <3>1, <3>2, <3>3, <3>4 DEF CacheNext
    <3>. QED BY <3>5 DEF Step, Probe, Store, Truncate, Write
  <2>2. Hit(p) /\ choice'[p] = file[host[p]].endpoint
    BY <2>1 DEF Load
  <2>3. host[p] \in Aliases /\ FreshEntry(host[p], file[host[p]])
    BY <2>2 DEF Hit, InvocationType, FreshFile
  <2>. QED BY <2>2, <2>3 DEF Hit, Usable, FreshEntry
<1>. QED BY <1>1, CacheStart, CacheStep, PTL DEF CacheSpec, HitIsFresh
=============================================================================
