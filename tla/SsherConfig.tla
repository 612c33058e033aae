----------------------------- MODULE SsherConfig ----------------------------
(***************************************************************************)
(* ssher's configuration: where it is looked for, what is refused and what *)
(* an invocation is left with: crates/ssher/src/ssher/args.rs, config.rs.  *)
(* A config is the parsed file; None stands for an absent setting.  Paths  *)
(* are told apart only by what happens to them: "~" needs $HOME.           *)
(***************************************************************************)
EXTENDS Integers, Sequences

CONSTANTS DefaultTimeout,  \* 500 ms, in ticks
          DefaultTtl,      \* 300 s, in ticks
          None

ASSUME DefaultsAssumption == {DefaultTimeout, DefaultTtl} \subseteq Nat \ {0}

Modes == {"lowest_icmp_latency", "lowest_tcp_latency"}
DefaultPaths == <<"~/.ssh", "~/.config", "~/.config/sshe">>

GlobalConfigs(Secs) == [probe_timeout_ms : Secs \cup {None}, cache_ttl_sec : Secs \cup {None},
                        cache_path : {None, "~", "/"}, selection_mode : Modes \cup {None}]
HostConfigs(Secs, Endpoints) ==
  [probe_timeout_ms : Secs \cup {None}, selection_mode : Modes \cup {None},
   endpoints : SUBSET Endpoints]

(* resolve_config_path: the file that was asked for or the first default   *)
(* there is; None if there is no such file or no $HOME to look in.         *)
resolve_config_path(asked, home, present) ==
  LET found == {i \in 1..Len(DefaultPaths) : DefaultPaths[i] \in present} IN
  IF asked # None THEN IF asked \in present THEN asked ELSE None
  ELSE IF home /\ found # {}
       THEN DefaultPaths[CHOOSE i \in found : \A j \in found : i <= j]
       ELSE None

(* Mutant of validate: only the host asked for is looked at, and only its  *)
(* endpoints.                                                              *)
validateEndpoints(config) ==
  DOMAIN config.hosts # {} /\ \A h \in DOMAIN config.hosts : config.hosts[h].endpoints # {}

(* validate: no time-out or TTL of zero, at least one host, and every host *)
(* has an endpoint.                                                        *)
validate(config) ==
  /\ config.global # None =>
       config.global.probe_timeout_ms # 0 /\ config.global.cache_ttl_sec # 0
  /\ DOMAIN config.hosts # {}
  /\ \A h \in DOMAIN config.hosts :
       config.hosts[h].probe_timeout_ms # 0 /\ config.hosts[h].endpoints # {}

(* The first of the alternatives that is there. *)
Or(option, default) == IF option # None THEN option ELSE default
Global(config, field) == IF config.global = None THEN None ELSE config.global[field]

(* merge_host_config: the host's setting, else the global one, else the    *)
(* default.                                                                *)
merge_host_config(config, host) ==
  [probe_timeout_ms |-> Or(config.hosts[host].probe_timeout_ms,
                           Or(Global(config, "probe_timeout_ms"), DefaultTimeout)),
   selection_mode   |-> Or(config.hosts[host].selection_mode,
                           Or(Global(config, "selection_mode"), "lowest_tcp_latency")),
   endpoints        |-> config.hosts[host].endpoints]

(* resolve_cache_path fails only on a "~" without $HOME; the default is    *)
(* under /run/user.                                                        *)
CachePathResolves(config, home) == Global(config, "cache_path") = "~" => home

(* resolve_host: the final configuration, None for an unknown host.        *)
resolve_host(config, host, home) ==
  IF host \in DOMAIN config.hosts /\ CachePathResolves(config, home)
  THEN [host |-> merge_host_config(config, host),
        ttl_sec |-> Or(Global(config, "cache_ttl_sec"), DefaultTtl)]
  ELSE None
=============================================================================
