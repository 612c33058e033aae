----------------------------- MODULE SsherCache -----------------------------
(***************************************************************************)
(* ssher's cache file under concurrent invocations for several hosts,      *)
(* edits of the config and crashes: crates/ssher/src/app.rs and            *)
(* ssher/cache.rs.  The choice itself is module SsherRun's subject.        *)
(*                                                                         *)
(* The cache is one file for all hosts.  It is read, changed and written   *)
(* back in place, without a lock: fs::write truncates it and then writes,  *)
(* and an empty file does not parse.  An entry's port and selection mode   *)
(* are one value here, the way it was probed.                              *)
(***************************************************************************)
EXTENDS Integers

CONSTANTS Procs,      \* invocations that can be under way at once
          MaxStarts,  \* bound on the invocations
          Aliases,    \* of hosts, by their place in the order of the file
          Addresses,  \* endpoints that a host may have
          Probings,   \* (port, selection_mode)
          TTL,        \* cache_ttl_sec, in ticks
          MaxTime,    \* the clock's bound
          Torn,       \* a file that does not parse
          Absent      \* no entry, no argument, nothing chosen

Entries == [endpoint : Addresses, way : Probings, expires : Nat]

ASSUME CacheAssumption ==
  /\ {TTL, MaxTime, MaxStarts} \subseteq Nat /\ Aliases \subseteq Nat
  /\ Absent \notin Addresses \cup Probings \cup Aliases \cup Entries

VARIABLES
  now,
  started,  \* the number of invocations so far
  file,     \* the cache file: an entry or Absent for each host; or Torn
  place,    \* where each invocation is
  host,     \* --host
  way,      \* the port and mode it is asked for
  cands,    \* the endpoints it read from the config
  choice,   \* the endpoint it settled on
  buffer,   \* the file it is about to write
  probed    \* history variable: the probes less than TTL old

cacheVars == <<now, started, file, place, host, way, cands, choice, buffer, probed>>

CacheFiles == [Aliases -> Entries \cup {Absent}]
NoEntries == [h \in Aliases |-> Absent]

CacheInit ==
  /\ now = 0 /\ started = 0
  /\ file = NoEntries
  /\ place = [p \in Procs |-> "over"]
  /\ host = [p \in Procs |-> Absent]
  /\ way = [p \in Procs |-> Absent]
  /\ cands = [p \in Procs |-> {}]
  /\ choice = [p \in Procs |-> Absent]
  /\ buffer = [p \in Procs |-> Absent]
  /\ probed = {}

args == <<host, way, cands>>
world == <<now, started>>

(* What was the invocation's is gone with it. *)
Gone(p) ==
  /\ place' = [place EXCEPT ![p] = "over"]
  /\ host' = [host EXCEPT ![p] = Absent]
  /\ way' = [way EXCEPT ![p] = Absent]
  /\ cands' = [cands EXCEPT ![p] = {}]
  /\ buffer' = [buffer EXCEPT ![p] = Absent]

(* run: the arguments, the host's endpoints in the config, which may be    *)
(* edited between any two invocations, and then the cache unless it is to  *)
(* be refreshed.                                                           *)
Invoke(p, h, w, endpoints, refresh_cache) ==
  /\ place[p] = "over" /\ endpoints # {} /\ started < MaxStarts
  /\ started' = started + 1
  /\ host' = [host EXCEPT ![p] = h]
  /\ way' = [way EXCEPT ![p] = w]
  /\ cands' = [cands EXCEPT ![p] = endpoints]
  /\ choice' = [choice EXCEPT ![p] = Absent]
  /\ place' = [place EXCEPT ![p] = IF refresh_cache THEN "probe" ELSE "load"]
  /\ UNCHANGED <<now, file, buffer, probed>>

(* Mutant of Usable: an entry for another port or mode will do as well.    *)
UsableAnyWay(p, entry) == entry.expires > now /\ entry.endpoint \in cands[p]

(* The conditions for a cache hit, lines 37-51. *)
Usable(p, entry) ==
  /\ entry.expires > now
  /\ entry.way = way[p]
  /\ entry.endpoint \in cands[p]

(* load_cached_result finds something.  A file that does not parse is only *)
(* worth a warning.                                                        *)
Hit(p) == file # Torn /\ file[host[p]] # Absent /\ Usable(p, file[host[p]])

(* Mutant of Load: without a file that parses there is nothing to do.      *)
LoadOrDie(p) ==
  /\ place[p] = "load" /\ file # Torn
  /\ \/ /\ Hit(p)
        /\ choice' = [choice EXCEPT ![p] = file[host[p]].endpoint]
        /\ Gone(p)
     \/ /\ ~Hit(p)
        /\ place' = [place EXCEPT ![p] = "probe"]
        /\ UNCHANGED <<args, choice, buffer>>
  /\ UNCHANGED <<world, file, probed>>

(* A hit is taken without a probe, and not stored again. *)
Load(p) ==
  /\ place[p] = "load"
  /\ \/ /\ Hit(p)
        /\ choice' = [choice EXCEPT ![p] = file[host[p]].endpoint]
        /\ Gone(p)
     \/ /\ ~Hit(p)
        /\ place' = [place EXCEPT ![p] = "probe"]
        /\ UNCHANGED <<args, choice, buffer>>
  /\ UNCHANGED <<world, file, probed>>

(* select_best_endpoint: one that answers, or Unreachable. *)
Probe(p) ==
  /\ place[p] = "probe"
  /\ \/ \E e \in cands[p] :
          /\ choice' = [choice EXCEPT ![p] = e]
          /\ place' = [place EXCEPT ![p] = "store"]
          /\ UNCHANGED <<args, buffer>>
     \/ Gone(p) /\ UNCHANGED choice
  /\ UNCHANGED <<world, file, probed>>

(* store_cached_result reads the file again; if it does not parse, there   *)
(* is a warning and nothing is stored.                                     *)
Store(p) ==
  /\ place[p] = "store"
  /\ \/ file = Torn /\ Gone(p) /\ UNCHANGED probed
     \/ /\ file # Torn
        /\ buffer' = [buffer EXCEPT ![p] =
             [file EXCEPT ![host[p]] = [endpoint |-> choice[p], way |-> way[p],
                                        expires |-> now + TTL]]]
        /\ probed' = probed \cup {<<host[p], choice[p], way[p], now>>}
        /\ place' = [place EXCEPT ![p] = "truncate"]
        /\ UNCHANGED args
  /\ UNCHANGED <<world, file, choice>>

(* fs::write opens the file, which empties it ... *)
Truncate(p) ==
  /\ place[p] = "truncate"
  /\ file' = Torn
  /\ place' = [place EXCEPT ![p] = "write"]
  /\ UNCHANGED <<world, args, choice, buffer, probed>>

(* What mine, written over a longer file, leaves: the end of that file may *)
(* begin in the middle of something, or with an entry of a later host.     *)
Over(mine, theirs) ==
  LET Has(f) == {h \in Aliases : f[h] # Absent} IN
  IF Has(theirs) \subseteq Has(mine) THEN {mine, Torn}
  ELSE {Torn} \cup (IF \A h \in Has(theirs) \ Has(mine), g \in Has(mine) : g < h
                    THEN {[h \in Aliases |-> IF h \in Has(mine) THEN mine[h] ELSE theirs[h]]}
                    ELSE {})

(* ... and writes from the start of it: over what another invocation may   *)
(* have written meanwhile.                                                 *)
Write(p) ==
  /\ place[p] = "write"
  /\ file' \in (IF file = Torn THEN {buffer[p]} ELSE Over(buffer[p], file))
  /\ Gone(p)
  /\ UNCHANGED <<world, choice, probed>>

(* An invocation is killed. *)
Crash(p) ==
  /\ place[p] # "over"
  /\ Gone(p)
  /\ choice' = [choice EXCEPT ![p] = Absent]
  /\ UNCHANGED <<world, file, probed>>

CacheTick ==
  /\ now < MaxTime
  /\ now' = now + 1
  /\ probed' = {x \in probed : now' < x[4] + TTL}
  /\ UNCHANGED <<started, args, file, place, choice, buffer>>

Rest ==
  /\ now = MaxTime /\ started = MaxStarts /\ \A p \in Procs : place[p] = "over"
  /\ UNCHANGED cacheVars

Step(p) == Load(p) \/ Probe(p) \/ Store(p) \/ Truncate(p) \/ Write(p)

CacheNext ==
  \/ \E p \in Procs, h \in Aliases, w \in Probings, es \in SUBSET Addresses, r \in BOOLEAN :
       Invoke(p, h, w, es, r)
  \/ \E p \in Procs : Step(p) \/ Crash(p)
  \/ CacheTick \/ Rest

CacheSpec == CacheInit /\ [][CacheNext]_cacheVars

(* A running process runs on; each probe has its timeout. *)
CacheFairSpec == CacheSpec /\ \A p \in Procs : WF_cacheVars(Step(p))

-----------------------------------------------------------------------------
(* Types; and a file about to be written has the entry of its host.        *)
CacheTypeOK ==
  /\ now \in Nat /\ started \in 0..MaxStarts
  /\ file \in CacheFiles \cup {Torn}
  /\ place \in [Procs -> {"over", "load", "probe", "store", "truncate", "write"}]
  /\ host \in [Procs -> Aliases \cup {Absent}]
  /\ way \in [Procs -> Probings \cup {Absent}]
  /\ cands \in [Procs -> SUBSET Addresses]
  /\ choice \in [Procs -> Addresses \cup {Absent}]
  /\ buffer \in [Procs -> CacheFiles \cup {Absent}]
  /\ \A p \in Procs : place[p] \in {"truncate", "write"} =>
                        buffer[p] \in CacheFiles /\ buffer[p][host[p]] # Absent

(* A cached endpoint is only used while it is a candidate and the result   *)
(* of a probe for the same host in the same way that is younger than the   *)
(* TTL, however stale, half-written or overwritten by an invocation for    *)
(* another host the file was in between.                                   *)
HitIsFresh ==
  [][\A p \in Procs :
       place[p] = "load" /\ place'[p] = "over" /\ choice'[p] # Absent =>
         /\ choice'[p] \in cands[p]
         /\ \E at \in 0..now : <<host[p], choice'[p], way[p], at>> \in probed]_cacheVars

(* A damaged cache costs time only: every invocation ends.  It chooses an  *)
(* endpoint or finds that none answers.                                    *)
EveryInvocationEnds == \A p \in Procs : place[p] # "over" ~> place[p] = "over"
=============================================================================
