----------------------------- MODULE ConfigStore ----------------------------
(***************************************************************************)
(* The config and key files under concurrent CLI commands and crashes:     *)
(* crates/sshe-node/src/config.rs (read, save, init), identity.rs          *)
(* (initialize, load_key), sshe-cli/src/app.rs (peer).                     *)
(*                                                                         *)
(* Every command is a process of its own and none takes a lock.  Files are *)
(* written to a temporary name and renamed, so a file's content changes in *)
(* one step; persist_noclobber fails if the name is taken.  A config is    *)
(* abstracted to its [peers]; a key to the process that generated it.      *)
(***************************************************************************)
EXTENDS Integers

CONSTANTS Procs,    \* CLI commands
          Aliases,  \* aliases a user may type
          Reserved, \* the ones validate_alias refuses
          Ids,      \* EndpointIds
          Bad,      \* a key file of the wrong length or mode
          None

ASSUME AliasesAssumption == Reserved \subseteq Aliases
ASSUME ConfigValuesAssumption ==
  None \notin Ids \cup Procs \cup Aliases \cup {Bad} /\ Bad \notin Procs

VARIABLES
  key,    \* the key file
  file,   \* the config file: the id of each peer alias, or None
  pc,     \* where each command is
  alias,  \* what it is about
  mine    \* init: the key it will report; peer: the config it will save

vars == <<key, file, pc, alias, mine>>

Configs == [Aliases \ Reserved -> Ids \cup {None}]
ASSUME NoConfigAssumption == None \notin Configs

NoPeers == [a \in Aliases \ Reserved |-> None]

Init ==
  /\ key \in {None, Bad}
  /\ file \in {None, NoPeers}
  /\ pc = [p \in Procs |-> "idle"]
  /\ alias = [p \in Procs |-> None]
  /\ mine = [p \in Procs |-> None]

Goto(p, next) == pc' = [pc EXCEPT ![p] = next]
Fail(p) == Goto(p, "failed") /\ UNCHANGED <<key, file, alias, mine>>

-----------------------------------------------------------------------------
(* init: refuse if there is a config. *)
InitCheck(p) ==
  /\ pc[p] = "idle"
  /\ \/ file # None /\ Fail(p)
     \/ file = None /\ Goto(p, "key") /\ UNCHANGED <<key, file, alias, mine>>

(* identity::initialize: load the key that is there, or generate one.      *)
InitKey(p) ==
  /\ pc[p] = "key"
  /\ \/ key = Bad /\ Fail(p)
     \/ /\ key \in Procs
        /\ mine' = [mine EXCEPT ![p] = key]
        /\ Goto(p, "config")
        /\ UNCHANGED <<key, file, alias>>
     \/ /\ key = None
        /\ mine' = [mine EXCEPT ![p] = p]
        /\ Goto(p, "persist_key")
        /\ UNCHANGED <<key, file, alias>>

(* Mutant of PersistKey: persist where persist_noclobber is meant.         *)
PersistKeyAnyway(p) ==
  /\ pc[p] = "persist_key"
  /\ key' = mine[p]
  /\ Goto(p, "config")
  /\ UNCHANGED <<file, alias, mine>>

PersistKey(p) ==
  /\ pc[p] = "persist_key"
  /\ \/ key # None /\ Fail(p)
     \/ /\ key = None
        /\ key' = mine[p]
        /\ Goto(p, "config")
        /\ UNCHANGED <<file, alias, mine>>

(* The new config, unless one has appeared; then the id is reported.       *)
PersistConfig(p) ==
  /\ pc[p] = "config"
  /\ \/ file # None /\ Fail(p)
     \/ /\ file = None
        /\ file' = NoPeers
        /\ Goto(p, "done")
        /\ UNCHANGED <<key, alias, mine>>

-----------------------------------------------------------------------------
Prepare(p, a, config) ==
  /\ alias' = [alias EXCEPT ![p] = a]
  /\ mine' = [mine EXCEPT ![p] = config]
  /\ Goto(p, "save")
  /\ UNCHANGED <<key, file>>

(* peer add: read, check, and the config to be saved. *)
Add(p, a, i) ==
  /\ pc[p] = "idle"
  /\ \/ /\ \/ file = None
           \/ a \in Reserved
           \/ a \notin Reserved /\ file # None /\ file[a] # None
        /\ Fail(p)
     \/ /\ a \notin Reserved /\ file # None /\ file[a] = None
        /\ Prepare(p, a, [file EXCEPT ![a] = i])

(* peer remove *)
Remove(p, a) ==
  /\ pc[p] = "idle"
  /\ \/ /\ file = None \/ a \in Reserved \/ (file # None /\ a \notin Reserved /\ file[a] = None)
        /\ Fail(p)
     \/ /\ a \notin Reserved /\ file # None /\ file[a] # None
        /\ Prepare(p, a, [file EXCEPT ![a] = None])

(* save: the rename replaces whatever config is there by now.              *)
Save(p) ==
  /\ pc[p] = "save"
  /\ file' = mine[p]
  /\ Goto(p, "done")
  /\ UNCHANGED <<key, alias, mine>>

(* The process dies between two filesystem calls. *)
Crash(p) ==
  /\ pc[p] \notin {"idle", "done", "failed", "crashed"}
  /\ Goto(p, "crashed")
  /\ UNCHANGED <<key, file, alias, mine>>

Terminated == /\ \A p \in Procs : pc[p] \in {"done", "failed", "crashed"}
              /\ UNCHANGED vars

InitStep(p) == InitCheck(p) \/ InitKey(p) \/ PersistKey(p) \/ PersistConfig(p)

Next == \/ \E p \in Procs : InitStep(p) \/ Save(p) \/ Crash(p)
        \/ \E p \in Procs, a \in Aliases : Remove(p, a) \/ \E i \in Ids : Add(p, a, i)
        \/ Terminated

Spec == Init /\ [][Next]_vars

-----------------------------------------------------------------------------
(* The files hold what they should: the config only valid aliases, the key *)
(* a whole key, in particular while commands race and crash.               *)
TypeOK ==
  /\ key \in Procs \cup {Bad, None}
  /\ file \in Configs \cup {None}
  /\ pc \in [Procs -> {"idle", "key", "persist_key", "config", "save", "done", "failed",
                       "crashed"}]
  /\ alias \in [Procs -> Aliases \cup {None}]
  /\ mine \in [Procs -> Procs \cup Configs \cup {None}]
  /\ \A p \in Procs : /\ pc[p] \in {"persist_key", "config"} => mine[p] \in Procs
                      /\ pc[p] = "save" => mine[p] \in Configs

(* init overwrites nothing: an identity on disk never changes, not even a  *)
(* damaged one, and a config that appeared after its check stays, whether  *)
(* a second init runs, two at once, or one that died half-way is repeated. *)
InitOverwritesNothing ==
  [][/\ key # None => key' = key
     /\ (\E p \in Procs : pc[p] = "config" /\ pc'[p] = "done") /\ file # None => file' = file]_vars

(* The id that init reports is the one on disk, and stays so.              *)
InitReportsTheKey ==
  \A p \in Procs : /\ pc[p] = "config" => mine[p] = key
                   /\ pc[p] = "done" /\ alias[p] = None => mine[p] = key /\ file # None

=============================================================================
