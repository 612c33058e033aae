-------------------------- MODULE ConfigStoreProofs -------------------------
(* Theorems about ConfigStore, for any commands, aliases and ids.          *)
EXTENDS ConfigStore, TLAPS

(* A config without peers is a config. *)
LEMMA NoPeersType == NoPeers \in Configs
BY DEF NoPeers, Configs

(* A config that a command has read and changed is one, too. *)
LEMMA ChangedType ==
  ASSUME NEW config \in Configs, NEW a \in Aliases \ Reserved, NEW i \in Ids \cup {None}
  PROVE  [config EXCEPT ![a] = i] \in Configs
BY DEF Configs

(* Init establishes the types. *)
LEMMA TypeInit == Init => TypeOK
BY NoPeersType DEF Init, TypeOK

(* Only one command moves in a step; the others stay as they are. *)
LEMMA GotoType ==
  ASSUME TypeOK, NEW p \in Procs,
         NEW next \in {"key", "persist_key", "config", "save", "done", "failed", "crashed"},
         Goto(p, next)
  PROVE  /\ pc' \in [Procs -> {"idle", "key", "persist_key", "config", "save", "done",
                               "failed", "crashed"}]
         /\ pc'[p] = next
         /\ \A q \in Procs \ {p} : pc'[q] = pc[q]
BY DEF TypeOK, Goto

(* Every step keeps the types. *)
LEMMA TypeStep == TypeOK /\ [Next]_vars => TypeOK'
<1>. SUFFICES ASSUME TypeOK, [Next]_vars PROVE TypeOK'
  OBVIOUS
<1>. USE ConfigValuesAssumption, AliasesAssumption
<1>1. ASSUME NEW p \in Procs, Fail(p) PROVE TypeOK'
  BY <1>1, GotoType DEF Fail, TypeOK
<1>2. ASSUME NEW p \in Procs, InitCheck(p) PROVE TypeOK'
  BY <1>1, <1>2, GotoType DEF InitCheck, TypeOK
<1>3. ASSUME NEW p \in Procs, InitKey(p) PROVE TypeOK'
  <2>1. CASE key \in Procs
    BY <1>3, <2>1, GotoType DEF InitKey, TypeOK
  <2>2. CASE key = None
    BY <1>3, <2>2, GotoType DEF InitKey, TypeOK
  <2>. QED BY <1>1, <1>3, <2>1, <2>2 DEF InitKey
<1>4. ASSUME NEW p \in Procs, PersistKey(p) PROVE TypeOK'
  BY <1>1, <1>4, GotoType DEF PersistKey, TypeOK
<1>5. ASSUME NEW p \in Procs, PersistConfig(p) PROVE TypeOK'
  BY <1>1, <1>5, GotoType, NoPeersType DEF PersistConfig, TypeOK
<1>6. ASSUME NEW p \in Procs, NEW a \in Aliases, NEW config \in Configs, Prepare(p, a, config)
      PROVE  TypeOK'
  BY <1>6, GotoType DEF Prepare, TypeOK
<1>7. ASSUME NEW p \in Procs, NEW a \in Aliases, NEW i \in Ids, Add(p, a, i) PROVE TypeOK'
  BY <1>1, <1>6, <1>7, ChangedType DEF Add, TypeOK
<1>8. ASSUME NEW p \in Procs, NEW a \in Aliases, Remove(p, a) PROVE TypeOK'
  BY <1>1, <1>6, <1>8, ChangedType DEF Remove, TypeOK
<1>9. ASSUME NEW p \in Procs, Save(p) PROVE TypeOK'
  BY <1>9, GotoType DEF Save, TypeOK
<1>10. ASSUME NEW p \in Procs, Crash(p) PROVE TypeOK'
  BY <1>10, GotoType DEF Crash, TypeOK
<1>11. CASE UNCHANGED vars
  BY <1>11 DEF TypeOK, vars
<1>. QED BY <1>2, <1>3, <1>4, <1>5, <1>7, <1>8, <1>9, <1>10, <1>11
         DEF Next, InitStep, Terminated

(* config.rs and identity.rs: whatever commands run at once and wherever   *)
(* they die, the config file holds valid aliases and the key file a whole  *)
(* key or what was there before.                                           *)
THEOREM TypeCorrect == Spec => []TypeOK
BY TypeInit, TypeStep, PTL DEF Spec

-----------------------------------------------------------------------------
(* A config that a command saves is there afterwards. *)
LEMMA ConfigStays == TypeOK /\ [Next]_vars /\ file # None => file' # None
<1>. SUFFICES ASSUME TypeOK, [Next]_vars, file # None PROVE file' # None
  OBVIOUS
<1>1. ASSUME NEW p \in Procs, Save(p) PROVE file' # None
  BY <1>1, NoConfigAssumption DEF Save, TypeOK
<1>2. ASSUME NEW p \in Procs, InitStep(p) PROVE file' # None
  BY <1>2 DEF InitStep, InitCheck, InitKey, PersistKey, PersistConfig, Fail
<1>. QED BY <1>1, <1>2 DEF Next, Terminated, vars, Crash, Remove, Add, Prepare, Fail

(* The identity on disk is set at most once: whoever persists a key finds  *)
(* none there.                                                             *)
LEMMA KeyStays == [Next]_vars /\ key # None => key' = key
BY DEF Next, Terminated, vars, Crash, Remove, Add, Prepare, Fail, Save, InitStep, InitCheck,
       InitKey, PersistKey, PersistConfig

(* config.rs, init, and identity.rs, initialize: an identity on disk never *)
(* changes, and init does not replace a config that appeared after it      *)
(* looked.                                                                 *)
THEOREM NothingOverwritten == Spec => InitOverwritesNothing
<1>1. TypeOK /\ [Next]_vars
        => [/\ key # None => key' = key
            /\ (\E p \in Procs : pc[p] = "config" /\ pc'[p] = "done") /\ file # None
                 => file' = file]_vars
  <2>. SUFFICES ASSUME TypeOK, [Next]_vars, NEW p \in Procs, pc[p] = "config", pc'[p] = "done",
                       file # None
                PROVE  file' = file
    BY KeyStays
  <2>1. ASSUME NEW q \in Procs, Save(q) PROVE FALSE
    BY <2>1 DEF Save, Goto, TypeOK
  <2>. QED BY <2>1 DEF Next, Terminated, vars, Crash, Remove, Add, Prepare, Fail, InitStep,
                       InitCheck, InitKey, PersistKey, PersistConfig
<1>. QED BY <1>1, TypeCorrect, PTL DEF Spec, InitOverwritesNothing

(* The inductive invariant of InitReportsTheKey: the key that init took    *)
(* over or persisted is a key, so it is the one on disk for good; and a    *)
(* command that saves is not an init.                                      *)
KeyGood(p) ==
  /\ pc[p] \in {"idle", "key", "persist_key", "config"} => alias[p] = None
  /\ pc[p] = "save" => alias[p] # None
  /\ pc[p] = "config" => mine[p] = key /\ key # None
  /\ pc[p] = "done" /\ alias[p] = None => mine[p] = key /\ key # None /\ file # None

KeyInv == \A p \in Procs : KeyGood(p)

(* Every step keeps KeyInv. *)
LEMMA KeyStep == TypeOK /\ KeyInv /\ [Next]_vars => KeyInv'
<1>. SUFFICES ASSUME TypeOK, KeyInv, [Next]_vars PROVE KeyInv'
  OBVIOUS
<1>. USE ConfigValuesAssumption
<1>0. ASSUME NEW q \in Procs, pc'[q] = pc[q], alias'[q] = alias[q], mine'[q] = mine[q]
      PROVE  KeyGood(q)'
  BY <1>0, KeyStays, ConfigStays DEF KeyInv, KeyGood
<1>1. ASSUME NEW p \in Procs, Fail(p) \/ Crash(p) PROVE KeyInv'
  <2>1. KeyGood(p)'
    BY <1>1, GotoType DEF Fail, Crash, KeyGood
  <2>2. \A q \in Procs \ {p} : KeyGood(q)'
    BY <1>0, <1>1, GotoType DEF Fail, Crash
  <2>. QED BY <2>1, <2>2 DEF KeyInv
<1>2. ASSUME NEW p \in Procs, InitStep(p) PROVE KeyInv'
  <2>1. CASE Fail(p)
    BY <1>1, <2>1
  <2>2. CASE ~Fail(p)
    <3>1. /\ pc[p] \in {"idle", "key", "persist_key", "config"}
          /\ \E next \in {"key", "persist_key", "config", "done"} : Goto(p, next)
          /\ alias' = alias /\ \A q \in Procs \ {p} : mine'[q] = mine[q]
      BY <1>2, <2>2 DEF InitStep, InitCheck, InitKey, PersistKey, PersistConfig, TypeOK
    <3>2. alias'[p] = None
      BY <3>1 DEF KeyInv, KeyGood
    <3>3. pc'[p] # "save"
      BY <3>1, GotoType
    <3>4. ASSUME pc'[p] = "config" PROVE mine'[p] = key' /\ key' # None
      BY <1>2, <2>2, <3>4, GotoType
      DEF InitStep, InitCheck, InitKey, PersistKey, PersistConfig, TypeOK
    <3>5. ASSUME pc'[p] = "done" PROVE mine'[p] = key' /\ key' # None /\ file' # None
      <4>1. PersistConfig(p)
        BY <1>2, <2>2, <3>5, GotoType DEF InitStep, InitCheck, InitKey, PersistKey
      <4>. QED BY <2>2, <4>1, NoPeersType, NoConfigAssumption DEF PersistConfig, KeyInv, KeyGood
    <3>6. \A q \in Procs \ {p} : KeyGood(q)'
      BY <1>0, <3>1, GotoType
    <3>7. KeyGood(p)'
      BY <3>2, <3>3, <3>4, <3>5 DEF KeyGood
    <3>. QED BY <3>6, <3>7 DEF KeyInv
  <2>. QED BY <2>1, <2>2
<1>3. ASSUME NEW p \in Procs, NEW a \in Aliases, NEW config, Prepare(p, a, config) PROVE KeyInv'
  <2>1. KeyGood(p)'
    BY <1>3, GotoType DEF Prepare, TypeOK, KeyGood
  <2>2. \A q \in Procs \ {p} : KeyGood(q)'
    BY <1>0, <1>3, GotoType DEF Prepare, TypeOK
  <2>. QED BY <2>1, <2>2 DEF KeyInv
<1>4. ASSUME NEW p \in Procs, Save(p) PROVE KeyInv'
  <2>1. KeyGood(p)'
    BY <1>4, GotoType DEF Save, KeyInv, KeyGood
  <2>2. \A q \in Procs \ {p} : KeyGood(q)'
    BY <1>0, <1>4, GotoType DEF Save
  <2>. QED BY <2>1, <2>2 DEF KeyInv
<1>5. CASE UNCHANGED vars
  BY <1>5 DEF KeyInv, KeyGood, vars
<1>6. ASSUME NEW p \in Procs, NEW a \in Aliases, NEW i \in Ids, Add(p, a, i) PROVE KeyInv'
  BY <1>1, <1>3, <1>6 DEF Add
<1>7. ASSUME NEW p \in Procs, NEW a \in Aliases, Remove(p, a) PROVE KeyInv'
  BY <1>1, <1>3, <1>7 DEF Remove
<1>. QED BY <1>1, <1>2, <1>4, <1>5, <1>6, <1>7 DEF Next, Terminated

(* config.rs, init: the id that a successful init prints is the one on     *)
(* disk, then and ever after, with however many commands at once and       *)
(* whichever of them die half-way.                                         *)
THEOREM ReportedKeyStays == Spec => []InitReportsTheKey
<1>1. Init => KeyInv
  BY DEF Init, KeyInv, KeyGood
<1>2. KeyInv => InitReportsTheKey
  BY DEF KeyInv, KeyGood, InitReportsTheKey
<1>. QED BY <1>1, <1>2, KeyStep, TypeCorrect, PTL DEF Spec

=============================================================================
