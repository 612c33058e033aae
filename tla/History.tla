------------------------------ MODULE History -------------------------------
(***************************************************************************)
(* The daemon's history over several series, the journal lines written for *)
(* it, and the query: crates/sshe-node/src/history.rs and sampling/log.rs. *)
(*                                                                         *)
(* A round of a kind takes the history's write lock when its last check    *)
(* has ended (Begin), inserts and logs one record per check, in the        *)
(* checks' order (Insert), and lets the lock go with the last one.  Every  *)
(* check stamps its record when it ends, so the records of one round carry *)
(* different times, and a round of another kind may be inserted before it. *)
(* Rounds of one kind follow each other (module Sampler); one that failed  *)
(* as a whole inserts nothing.  Keys stand for (kind, method, target):     *)
(* nothing keeps two aliases from naming one EndpointId, whose checks then *)
(* share a series.                                                         *)
(***************************************************************************)
EXTENDS Series, FiniteSets

CONSTANTS Checks,     \* the configured checks, in the order they are recorded:
                      \* records with a kind, a target and a label
          MaxQuery,   \* MAX_HISTORY_QUERY
          MaxRounds,  \* bound on the rounds
          Nobody      \* a name no record is about

ASSUME QueryAssumption == MaxQuery \in Nat /\ MaxRounds \in Nat
ASSUME ChecksAssumption == Len(Checks) \in Nat

VARIABLES
  clock,    \* the time, which every round advances
  todo,     \* the write lock's holder: the results still to insert, by check
  series,   \* History::series
  said,     \* the last journal line about each series
  outage,   \* history variable: the first failure since the last success
  bounds,   \* what the last "check recovered" line gave as the outage's
            \* length and how long it really was
  best      \* history variable: the successes of the latest round that had one

historyVars == <<clock, todo, series, said, outage, bounds, best>>

CheckIds == 1..Len(Checks)
KeyOf(c) == <<c.kind, c.target>>
Keys == {KeyOf(Checks[i]) : i \in CheckIds}
ProbeKinds == {Checks[i].kind : i \in CheckIds}

HistoryInit ==
  /\ clock = 0
  /\ todo = << >>
  /\ series = [k \in Keys |-> EmptySeries]
  /\ said = [k \in Keys |-> None]
  /\ outage = [k \in Keys |-> None]
  /\ bounds = [k \in Keys |-> None]
  /\ best = [k \in Keys |-> {}]

(* No writer holds the history's lock. *)
Unlocked == DOMAIN todo = {}

(* The checks of a round of kind k, and when each ended and how.  The      *)
(* round began when the last one of its kind had been inserted.            *)
ChecksOf(k) == {i \in CheckIds : Checks[i].kind = k}
Results(t) == [at : 0..t, ok : BOOLEAN]
NoOlder(k, t) ==
  \A key \in Keys : key[1] = k => \A n \in 1..Len(series[key].records) : series[key].records[n].at <= t

(* sample: the round's work has ended and it has the write lock. *)
Begin(k, res) ==
  /\ Unlocked
  /\ clock < MaxRounds
  /\ \A i \in ChecksOf(k) : NoOlder(k, res[i].at)
  /\ clock' = clock + 1
  /\ todo' = res
  /\ UNCHANGED <<series, said, outage, bounds, best>>

(* The record of a check. *)
Recorded(c, res) == [at |-> res.at, ok |-> res.ok, last |-> Measured(res.at, res.ok).last,
                     target |-> c.target, label |-> c.label]

(* What is known of a series before the next record. *)
Known(k) == [series |-> series[k], said |-> said[k], outage |-> outage[k],
             bounds |-> bounds[k], never |-> best[k] = {}]

(* One turn of sample's loop: the next check's record is inserted and      *)
(* logged.                                                                 *)
Insert(i) ==
  LET key == KeyOf(Checks[i])
      r == Recorded(Checks[i], todo[i])
      after == Logged(Known(key), r)
  IN
  /\ i \in DOMAIN todo
  /\ \A j \in DOMAIN todo : i <= j
  /\ todo' = [j \in DOMAIN todo \ {i} |-> todo[j]]
  /\ series' = [series EXCEPT ![key] = after.series]
  /\ said' = [said EXCEPT ![key] = after.said]
  /\ outage' = [outage EXCEPT ![key] = after.outage]
  /\ bounds' = [bounds EXCEPT ![key] = after.bounds]
  /\ best' = [best EXCEPT ![key] =
                IF r.ok THEN {b \in @ : b.round = clock} \cup {[round |-> clock, at |-> r.at]} ELSE @]
  /\ UNCHANGED clock

HistoryDone == clock = MaxRounds /\ Unlocked /\ UNCHANGED historyVars

HistoryNext == \/ \E k \in ProbeKinds : \E res \in [ChecksOf(k) -> Results(clock + 1)] : Begin(k, res)
               \/ \E i \in CheckIds : Insert(i)
               \/ HistoryDone

HistorySpec == HistoryInit /\ [][HistoryNext]_historyVars

-----------------------------------------------------------------------------
(* The places in the history, a series and an index in it, and the record  *)
(* at one.                                                                 *)
Places == {p \in Keys \X (1..Capacity) : p[2] <= Len(series[p[1]].records)}
RecordAt(p) == series[p[1]].records[p[2]]

(* The BTreeMap's order of the series: any fixed one. *)
KeyRank(k) == CHOOSE i \in CheckIds : KeyOf(Checks[i]) = k

(* Two places as the map is walked: series by series, oldest first. *)
Walked(p, q) == \/ KeyRank(p[1]) < KeyRank(q[1])
                \/ p[1] = q[1] /\ p[2] < q[2]

(* Mutant of Before: the records are not sorted. *)
BeforeUnsorted(p, q) == Walked(p, q)

(* The stable sort by observed_at: equal times stay as they were walked.   *)
Before(p, q) == \/ RecordAt(p).at < RecordAt(q).at
                \/ RecordAt(p).at = RecordAt(q).at /\ Walked(p, q)

(* A set of places in that order: the n-th has n - 1 before it. *)
Rank(S, p) == Cardinality({q \in S : Before(q, p)})
Sorted(S) == [n \in 1..Cardinality(S) |-> CHOOSE p \in S : Rank(S, p) = n - 1]

About(r, name) == name = None \/ r.target = name \/ r.label = name

Matching(kind, name) ==
  {p \in Places : (kind = None \/ p[1][1] = kind) /\ About(RecordAt(p), name)}

(* query: the last `limit` of the matching records, oldest first.          *)
query(kind, name, limit) ==
  LET places == Sorted(Matching(kind, name))
      keep == IF limit < MaxQuery THEN limit ELSE MaxQuery
      from == IF Len(places) > keep THEN Len(places) - keep ELSE 0
  IN [n \in 1..(Len(places) - from) |-> RecordAt(places[from + n])]

Names == {Checks[i].target : i \in CheckIds} \cup {Checks[i].label : i \in CheckIds}

-----------------------------------------------------------------------------
(* Types; and no series outgrows history_size. *)
Entries == [at : Nat, ok : BOOLEAN, last : Nat \cup {None}, target : Names, label : Names]
HistoryTypeOK ==
  /\ clock \in 0..MaxRounds
  /\ \E D \in SUBSET CheckIds : todo \in [D -> Results(clock)]
  /\ series \in [Keys -> [records : Seq(Entries), last : Nat \cup {None}]]
  /\ \A k \in Keys : Len(series[k].records) <= Capacity
  /\ said \in [Keys -> Lines \cup {None}]
  /\ outage \in [Keys -> Nat \cup {None}]
  /\ bounds \in [Keys -> [told : Nat \cup {None}, real : Int, never : BOOLEAN] \cup {None}]
  /\ best \in [Keys -> SUBSET [round : 0..clock, at : 0..clock]]

(* The last success of a series is never lost or made up, also when the    *)
(* record itself is gone: it is one of the latest round that had any.      *)
LastSuccessSurvives ==
  \A k \in Keys : IF best[k] = {} THEN series[k].last = None
                  ELSE \E b \in best[k] : series[k].last = b.at

(* The journal alone tells the present state: the last line about a target *)
(* says "failed" exactly while its newest record is a failure.             *)
JournalTellsState == \A k \in Keys : TellsState(said[k], series[k])

(* The series that only one check records in. *)
Unshared(k) == \A i, j \in CheckIds : KeyOf(Checks[i]) = k /\ KeyOf(Checks[j]) = k => i = j

(* log.rs line 17: the time since the last success bounds the outage from  *)
(* above; only a target that never worked has no bound.  Two checks that   *)
(* share a series break it: the one recorded last may have ended first.    *)
OutageBounded == \A k \in Keys : Unshared(k) => BoundsOutage(bounds[k])

(* The records a query is to choose from, and those of a reply. *)
Kindred(k, kind) == kind = None \/ k[1] = kind
Wanted(kind, name) ==
  {r \in UNION {{series[k].records[n] : n \in 1..Len(series[k].records)} :
                k \in {x \in Keys : Kindred(x, kind)}} : About(r, name)}
Replied(got) == {got[n] : n \in 1..Len(got)}

(* query, which takes the read lock, against what it should return: only   *)
(* matching records, as many as there are within the limits, oldest first, *)
(* and none that is left out is newer than one that is returned.           *)
QueryIsMostRecent ==
  Unlocked =>
  \A kind \in ProbeKinds \cup {None}, name \in Names \cup {None, Nobody},
     limit \in 0..(MaxQuery + 1) :
    LET got == query(kind, name, limit)
        left == Wanted(kind, name) \ Replied(got)
    IN /\ Replied(got) \subseteq Wanted(kind, name)
       /\ InOrder(got)
       /\ Len(got) <= limit /\ Len(got) <= MaxQuery
       /\ left # {} => Len(got) \in {limit, MaxQuery}
       /\ \A r \in left, n \in 1..Len(got) : r.at <= got[n].at
=============================================================================
