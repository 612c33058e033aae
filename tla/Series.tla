------------------------------- MODULE Series -------------------------------
(***************************************************************************)
(* One series of probe results, as crates/sshe-node/src/history.rs keeps   *)
(* it for a (kind, method, target): the most recent records, oldest first, *)
(* and the time of the last success, which outlives the record it came     *)
(* from; and the journal's lines about it (sampling/log.rs).  A record is  *)
(* abstracted to when it was observed, whether the check succeeded, and    *)
(* the last-success stamp that insert gives it.                            *)
(***************************************************************************)
EXTENDS Integers, Sequences

CONSTANTS HistorySize,  \* daemon.history_size
          None          \* Rust's Option::None

ASSUME HistorySizeAssumption == HistorySize \in Nat
ASSUME NoneAssumption == None \notin Int

(* The journal's lines about a series at the default level. *)
Lines == {"ok", "failed", "recovered"}
ASSUME NoLineAssumption == None \notin Lines

(* The configured size, at least one. *)
Capacity == IF HistorySize < 1 THEN 1 ELSE HistorySize

Records(Times) == [at : Times, ok : BOOLEAN, last : Times \cup {None}]

SeriesOf(Times) == [records : Seq(Records(Times)), last : Times \cup {None}]

EmptySeries == [records |-> << >>, last |-> None]

(* A check's record as it leaves the measurement: its own stamp only.      *)
Measured(at, ok) == [at |-> at, ok |-> ok, last |-> IF ok THEN at ELSE None]

(* Mutant of LastSuccessWith: only the newest record is asked. *)
LastSuccessForgotten(s, r) == IF r.ok THEN r.at ELSE None

LastSuccessWith(s, r) == IF r.ok THEN r.at ELSE s.last

(* The record as insert stamps it, in place, before it is kept or returned. *)
Stamped(s, r) == [r EXCEPT !.last = LastSuccessWith(s, r)]

(* The records that stay when one more comes in. *)
Kept(s) == IF Len(s.records) = Capacity THEN Tail(s.records) ELSE s.records

insert(s, r) == [records |-> Append(Kept(s), Stamped(s, r)),
                 last    |-> LastSuccessWith(s, r)]

(* The records are kept in the order they were observed. *)
InOrder(rs) == \A i, j \in 1..Len(rs) : i < j => rs[i].at <= rs[j].at

(* How a record changes its series.  It looks only at the newest record    *)
(* kept, so it needs Capacity to be at least one.                          *)
Transition(s, r) ==
  IF s.records = << >> THEN "First"
  ELSE LET before == s.records[Len(s.records)].ok
       IN CASE before /\ ~r.ok -> "Failed"
            [] ~before /\ r.ok -> "Recovered"
            [] OTHER           -> "Unchanged"

(* Mutant of Line: a first failure is not a change. *)
LineOnChange(t, ok) == CASE t = "First"     -> "ok"
                         [] t = "Failed"    -> "failed"
                         [] t = "Recovered" -> "recovered"
                         [] OTHER           -> None

(* log: the line for a transition, None below the default level.           *)
Line(t, ok) == CASE t = "First" /\ ok               -> "ok"
                 [] t \in {"First", "Failed"} /\ ~ok -> "failed"
                 [] t = "Recovered"                  -> "recovered"
                 [] OTHER                            -> None

(* Mutant of SinceLastOk: the outage is counted from the newest record.    *)
SinceLastRecord(s, r) ==
  IF s.records = << >> THEN None ELSE r.at - s.records[Len(s.records)].at

(* since_last_ok_secs of a recovery; saturating_sub. *)
SinceLastOk(s, r) ==
  IF s.last = None THEN None ELSE IF r.at > s.last THEN r.at - s.last ELSE 0

(* What is known of a series, after one more record of it is inserted and  *)
(* logged.                                                                 *)
Logged(known, r) ==
  LET transition == Transition(known.series, r)
      line == Line(transition, r.ok)
  IN [series |-> insert(known.series, r),
      said   |-> IF line = None THEN known.said ELSE line,
      outage |-> IF r.ok THEN None ELSE IF known.outage = None THEN r.at ELSE known.outage,
      bounds |-> IF transition # "Recovered" THEN None
                 ELSE [told |-> SinceLastOk(known.series, r), real |-> r.at - known.outage,
                       never |-> known.never],
      never  |-> known.never /\ ~r.ok]

(* A line about a series tells its present state: "failed" exactly while   *)
(* the newest record is a failure.                                         *)
TellsState(line, s) ==
  /\ line = None <=> s.records = << >>
  /\ s.records # << >> => (line = "failed" <=> ~s.records[Len(s.records)].ok)

(* The time that a "check recovered" line gives bounds the outage; only a  *)
(* target that never worked has none.                                      *)
BoundsOutage(b) ==
  b # None => /\ b.told = None <=> b.never
              /\ b.told # None => b.told >= b.real
=============================================================================
