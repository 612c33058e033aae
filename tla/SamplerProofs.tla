--------------------------- MODULE SamplerProofs ----------------------------
(* Theorems about Sampler, for any kinds, callers, interval and capacity,  *)
(* and about History, for any checks, rounds and limits.                   *)
EXTENDS Sampler, History, FiniteSetTheorems, TLAPS

(* Records that insert can stamp: each has a time and an outcome, and only  *)
(* its last success changes when it is stamped.  A series of such records. *)
RecordSet(R) ==
  \A r \in R : /\ r.at \in Nat /\ r.ok \in BOOLEAN
              /\ \A l \in Nat \cup {None} : LET x == [r EXCEPT !.last = l]
                                           IN x \in R /\ x.at = r.at /\ x.ok = r.ok
SeriesIn(R) == [records : Seq(R), last : Nat \cup {None}]

(* Sampler's records are such. *)
LEMMA SamplerRecords == RecordSet(Records(Nat)) /\ SeriesIn(Records(Nat)) = SeriesOf(Nat)
BY DEF RecordSet, Records, SeriesIn, SeriesOf

(* A series stays a series when a record is inserted, and the stamped      *)
(* record is a record: Tail is taken of a non-empty sequence because the   *)
(* capacity is at least one.                                               *)
LEMMA InsertIn ==
  ASSUME NEW R, RecordSet(R), NEW s \in SeriesIn(R), NEW r \in R
  PROVE  /\ insert(s, r) \in SeriesIn(R)
         /\ Kept(s) \in Seq(R)
         /\ Stamped(s, r) \in R /\ Stamped(s, r).at = r.at /\ Stamped(s, r).ok = r.ok
<1>1. LastSuccessWith(s, r) \in Nat \cup {None}
  BY DEF SeriesIn, RecordSet, LastSuccessWith
<1>2. Stamped(s, r) \in R /\ Stamped(s, r).at = r.at /\ Stamped(s, r).ok = r.ok
  BY <1>1 DEF Stamped, RecordSet
<1>3. Kept(s) \in Seq(R)
  <2>1. s.records \in Seq(R)
    BY DEF SeriesIn
  <2>2. CASE Len(s.records) = Capacity
    <3>1. s.records # << >>
      BY <2>2, HistorySizeAssumption DEF Capacity
    <3>. QED BY <2>1, <2>2, <3>1 DEF Kept
  <2>3. CASE Len(s.records) # Capacity
    BY <2>1, <2>3 DEF Kept
  <2>. QED BY <2>2, <2>3
<1>. QED BY <1>1, <1>2, <1>3 DEF insert, SeriesIn

(* The same of Sampler's records. *)
LEMMA InsertType ==
  ASSUME NEW s \in SeriesOf(Nat), NEW r \in Records(Nat)
  PROVE  insert(s, r) \in SeriesOf(Nat) /\ Stamped(s, r) \in Records(Nat)
BY InsertIn, SamplerRecords

(* A measured record is a record. *)
LEMMA MeasuredType ==
  ASSUME NEW t \in Nat, NEW ok \in BOOLEAN
  PROVE  Measured(t, ok) \in Records(Nat)
BY DEF Measured, Records

(* None stands for nothing else. *)
LEMMA NoneIsNothing == None \notin Outcomes /\ None \notin Rounds /\ None \notin Kinds
BY ValuesAssumption DEF Outcomes

-----------------------------------------------------------------------------
(* Init establishes the types. *)
LEMMA TypeInit == Init => TypeOK
<1>. SUFFICES ASSUME Init PROVE TypeOK
  OBVIOUS
<1>1. EmptySeries \in SeriesOf(Nat)
  BY DEF EmptySeries, SeriesOf
<1>. QED
  BY <1>1, KindsAssumption, CallersAssumption
  DEF Init, TypeOK, Callers, PCs, Leading, Waiting

(* Every step of a caller keeps the types. *)
LEMMA TypeStep == TypeOK /\ [Next]_vars => TypeOK'
<1>. SUFFICES ASSUME TypeOK, [Next]_vars PROVE TypeOK'
  OBVIOUS
<1>. USE NoneIsNothing, KindsAssumption, CallersAssumption, TimeAssumption
<1>1. CASE Online
  BY <1>1 DEF TypeOK, Online, slot, sched, Callers, PCs, Leading, Waiting
<1>2. ASSUME NEW s \in Scheduled, SchedStep(s) PROVE TypeOK'
  <2>1. CASE SchedRead(s)
    BY <2>1 DEF TypeOK, SchedRead, slot, sched, Callers, PCs, Leading, Waiting
  <2>2. CASE SchedChanged(s)
    BY <2>2 DEF TypeOK, SchedChanged, slot, sched, Callers, PCs, Leading, Waiting
  <2>3. CASE SchedTimer(s)
    BY <2>3 DEF TypeOK, SchedTimer, slot, sched, Callers, PCs, Leading, Waiting
  <2>. QED BY <1>2, <2>1, <2>2, <2>3 DEF SchedStep
<1>3. ASSUME NEW m \in Manual, NEW k \in Kinds, Ask(m, k) PROVE TypeOK'
  BY <1>3 DEF TypeOK, Ask, slot, sched, Callers, PCs, Leading, Waiting
<1>4. ASSUME NEW c \in Callers, Step(c) PROVE TypeOK'
  <2>1. CASE Join(c)
    BY <2>1 DEF TypeOK, Join, InFlight, slot, sched, PCs, Leading, Waiting
  <2>2. CASE Skip(c)
    BY <2>2 DEF TypeOK, Skip, Returned, slot, sched, PCs, Leading, Waiting
  <2>3. CASE Lead(c)
    <3>1. PICK r \in Rounds : /\ running' = [running EXCEPT ![kind[c]] = r]
                              /\ value' = [value EXCEPT ![r] = None]
                              /\ round' = [round EXCEPT ![c] = r]
      BY <2>3 DEF Lead, NewRound
    <3>. QED
      BY <2>3, <3>1 DEF TypeOK, Lead, NewRound, sched, PCs, Leading, Waiting
  <2>4. ASSUME NEW ok \in BOOLEAN, WorkOk(c, ok) PROVE TypeOK'
    <3>1. Measured(now, ok) \in Records(Nat)
      BY MeasuredType DEF TypeOK
    <3>. QED
      BY <2>4, <3>1 DEF TypeOK, WorkOk, slot, sched, Outcomes, PCs, Leading, Waiting
  <2>5. CASE WorkErr(c)
    BY <2>5, ValuesAssumption
    DEF TypeOK, WorkErr, slot, sched, Outcomes, PCs, Leading, Waiting
  <2>6. CASE WriteHistory(c)
    <3>1. /\ insert(hist[kind[c]], outcome[c]) \in SeriesOf(Nat)
          /\ Stamped(hist[kind[c]], outcome[c]) \in Records(Nat)
      BY <2>6, InsertType DEF TypeOK, WriteHistory, Leading
    <3>. QED
      BY <2>6, <3>1 DEF TypeOK, WriteHistory, sched, Outcomes, PCs, Leading, Waiting
  <2>7. CASE Publish(c)
    <3>1. Released(c, outcome[c]) \in Outcomes \cup {None}
      BY DEF Released, TypeOK
    <3>. QED
      BY <2>7, <3>1 DEF TypeOK, Publish, Returned, Result, PCs, Leading, Waiting
  <2>8. CASE Receive(c)
    <3>1. Released(c, value[round[c]]) \in Outcomes \cup {None}
      BY <2>8 DEF Released, TypeOK, Receive
    <3>. QED
      BY <2>8, <3>1
      DEF TypeOK, Receive, Returned, Result, slot, sched, PCs, Leading, Waiting
  <2>9. CASE ReceiveClosed(c)
    BY <2>9 DEF TypeOK, ReceiveClosed, slot, sched, PCs, Leading, Waiting
  <2>. QED
    BY <1>4, <2>1, <2>2, <2>3, <2>4, <2>5, <2>6, <2>7, <2>8, <2>9 DEF Step, Enter, Work
<1>5. ASSUME NEW c \in Callers, Cancel(c) PROVE TypeOK'
  BY <1>5 DEF TypeOK, Cancel, slot, sched, PCs, Leading, Waiting
<1>6. CASE Tick
  BY <1>6 DEF TypeOK, Tick, slot, sched, Leading, Waiting
<1>7. CASE Terminated \/ UNCHANGED vars
  BY <1>7 DEF TypeOK, Terminated, vars, Leading, Waiting
<1>. QED
  BY <1>1, <1>2, <1>3, <1>4, <1>5, <1>6, <1>7 DEF Next

(* Every variable keeps its type, in every reachable state. *)
THEOREM TypeCorrect == Spec => []TypeOK
BY TypeInit, TypeStep, PTL DEF Spec

-----------------------------------------------------------------------------
(* What the slots and the channels know of each other.  A leader's round   *)
(* is the one in its slot and holds no value yet; no two slots and no two  *)
(* leaders share a round; a waiter's round is in no slot but its own       *)
(* kind's.  SingleFlight alone is not inductive: Lead looks at the slot's  *)
(* round, so the step needs to know that every leader's round is there.    *)
LeaderInSlot ==
  \A c \in Callers : Leading(c) => /\ running[kind[c]] = round[c]
                                   /\ value[round[c]] = None
SlotsDisjoint ==
  \A k, l \in Kinds : running[k] = running[l] /\ running[k] # None => k = l
WaiterOfKind ==
  \A c \in Callers, k \in Kinds : Waiting(c) /\ running[k] = round[c] => k = kind[c]
LeadersDisjoint ==
  \A c, d \in Callers : Leading(c) /\ Leading(d) /\ round[c] = round[d] => c = d

RoundInv == LeaderInSlot /\ SlotsDisjoint /\ WaiterOfKind /\ LeadersDisjoint

(* Init has no rounds. *)
LEMMA RoundInit == Init => RoundInv
BY DEF Init, RoundInv, LeaderInSlot, SlotsDisjoint, WaiterOfKind, LeadersDisjoint,
       Leading, Waiting, Callers

(* Every step keeps the correspondence of slots and channels. *)
LEMMA RoundStep == TypeOK /\ RoundInv /\ [Next]_vars => RoundInv'
<1>. SUFFICES ASSUME TypeOK, RoundInv, [Next]_vars PROVE RoundInv'
  OBVIOUS
<1>. USE NoneIsNothing, KindsAssumption, CallersAssumption
     DEF RoundInv, LeaderInSlot, SlotsDisjoint, WaiterOfKind, LeadersDisjoint,
         TypeOK, Leading, Waiting
<1>1. CASE Online
  BY <1>1 DEF Online, slot, sched
<1>2. ASSUME NEW s \in Scheduled, SchedStep(s) PROVE RoundInv'
  BY <1>2 DEF SchedStep, SchedRead, SchedChanged, SchedTimer, slot, sched, Callers
<1>3. ASSUME NEW m \in Manual, NEW k \in Kinds, Ask(m, k) PROVE RoundInv'
  BY <1>3 DEF Ask, slot, sched, Callers
<1>4. ASSUME NEW c \in Callers, Step(c) PROVE RoundInv'
  <2>1. CASE Join(c)
    BY <2>1 DEF Join, InFlight, slot, sched
  <2>2. CASE Skip(c)
    BY <2>2 DEF Skip, Returned, slot, sched
  <2>3. CASE Lead(c)
    <3>1. PICK r \in Rounds : /\ Unused(r)
                              /\ running' = [running EXCEPT ![kind[c]] = r]
                              /\ value' = [value EXCEPT ![r] = None]
                              /\ round' = [round EXCEPT ![c] = r]
      BY <2>3 DEF Lead, NewRound
    <3>2. \A d \in Callers : Leading(d) => kind[d] # kind[c]
      BY <2>3 DEF Lead, InFlight, Alive
    <3>3. pc' = [pc EXCEPT ![c] = "work"] /\ kind' = kind /\ kind[c] \in Kinds
      BY <2>3 DEF Lead
    <3>4. LeaderInSlot'
      BY <3>1, <3>2, <3>3 DEF Unused
    <3>5. SlotsDisjoint'
      BY <3>1, <3>3 DEF Unused
    <3>6. WaiterOfKind'
      BY <3>1, <3>3 DEF Unused
    <3>7. LeadersDisjoint'
      BY <3>1, <3>3 DEF Unused
    <3>. QED BY <3>4, <3>5, <3>6, <3>7
  <2>4. CASE Work(c)
    BY <2>4 DEF Work, WorkOk, WorkErr, slot, sched
  <2>5. CASE WriteHistory(c)
    BY <2>5 DEF WriteHistory, sched
  <2>6. CASE Publish(c)
    <3>1. /\ pc' = [pc EXCEPT ![c] = Returned(c)] /\ Returned(c) \in {"read", "answered"}
          /\ kind' = kind /\ round' = [round EXCEPT ![c] = None]
          /\ running' = [running EXCEPT ![kind[c]] = None]
          /\ value' = [value EXCEPT ![round[c]] = Released(c, outcome[c])]
          /\ Leading(c) /\ kind[c] \in Kinds
      BY <2>6 DEF Publish, Returned
    <3>2. LeaderInSlot'
      BY <3>1
    <3>3. SlotsDisjoint' /\ WaiterOfKind' /\ LeadersDisjoint'
      BY <3>1
    <3>. QED BY <3>2, <3>3
  <2>7. CASE Receive(c)
    BY <2>7 DEF Receive, Returned, Released, sched
  <2>8. CASE ReceiveClosed(c)
    BY <2>8 DEF ReceiveClosed, slot, sched
  <2>. QED
    BY <1>4, <2>1, <2>2, <2>3, <2>4, <2>5, <2>6, <2>7, <2>8 DEF Step, Enter
<1>5. ASSUME NEW c \in Callers, Cancel(c) PROVE RoundInv'
  BY <1>5 DEF Cancel, slot, sched
<1>6. CASE Tick
  BY <1>6 DEF Tick, slot, sched
<1>7. CASE Terminated \/ UNCHANGED vars
  BY <1>7 DEF Terminated, vars
<1>. QED
  BY <1>1, <1>2, <1>3, <1>4, <1>5, <1>6, <1>7 DEF Next

(* At most one caller leads a round of a kind, for any number of kinds,    *)
(* requests and rounds: two leaders of a kind would share its slot's round. *)
THEOREM SingleFlightHolds == Spec => []SingleFlight
<1>1. TypeOK /\ RoundInv => SingleFlight
  BY DEF TypeOK, RoundInv, LeaderInSlot, LeadersDisjoint, SingleFlight
<1>. QED
  BY <1>1, TypeInit, TypeStep, RoundInit, RoundStep, PTL DEF Spec

-----------------------------------------------------------------------------
(* What the deadlines, the times of the requests and the times of the      *)
(* publications know of each other.                                        *)
DeadlineFromDone ==
  \A k \in Kinds : next[k] = IF done[k] = None THEN None ELSE done[k] + Interval
PastOnly ==
  /\ \A k \in Kinds : done[k] # None => done[k] <= now
  /\ \A m \in Manual : asked[m] <= now
FreshValue ==
  \A m \in Manual : Waiting(m) /\ value[round[m]] # None =>
    done[kind[m]] # None /\ asked[m] <= done[kind[m]]

TimeInv == DeadlineFromDone /\ PastOnly /\ FreshValue /\ FreshAnswer

(* Nothing has been asked or published at first. *)
LEMMA TimeInit == Init => TimeInv
BY TimeAssumption
DEF Init, TimeInv, DeadlineFromDone, PastOnly, FreshValue, FreshAnswer, Waiting, Callers

(* Every step keeps them. *)
LEMMA TimeStep == TypeOK /\ RoundInv /\ TimeInv /\ [Next]_vars => TimeInv'
<1>. SUFFICES ASSUME TypeOK, RoundInv, TimeInv, [Next]_vars PROVE TimeInv'
  OBVIOUS
<1>. USE NoneIsNothing, NoneAssumption, KindsAssumption, CallersAssumption, TimeAssumption
     DEF TimeInv, DeadlineFromDone, PastOnly, FreshValue, FreshAnswer,
         TypeOK, Waiting, Callers
<1>1. CASE Online
  BY <1>1 DEF Online, slot, sched
<1>2. ASSUME NEW s \in Scheduled, SchedStep(s) PROVE TimeInv'
  BY <1>2 DEF SchedStep, SchedRead, SchedChanged, SchedTimer, slot, sched
<1>3. ASSUME NEW m \in Manual, NEW k \in Kinds, Ask(m, k) PROVE TimeInv'
  BY <1>3 DEF Ask, slot, sched
<1>4. ASSUME NEW c \in Callers, Step(c) PROVE TimeInv'
  <2>1. CASE Join(c)
    <3>1. value[running[kind[c]]] = None
      BY <2>1 DEF Join, InFlight, Alive, RoundInv, LeaderInSlot, SlotsDisjoint, Leading
    <3>. QED BY <2>1, <3>1 DEF Join, slot, sched
  <2>2. CASE Skip(c)
    BY <2>2 DEF Skip, Returned, slot, sched
  <2>3. CASE Lead(c)
    BY <2>3 DEF Lead, NewRound, Unused, sched
  <2>4. CASE Work(c)
    BY <2>4 DEF Work, WorkOk, WorkErr, slot, sched
  <2>5. CASE WriteHistory(c)
    BY <2>5 DEF WriteHistory, sched
  <2>6. CASE Publish(c)
    <3>1. \A m \in Manual : Waiting(m) /\ round[m] = round[c] => kind[m] = kind[c]
      BY <2>6 DEF Publish, RoundInv, WaiterOfKind, LeaderInSlot, Leading
    <3>2. /\ pc' = [pc EXCEPT ![c] = Returned(c)] /\ kind[c] \in Kinds
          /\ Returned(c) \in {"read", "answered"}
          /\ now' = now /\ kind' = kind /\ asked' = asked
          /\ round' = [round EXCEPT ![c] = None]
          /\ next' = [next EXCEPT ![kind[c]] = now + Interval]
          /\ done' = [done EXCEPT ![kind[c]] = now]
          /\ value' = [value EXCEPT ![round[c]] = Released(c, outcome[c])]
      BY <2>6 DEF Publish, Returned, Leading
    <3>3. DeadlineFromDone' /\ PastOnly'
      BY <3>2
    <3>4. FreshValue'
      BY <3>1, <3>2
    <3>5. FreshAnswer'
      BY <3>2
    <3>. QED BY <3>3, <3>4, <3>5
  <2>7. CASE Receive(c)
    BY <2>7 DEF Receive, Returned, Released, sched
  <2>8. CASE ReceiveClosed(c)
    BY <2>8 DEF ReceiveClosed, slot, sched
  <2>. QED
    BY <1>4, <2>1, <2>2, <2>3, <2>4, <2>5, <2>6, <2>7, <2>8 DEF Step, Enter
<1>5. ASSUME NEW c \in Callers, Cancel(c) PROVE TimeInv'
  BY <1>5 DEF Cancel, slot, sched
<1>6. CASE Tick
  BY <1>6 DEF Tick, slot, sched
<1>7. CASE Terminated \/ UNCHANGED vars
  BY <1>7 DEF Terminated, vars
<1>. QED
  BY <1>1, <1>2, <1>3, <1>4, <1>5, <1>6, <1>7 DEF Next

(* A request is only ever answered by a round published after it asked.    *)
THEOREM FreshAnswerHolds == Spec => []FreshAnswer
<1>1. TimeInv => FreshAnswer
  BY DEF TimeInv
<1>. QED
  BY <1>1, TypeInit, TypeStep, RoundInit, RoundStep, TimeInit, TimeStep, PTL DEF Spec

(* The scheduler never starts a round sooner than an interval after the    *)
(* last one of its kind was published, whoever led that one.               *)
THEOREM ScheduledSpacingHolds == Spec => ScheduledSpacing
<1>. DEFINE Spaced == \A s \in Scheduled : pc[s] = "enter" /\ pc'[s] = "work" =>
                        done[s] = None \/ now >= done[s] + Interval
<1>1. TypeOK /\ TimeInv /\ [Next]_vars => [Spaced]_vars
  <2>. SUFFICES ASSUME TypeOK, TimeInv, Next, NEW s \in Scheduled,
                       pc[s] = "enter", pc'[s] = "work"
                PROVE  done[s] = None \/ now >= done[s] + Interval
    OBVIOUS
  <2>. USE KindsAssumption, CallersAssumption DEF TypeOK, Callers
  <2>1. ~(Online \/ Tick \/ Terminated)
    BY DEF Online, Tick, Terminated, vars
  <2>2. ASSUME NEW t \in Scheduled, SchedStep(t) PROVE FALSE
    BY <2>2 DEF SchedStep, SchedRead, SchedChanged, SchedTimer
  <2>3. ASSUME NEW m \in Manual, NEW k \in Kinds, Ask(m, k) PROVE FALSE
    BY <2>3 DEF Ask
  <2>4. ASSUME NEW c \in Callers, Cancel(c) PROVE FALSE
    BY <2>4 DEF Cancel
  <2>5. ASSUME NEW c \in Callers, Step(c) PROVE Lead(s)
    BY <2>5 DEF Step, Enter, Join, Skip, Lead, Work, WorkOk, WorkErr, WriteHistory,
                Publish, Receive, ReceiveClosed, Returned, Waiting
  <2>6. Lead(s)
    BY <2>1, <2>2, <2>3, <2>4, <2>5 DEF Next
  <2>. QED
    BY <2>6, NoneAssumption, TimeAssumption DEF Lead, NotDue, TimeInv, DeadlineFromDone
<1>. QED
  BY <1>1, TypeInit, TypeStep, RoundInit, RoundStep, TimeInit, TimeStep, PTL
  DEF Spec, ScheduledSpacing

-----------------------------------------------------------------------------
(* No record was observed after t. *)
UpTo(rs, t) == \A i \in 1..Len(rs) : rs[i].at <= t

(* The records of a sequence have times. *)
LEMMA RecordTimes ==
  ASSUME NEW rs \in Seq(Records(Nat))
  PROVE  \A i \in 1..Len(rs) : rs[i].at \in Nat
<1>. TAKE i \in 1..Len(rs)
<1>1. rs[i] \in Records(Nat)
  OBVIOUS
<1>. QED BY <1>1 DEF Records

(* Dropping the oldest record keeps the order. *)
LEMMA TailInOrder ==
  ASSUME NEW rs \in Seq(Records(Nat)), rs # << >>, InOrder(rs), NEW t, UpTo(rs, t)
  PROVE  InOrder(Tail(rs)) /\ UpTo(Tail(rs), t)
<1>1. /\ Len(Tail(rs)) = Len(rs) - 1 /\ Len(rs) \in Nat
      /\ \A i \in 1..Len(Tail(rs)) : Tail(rs)[i] = rs[i + 1]
  OBVIOUS
<1>2. InOrder(Tail(rs))
  <2>. SUFFICES ASSUME NEW i \in 1..Len(Tail(rs)), NEW j \in 1..Len(Tail(rs)), i < j
                PROVE  Tail(rs)[i].at <= Tail(rs)[j].at
    BY DEF InOrder
  <2>1. i + 1 \in 1..Len(rs) /\ j + 1 \in 1..Len(rs) /\ i + 1 < j + 1
    BY <1>1
  <2>2. rs[i + 1].at <= rs[j + 1].at
    BY <2>1 DEF InOrder
  <2>. QED BY <1>1, <2>2
<1>3. UpTo(Tail(rs), t)
  <2>. SUFFICES ASSUME NEW i \in 1..Len(Tail(rs)) PROVE Tail(rs)[i].at <= t
    BY DEF UpTo
  <2>1. i + 1 \in 1..Len(rs)
    BY <1>1
  <2>2. rs[i + 1].at <= t
    BY <2>1 DEF UpTo
  <2>. QED BY <1>1, <2>2
<1>. QED BY <1>2, <1>3

(* Appending a record that is no older than the others keeps the order.    *)
LEMMA AppendInOrder ==
  ASSUME NEW rs \in Seq(Records(Nat)), NEW r \in Records(Nat),
         InOrder(rs), UpTo(rs, r.at)
  PROVE  InOrder(Append(rs, r)) /\ UpTo(Append(rs, r), r.at)
<1>. DEFINE all == Append(rs, r)
<1>1. /\ Len(all) = Len(rs) + 1 /\ Len(rs) \in Nat
      /\ \A i \in 1..Len(rs) : all[i] = rs[i]
      /\ all[Len(rs) + 1] = r
  OBVIOUS
<1>2. r.at \in Nat
  BY DEF Records
<1>. HIDE DEF all
<1>3. UpTo(all, r.at)
  <2>. SUFFICES ASSUME NEW i \in 1..Len(all) PROVE all[i].at <= r.at
    BY DEF UpTo
  <2>1. CASE i \in 1..Len(rs)
    <3>1. rs[i].at <= r.at
      BY <2>1 DEF UpTo
    <3>. QED BY <1>1, <2>1, <3>1
  <2>2. CASE i = Len(rs) + 1
    BY <1>1, <1>2, <2>2
  <2>. QED BY <1>1, <2>1, <2>2
<1>4. InOrder(all)
  <2>. SUFFICES ASSUME NEW i \in 1..Len(all), NEW j \in 1..Len(all), i < j
                PROVE  all[i].at <= all[j].at
    BY DEF InOrder
  <2>1. CASE j \in 1..Len(rs)
    <3>1. i \in 1..Len(rs)
      BY <1>1, <2>1
    <3>2. rs[i].at <= rs[j].at
      BY <2>1, <3>1 DEF InOrder
    <3>. QED BY <1>1, <2>1, <3>1, <3>2
  <2>2. CASE j = Len(rs) + 1
    <3>1. all[i].at <= r.at
      BY <1>3 DEF UpTo
    <3>. QED BY <1>1, <2>2, <3>1
  <2>. QED BY <1>1, <2>1, <2>2
<1>. QED BY <1>3, <1>4 DEF all

(* Inserting a record that is no older than those kept keeps the order.    *)
LEMMA InsertInOrder ==
  ASSUME NEW s \in SeriesOf(Nat), NEW r \in Records(Nat),
         InOrder(s.records), UpTo(s.records, r.at)
  PROVE  InOrder(insert(s, r).records) /\ UpTo(insert(s, r).records, r.at)
<1>1. s.records \in Seq(Records(Nat))
  BY DEF SeriesOf
<1>2. Stamped(s, r) \in Records(Nat) /\ Stamped(s, r).at = r.at
  BY InsertType DEF Stamped, Records
<1>3. Kept(s) \in Seq(Records(Nat)) /\ InOrder(Kept(s)) /\ UpTo(Kept(s), r.at)
  <2>1. CASE Len(s.records) = Capacity
    <3>1. s.records # << >>
      BY <1>1, <2>1, HistorySizeAssumption DEF Capacity
    <3>2. Kept(s) = Tail(s.records)
      BY <2>1 DEF Kept
    <3>. QED BY <1>1, <3>1, <3>2, TailInOrder
  <2>2. CASE Len(s.records) # Capacity
    BY <1>1, <2>2 DEF Kept
  <2>. QED BY <2>1, <2>2
<1>4. insert(s, r).records = Append(Kept(s), Stamped(s, r))
  BY DEF insert
<1>. QED
  BY <1>2, <1>3, <1>4, AppendInOrder

(* The history holds nothing from the future, and a record that waits for  *)
(* the history lock is no older than those its kind has: only its own      *)
(* leader writes them, by SingleFlight.                                    *)
RecordInv ==
  /\ HistoryOrdered
  /\ \A k \in Kinds : UpTo(hist[k].records, now)
  /\ \A c \in Callers : pc[c] = "write" => /\ UpTo(hist[kind[c]].records, outcome[c].at)
                                            /\ outcome[c].at <= now

(* Every step keeps the history in order. *)
LEMMA RecordStep == TypeOK /\ SingleFlight /\ RecordInv /\ [Next]_vars => RecordInv'
<1>. SUFFICES ASSUME TypeOK, SingleFlight, RecordInv, [Next]_vars PROVE RecordInv'
  OBVIOUS
<1>. USE KindsAssumption, CallersAssumption DEF RecordInv, HistoryOrdered, TypeOK
<1>1. CASE Online
  BY <1>1 DEF Online, slot, sched
<1>2. ASSUME NEW s \in Scheduled, SchedStep(s) PROVE RecordInv'
  BY <1>2 DEF SchedStep, SchedRead, SchedChanged, SchedTimer, slot, sched, Callers
<1>3. ASSUME NEW m \in Manual, NEW k \in Kinds, Ask(m, k) PROVE RecordInv'
  BY <1>3 DEF Ask, slot, sched, Callers
<1>4. ASSUME NEW c \in Callers, Step(c) PROVE RecordInv'
  <2>1. CASE Enter(c) \/ WorkErr(c) \/ Publish(c) \/ Receive(c) \/ ReceiveClosed(c)
    BY <2>1 DEF Enter, Join, Skip, Lead, WorkErr, Publish, Receive, ReceiveClosed,
                Returned, Waiting, slot, sched
  <2>2. ASSUME NEW ok \in BOOLEAN, WorkOk(c, ok) PROVE RecordInv'
    <3>1. Measured(now, ok).at = now
      BY DEF Measured
    <3>. QED BY <2>2, <3>1 DEF WorkOk, slot, sched, Leading
  <2>3. CASE WriteHistory(c)
    <3>. DEFINE k == kind[c]
                new == insert(hist[k], outcome[c])
    <3>1. k \in Kinds /\ outcome[c] \in Records(Nat) /\ hist[k] \in SeriesOf(Nat)
      BY <2>3 DEF WriteHistory, Leading
    <3>2. InOrder(new.records) /\ UpTo(new.records, outcome[c].at)
      BY <2>3, <3>1, InsertInOrder DEF WriteHistory
    <3>3. UpTo(new.records, now)
      <4>1. new \in SeriesOf(Nat) /\ outcome[c].at \in Nat /\ outcome[c].at <= now
        BY <2>3, <3>1, InsertType DEF WriteHistory, Records
      <4>2. \A i \in 1..Len(new.records) : new.records[i].at \in Nat
        <5>1. new.records \in Seq(Records(Nat))
          BY <4>1 DEF SeriesOf
        <5>. QED BY <5>1, RecordTimes
      <4>. HIDE DEF new
      <4>. QED BY <3>2, <4>1, <4>2 DEF UpTo
    <3>4. /\ hist' = [hist EXCEPT ![k] = new] /\ now' = now /\ kind' = kind
          /\ pc' = [pc EXCEPT ![c] = "publish"]
          /\ \A d \in Callers \ {c} : outcome'[d] = outcome[d]
      BY <2>3 DEF WriteHistory
    <3>5. \A d \in Callers : pc[d] = "write" /\ d # c => kind[d] # k
      BY <2>3 DEF WriteHistory, SingleFlight, Leading
    <3>6. \A d \in Callers : pc[d] = "write" => kind[d] \in Kinds
      BY DEF Leading
    <3>. HIDE DEF new, k
    <3>. QED BY <3>1, <3>2, <3>3, <3>4, <3>5, <3>6
  <2>. QED BY <1>4, <2>1, <2>2, <2>3 DEF Step, Work
<1>5. ASSUME NEW c \in Callers, Cancel(c) PROVE RecordInv'
  BY <1>5 DEF Cancel, slot, sched
<1>6. CASE Tick
  <2>1. \A k \in Kinds : \A i \in 1..Len(hist[k].records) : hist[k].records[i].at \in Nat
    <3>. TAKE k \in Kinds
    <3>1. hist[k].records \in Seq(Records(Nat))
      BY DEF SeriesOf
    <3>. QED BY <3>1, RecordTimes
  <2>2. \A c \in Callers : pc[c] = "write" => outcome[c].at \in Nat
    BY DEF Records
  <2>. QED BY <1>6, <2>1, <2>2 DEF Tick, slot, sched, UpTo
<1>7. CASE Terminated \/ UNCHANGED vars
  BY <1>7 DEF Terminated, vars
<1>. QED
  BY <1>1, <1>2, <1>3, <1>4, <1>5, <1>6, <1>7 DEF Next

(* The records of a kind are in the order they were observed, for any      *)
(* capacity and however long a leader waits for the history lock.          *)
THEOREM HistoryOrderedHolds == Spec => []HistoryOrdered
<1>1. Init => RecordInv
  BY KindsAssumption
  DEF Init, RecordInv, HistoryOrdered, InOrder, UpTo, EmptySeries, Callers
<1>2. RecordInv => HistoryOrdered
  BY DEF RecordInv
<1>. QED
  BY <1>1, <1>2, RecordStep, TypeInit, TypeStep, SingleFlightHolds, PTL DEF Spec

-----------------------------------------------------------------------------
(* A record is in the series, or newer ones have pushed it out. *)
InSeries(s, v) ==
  \/ \E i \in 1..Len(s.records) : s.records[i] = v
  \/ Len(s.records) = Capacity /\ \A i \in 1..Len(s.records) : s.records[i].at >= v.at

(* A full series stays full, and one that is not grows by one. *)
LEMMA InsertShape ==
  ASSUME NEW R, RecordSet(R), NEW s \in SeriesIn(R), NEW r \in R, Len(s.records) <= Capacity
  PROVE  LET rs == s.records
             new == insert(s, r).records
         IN /\ Len(new) \in Nat /\ Len(new) <= Capacity /\ Len(new) > 0
            /\ new[Len(new)] = Stamped(s, r)
            /\ Len(rs) # Capacity => /\ Len(new) = Len(rs) + 1
                                     /\ \A i \in 1..Len(rs) : new[i] = rs[i]
            /\ Len(rs) = Capacity => /\ Len(new) = Capacity /\ Len(rs) > 0
                                     /\ \A i \in 1..(Len(rs) - 1) : new[i] = rs[i + 1]
<1>. DEFINE rs == s.records
            kept == Kept(s)
            st == Stamped(s, r)
<1>1. rs \in Seq(R) /\ Len(rs) \in Nat
  BY DEF SeriesIn
<1>2. Capacity \in Nat \ {0}
  BY HistorySizeAssumption DEF Capacity
<1>3. insert(s, r).records = Append(kept, st)
  BY DEF insert
<1>4. kept \in Seq(R) /\ st \in R
  <2>1. CASE Len(rs) = Capacity
    <3>1. rs # << >>
      BY <1>2, <2>1
    <3>. QED BY <1>1, <2>1, <3>1, InsertIn DEF Kept
  <2>2. CASE Len(rs) # Capacity
    BY <1>1, <2>2, InsertIn DEF Kept
  <2>. QED BY <2>1, <2>2
<1>5. CASE Len(rs) = Capacity
  <2>1. kept = Tail(rs) /\ rs # << >>
    BY <1>1, <1>2, <1>5 DEF Kept
  <2>2. Len(kept) = Len(rs) - 1 /\ \A i \in 1..(Len(rs) - 1) : kept[i] = rs[i + 1]
    BY <1>1, <2>1
  <2>. HIDE DEF kept, st, rs
  <2>3. /\ Len(Append(kept, st)) = Len(rs) /\ Append(kept, st)[Len(rs)] = st
        /\ \A i \in 1..(Len(rs) - 1) : Append(kept, st)[i] = kept[i]
    BY <1>1, <1>2, <1>4, <1>5, <2>2
  <2>. QED BY <1>1, <1>2, <1>3, <1>5, <2>2, <2>3 DEF rs, st
<1>6. CASE Len(rs) # Capacity
  <2>1. kept = rs
    BY <1>6 DEF Kept
  <2>. HIDE DEF kept, st
  <2>2. /\ Len(Append(kept, st)) = Len(rs) + 1 /\ Append(kept, st)[Len(rs) + 1] = st
        /\ \A i \in 1..Len(rs) : Append(kept, st)[i] = rs[i]
    BY <1>1, <1>4, <2>1
  <2>. QED BY <1>1, <1>2, <1>3, <1>6, <2>2 DEF st
<1>. QED BY <1>5, <1>6

(* A record that insert returned is in the series ... *)
LEMMA InsertedInSeries ==
  ASSUME NEW s \in SeriesOf(Nat), NEW r \in Records(Nat), Len(s.records) <= Capacity
  PROVE  InSeries(insert(s, r), Stamped(s, r))
BY InsertShape, SamplerRecords DEF InSeries

(* ... and stays there, or is pushed out by records that are no older.     *)
LEMMA StaysInSeries ==
  ASSUME NEW s \in SeriesOf(Nat), NEW r \in Records(Nat), NEW v \in Records(Nat),
         Len(s.records) <= Capacity, InOrder(s.records), UpTo(s.records, r.at), InSeries(s, v)
  PROVE  InSeries(insert(s, r), v)
<1>. DEFINE rs == s.records
            new == insert(s, r).records
            st == Stamped(s, r)
<1>1. /\ rs \in Seq(Records(Nat)) /\ Len(rs) \in Nat
      /\ \A i \in 1..Len(rs) : rs[i].at \in Nat
  BY RecordTimes DEF SeriesOf
<1>2. v.at \in Nat /\ r.at \in Nat /\ st.at = r.at
  BY DEF Records, Stamped
<1>3. /\ Len(new) \in Nat /\ Len(new) <= Capacity /\ new[Len(new)] = st
      /\ Len(rs) # Capacity => /\ Len(new) = Len(rs) + 1
                               /\ \A i \in 1..Len(rs) : new[i] = rs[i]
      /\ Len(rs) = Capacity => /\ Len(new) = Capacity /\ Len(rs) > 0
                               /\ \A i \in 1..(Len(rs) - 1) : new[i] = rs[i + 1]
  BY InsertShape, SamplerRecords
<1>4. UpTo(rs, r.at) /\ InOrder(rs)
  OBVIOUS
<1>5. \/ \E i \in 1..Len(rs) : rs[i] = v
      \/ Len(rs) = Capacity /\ \A i \in 1..Len(rs) : rs[i].at >= v.at
  BY DEF InSeries
<1>. HIDE DEF rs, new, st
<1>6. CASE Len(rs) # Capacity
  <2>1. \E i \in 1..Len(new) : new[i] = v
    BY <1>1, <1>3, <1>5, <1>6
  <2>. QED BY <2>1 DEF InSeries, new
<1>7. CASE Len(rs) = Capacity
  <2>1. CASE \E i \in 2..Len(rs) : rs[i] = v
    <3>1. PICK i \in 2..Len(rs) : rs[i] = v
      BY <2>1
    <3>2. i - 1 \in 1..(Len(rs) - 1) /\ (i - 1) + 1 = i /\ i - 1 \in 1..Len(new)
      BY <1>1, <1>3, <1>7
    <3>3. new[i - 1] = v
      BY <1>3, <1>7, <3>1, <3>2
    <3>. QED BY <3>2, <3>3 DEF InSeries, new
  <2>2. CASE \A i \in 1..Len(rs) : rs[i].at >= v.at
    <3>1. r.at >= v.at
      <4>1. 1 \in 1..Len(rs)
        BY <1>1, <1>3, <1>7
      <4>2. rs[1].at <= r.at /\ rs[1].at >= v.at
        BY <1>4, <2>2, <4>1 DEF UpTo
      <4>. QED BY <1>1, <1>2, <4>1, <4>2
    <3>2. ASSUME NEW i \in 1..Len(new) PROVE new[i].at >= v.at
      <4>1. CASE i = Len(new)
        BY <1>2, <1>3, <3>1, <4>1
      <4>2. CASE i # Len(new)
        <5>1. i \in 1..(Len(rs) - 1) /\ i + 1 \in 1..Len(rs)
          BY <1>1, <1>3, <1>7, <4>2
        <5>. QED BY <1>3, <1>7, <2>2, <5>1
      <4>. QED BY <4>1, <4>2
    <3>. QED BY <1>3, <1>7, <3>2 DEF InSeries, new
  <2>3. CASE rs[1] = v
    <3>1. \A i \in 1..Len(rs) : rs[i].at >= v.at
      <4>. TAKE i \in 1..Len(rs)
      <4>1. 1 \in 1..Len(rs)
        BY <1>1
      <4>2. 1 < i => rs[1].at <= rs[i].at
        BY <1>4, <4>1 DEF InOrder
      <4>. QED BY <1>1, <1>2, <2>3, <4>1, <4>2
    <3>. QED BY <2>2, <3>1
  <2>. QED BY <1>1, <1>5, <2>1, <2>2, <2>3
<1>. QED BY <1>6, <1>7

(* The record on its way to a caller, in the leader's hands after the      *)
(* history is written or in the channel, is the one the history has.       *)
RightRecord(c, v) == v # Failure => v # None /\ InSeries(hist[kind[c]], v)
Bounded == \A k \in Kinds : Len(hist[k].records) <= Capacity
Leaders == \A c \in Callers : pc[c] = "publish" => RightRecord(c, outcome[c])
Waiters == \A c \in Callers : Waiting(c) /\ value[round[c]] # None => RightRecord(c, value[round[c]])
Answered == \A m \in Manual : pc[m] = "answered" => kind[m] \in Kinds /\ RightRecord(m, outcome[m])

AnswerInv == Bounded /\ Leaders /\ Waiters /\ Answered

(* Every step keeps it. *)
LEMMA AnswerStep ==
  TypeOK /\ RoundInv /\ RecordInv /\ AnswerInv /\ [Next]_vars => AnswerInv'
<1>. SUFFICES ASSUME TypeOK, RoundInv, RecordInv, AnswerInv, [Next]_vars PROVE AnswerInv'
  OBVIOUS
<1>. USE NoneIsNothing, KindsAssumption, CallersAssumption
     DEF AnswerInv, Bounded, Leaders, Waiters, Answered, RightRecord, TypeOK, Waiting, Callers
<1>1. CASE Online
  BY <1>1 DEF Online, slot, sched
<1>2. ASSUME NEW s \in Scheduled, SchedStep(s) PROVE AnswerInv'
  BY <1>2 DEF SchedStep, SchedRead, SchedChanged, SchedTimer, slot, sched
<1>3. ASSUME NEW m \in Manual, NEW k \in Kinds, Ask(m, k) PROVE AnswerInv'
  BY <1>3 DEF Ask, slot, sched
<1>4. ASSUME NEW c \in Callers, Step(c) PROVE AnswerInv'
  <2>1. CASE Join(c)
    <3>1. value[running[kind[c]]] = None
      BY <2>1 DEF Join, InFlight, Alive, RoundInv, LeaderInSlot, SlotsDisjoint, Leading
    <3>. QED BY <2>1, <3>1 DEF Join, slot, sched
  <2>2. CASE Skip(c)
    BY <2>2 DEF Skip, Returned, slot, sched
  <2>3. CASE Lead(c)
    <3>1. PICK r \in Rounds : /\ \A d \in Callers : round[d] # r
                              /\ value' = [value EXCEPT ![r] = None]
                              /\ round' = [round EXCEPT ![c] = r]
      BY <2>3 DEF Lead, NewRound, Unused
    <3>2. pc' = [pc EXCEPT ![c] = "work"] /\ UNCHANGED <<hist, kind, outcome>>
      BY <2>3 DEF Lead
    <3>3. Bounded' /\ Leaders' /\ Answered'
      BY <3>2
    <3>4. Waiters'
      <4>. SUFFICES ASSUME NEW d \in Callers, Waiting(d)', value'[round'[d]] # None
                    PROVE  RightRecord(d, value[round[d]])' /\ value'[round'[d]] = value[round[d]]
        OBVIOUS
      <4>1. d # c /\ Waiting(d) /\ round'[d] = round[d] /\ round[d] \in Rounds
        BY <3>1, <3>2
      <4>2. value'[round'[d]] = value[round[d]]
        BY <3>1, <4>1
      <4>. QED BY <3>2, <4>1, <4>2
    <3>. QED BY <3>3, <3>4
  <2>4. CASE Work(c)
    BY <2>4 DEF Work, WorkOk, WorkErr, slot, sched
  <2>5. CASE WriteHistory(c)
    <3>. DEFINE k == kind[c]
                old == hist[k]
                new == insert(old, outcome[c])
                st == Stamped(old, outcome[c])
    <3>1. k \in Kinds /\ outcome[c] \in Records(Nat) /\ old \in SeriesOf(Nat)
      BY <2>5 DEF WriteHistory, Leading
    <3>2. Len(old.records) <= Capacity /\ InOrder(old.records) /\ UpTo(old.records, outcome[c].at)
      BY <2>5, <3>1 DEF WriteHistory, RecordInv, HistoryOrdered
    <3>3. /\ hist' = [hist EXCEPT ![k] = new] /\ kind' = kind /\ round' = round /\ value' = value
          /\ pc' = [pc EXCEPT ![c] = "publish"] /\ outcome' = [outcome EXCEPT ![c] = st]
      BY <2>5 DEF WriteHistory
    <3>4. Len(new.records) <= Capacity /\ InSeries(new, st) /\ st \in Records(Nat)
      BY <3>1, <3>2, InsertShape, InsertedInSeries, InsertType, SamplerRecords
    <3>5. \A v \in Records(Nat) : InSeries(old, v) => InSeries(new, v)
      BY <3>1, <3>2, StaysInSeries
    <3>6. \A v \in Outcomes, j \in Kinds : v # Failure /\ InSeries(hist[j], v) => InSeries(hist'[j], v)
      BY <3>1, <3>3, <3>5 DEF Outcomes
    <3>. HIDE DEF new, st, old
    <3>7. Bounded'
      BY <3>1, <3>3, <3>4
    <3>8. Leaders'
      BY <3>1, <3>3, <3>4, <3>6 DEF Outcomes, Leading
    <3>9. Waiters'
      BY <3>1, <3>3, <3>6
    <3>10. Answered'
      BY <3>1, <3>3, <3>6
    <3>. QED BY <3>7, <3>8, <3>9, <3>10
  <2>6. CASE Publish(c)
    <3>1. \A d \in Callers : Waiting(d) /\ round[d] = round[c] => kind[d] = kind[c]
      BY <2>6 DEF Publish, RoundInv, WaiterOfKind, LeaderInSlot, Leading
    <3>2. /\ pc' = [pc EXCEPT ![c] = Returned(c)] /\ kind[c] \in Kinds /\ pc[c] = "publish"
          /\ kind' = kind /\ hist' = hist
          /\ round' = [round EXCEPT ![c] = None] /\ round[c] \in Rounds
          /\ value' = [value EXCEPT ![round[c]] = Released(c, outcome[c])]
          /\ outcome' = [outcome EXCEPT ![c] = Result(c, outcome[c])]
      BY <2>6 DEF Publish, Leading
    <3>3. Released(c, outcome[c]) \in {outcome[c], None}
      BY DEF Released
    <3>4. Bounded' /\ Leaders'
      BY <3>2 DEF Returned
    <3>5. Waiters'
      BY <3>1, <3>2, <3>3 DEF Returned
    <3>6. Answered'
      BY <3>2 DEF Returned, Result
    <3>. QED BY <3>4, <3>5, <3>6
  <2>7. CASE Receive(c)
    <3>1. /\ pc' = [pc EXCEPT ![c] = Returned(c)] /\ Waiting(c) /\ kind[c] \in Kinds
          /\ kind' = kind /\ hist' = hist /\ value[round[c]] # None
          /\ round' = [round EXCEPT ![c] = None] /\ round[c] \in Rounds
          /\ value' = [value EXCEPT ![round[c]] = Released(c, value[round[c]])]
          /\ outcome' = [outcome EXCEPT ![c] = Result(c, value[round[c]])]
      BY <2>7 DEF Receive
    <3>2. Released(c, value[round[c]]) \in {value[round[c]], None}
      BY DEF Released
    <3>3. Bounded' /\ Leaders'
      BY <3>1 DEF Returned
    <3>4. Waiters'
      BY <3>1, <3>2 DEF Returned
    <3>5. Answered'
      BY <3>1 DEF Returned, Result
    <3>. QED BY <3>3, <3>4, <3>5
  <2>8. CASE ReceiveClosed(c)
    BY <2>8 DEF ReceiveClosed, slot, sched
  <2>. QED
    BY <1>4, <2>1, <2>2, <2>3, <2>4, <2>5, <2>6, <2>7, <2>8 DEF Step, Enter
<1>5. ASSUME NEW c \in Callers, Cancel(c) PROVE AnswerInv'
  BY <1>5 DEF Cancel, slot, sched
<1>6. CASE Tick
  BY <1>6 DEF Tick, slot, sched
<1>7. CASE Terminated \/ UNCHANGED vars
  BY <1>7 DEF Terminated, vars
<1>. QED
  BY <1>1, <1>2, <1>3, <1>4, <1>5, <1>6, <1>7 DEF Next

(* sampling.rs: a request is answered with a record that the history has,  *)
(* stamped as the history has it, or had before newer ones pushed it out.  *)
THEOREM AnswerInHistoryHolds == Spec => []AnswerInHistory
<1>1. Init => RecordInv /\ AnswerInv
  BY KindsAssumption, HistorySizeAssumption
  DEF Init, RecordInv, HistoryOrdered, InOrder, UpTo, EmptySeries, Callers, AnswerInv, Bounded,
      Leaders, Waiters, Answered, Waiting, Capacity
<1>2. AnswerInv => AnswerInHistory
  BY DEF AnswerInv, Answered, RightRecord, InSeries, AnswerInHistory
<1>. QED
  BY <1>1, <1>2, AnswerStep, RecordStep, TypeInit, TypeStep, RoundInit, RoundStep,
     SingleFlightHolds, PTL DEF Spec

-----------------------------------------------------------------------------
(* What is known of a series and of its journal, between two records.  The  *)
(* last line tells the state, a success is remembered exactly when there   *)
(* was one, and an outage is on exactly while the newest record is a       *)
(* failure: in whatever order the records were observed.                   *)
JournalState(R, known) ==
  LET s == known.series
      newest == s.records[Len(s.records)]
  IN /\ s \in SeriesIn(R) /\ Len(s.records) <= Capacity
     /\ known.outage \in Nat \cup {None}
     /\ TellsState(known.said, s)
     /\ known.never <=> s.last = None
     /\ known.outage # None <=> s.records # << >> /\ ~newest.ok

(* When the records come in the order they were observed: the outage began *)
(* after the last success, and both lie in the past.                       *)
JournalTimes(known) ==
  LET s == known.series
      newest == s.records[Len(s.records)]
  IN /\ known.outage # None => known.outage <= newest.at
     /\ s.last # None => s.records # << >> /\ s.last <= newest.at
     /\ known.outage # None /\ s.last # None => s.last <= known.outage

JournalInv(R, known) == JournalState(R, known) /\ JournalTimes(known)

(* It holds before the first record. *)
LEMMA JournalStart ==
  ASSUME NEW R
  PROVE  JournalInv(R, [series |-> EmptySeries, said |-> None, outage |-> None,
                         bounds |-> None, never |-> TRUE])
BY HistorySizeAssumption DEF JournalInv, JournalState, JournalTimes, EmptySeries, SeriesIn, TellsState, Capacity

(* The newest record after insert. *)
LEMMA NewestInserted ==
  ASSUME NEW R, RecordSet(R), NEW s \in SeriesIn(R), NEW r \in R, Len(s.records) <= Capacity
  PROVE  LET rs == insert(s, r).records IN
         rs # << >> /\ rs[Len(rs)].ok = r.ok /\ rs[Len(rs)].at = r.at
<1>1. insert(s, r).records[Len(insert(s, r).records)] = Stamped(s, r)
      /\ Len(insert(s, r).records) > 0
  BY InsertShape
<1>2. Stamped(s, r).ok = r.ok /\ Stamped(s, r).at = r.at
  BY InsertIn
<1>. QED BY <1>1, <1>2

(* history.rs and log.rs, one record at a time and for any history_size:   *)
(* however a series got to where it is and whatever time a record carries, *)
(* the line written for it keeps the journal telling the state.            *)
LEMMA JournalStateKept ==
  ASSUME NEW R, RecordSet(R), NEW known, JournalState(R, known), NEW r \in R
  PROVE  JournalState(R, Logged(known, r))
<1>. DEFINE s == known.series
            rs == s.records
            old == rs[Len(rs)]
            t == Transition(s, r)
            line == Line(t, r.ok)
            new == Logged(known, r)
            ns == insert(s, r)
            newest == ns.records[Len(ns.records)]
<1>1. /\ s \in SeriesIn(R) /\ Len(rs) <= Capacity /\ known.outage \in Nat \cup {None}
      /\ TellsState(known.said, s) /\ (known.never <=> s.last = None)
      /\ (known.outage # None <=> rs # << >> /\ ~old.ok)
  BY DEF JournalState
<1>2. ns \in SeriesIn(R) /\ Len(ns.records) <= Capacity
  BY <1>1, InsertIn, InsertShape
<1>3. ns.records # << >> /\ newest.ok = r.ok /\ newest.at = r.at
  BY <1>1, NewestInserted
<1>4. r.at \in Nat /\ r.ok \in BOOLEAN /\ s.last \in Nat \cup {None}
  BY <1>1 DEF RecordSet, SeriesIn
<1>5. rs # << >> => old.ok \in BOOLEAN
  <2>. SUFFICES ASSUME rs # << >> PROVE old.ok \in BOOLEAN
    OBVIOUS
  <2>1. rs \in Seq(R)
    BY <1>1 DEF SeriesIn
  <2>2. old \in R
    BY <2>1
  <2>. QED BY <2>2 DEF RecordSet
<1>6. /\ new.series = ns /\ new.said = (IF line = None THEN known.said ELSE line)
      /\ new.outage = (IF r.ok THEN None ELSE IF known.outage = None THEN r.at ELSE known.outage)
      /\ new.never = (known.never /\ ~r.ok)
  BY DEF Logged
<1>7. ns.last = IF r.ok THEN r.at ELSE s.last
  BY DEF insert, LastSuccessWith
<1>8. TellsState(new.said, ns)
  <2>1. new.said # None /\ (new.said = "failed" <=> ~r.ok)
    <3>0. None # "ok" /\ None # "failed" /\ None # "recovered"
      BY NoLineAssumption DEF Lines
    <3>1. CASE rs = << >>
      <4>1. t = "First"
        BY <3>1 DEF Transition
      <4>2. line = IF r.ok THEN "ok" ELSE "failed"
        BY <1>4, <4>1 DEF Line
      <4>. HIDE DEF line
      <4>. QED BY <1>4, <1>6, <3>0, <4>2
    <3>2. CASE rs # << >> /\ old.ok /\ ~r.ok
      <4>1. t = "Failed"
        BY <3>2 DEF Transition
      <4>2. line = "failed"
        BY <3>2, <4>1 DEF Line
      <4>. HIDE DEF line
      <4>. QED BY <1>6, <3>0, <3>2, <4>2
    <3>3. CASE rs # << >> /\ ~old.ok /\ r.ok
      <4>1. t = "Recovered"
        BY <3>3 DEF Transition
      <4>2. line = "recovered"
        BY <3>3, <4>1 DEF Line
      <4>. HIDE DEF line
      <4>. QED BY <1>6, <3>0, <3>3, <4>2
    <3>4. CASE rs # << >> /\ (old.ok <=> r.ok)
      <4>1. t = "Unchanged"
        BY <1>4, <1>5, <3>4 DEF Transition
      <4>2. line = None
        BY <4>1 DEF Line
      <4>. HIDE DEF line
      <4>. QED BY <1>1, <1>6, <3>4, <4>2 DEF TellsState
    <3>. QED BY <1>4, <1>5, <3>1, <3>2, <3>3, <3>4
  <2>. HIDE DEF new, ns
  <2>. QED BY <1>3, <2>1 DEF TellsState
<1>9. new.outage \in Nat \cup {None} /\ (new.never <=> ns.last = None)
  <2>1. r.at # None
    BY <1>4, NoneAssumption
  <2>. HIDE DEF new, ns, s
  <2>2. new.outage \in Nat \cup {None}
    BY <1>1, <1>4, <1>6
  <2>3. CASE r.ok
    BY <1>6, <1>7, <2>1, <2>3
  <2>4. CASE ~r.ok
    <3>1. ns.last = s.last
      BY <1>7, <2>4
    <3>2. known.never <=> s.last = None
      BY <1>1
    <3>3. new.never <=> known.never
      BY <1>6, <2>4, Zenon
    <3>. QED BY <2>2, <3>1, <3>2, <3>3, Zenon
  <2>. QED BY <2>2, <2>3, <2>4
<1>10. new.outage # None <=> ~newest.ok
  BY <1>1, <1>3, <1>4, <1>6, NoneAssumption
<1>11. /\ new.series \in SeriesIn(R) /\ Len(new.series.records) <= Capacity
       /\ new.series.records # << >> /\ new.series = ns
  BY <1>2, <1>3, <1>6
<1>. HIDE DEF new, ns, newest
<1>12. newest = new.series.records[Len(new.series.records)]
  BY <1>11 DEF newest
<1>13. JournalState(R, new)
  BY <1>8, <1>9, <1>10, <1>11, <1>12 DEF JournalState
<1>. QED BY <1>13 DEF new

(* When the record is no older than the newest one kept, nothing that is   *)
(* known of the outage is lost although records are dropped.               *)
THEOREM JournalKept ==
  ASSUME NEW R, RecordSet(R), NEW known, JournalInv(R, known), NEW r \in R,
         known.series.records # << >> => known.series.records[Len(known.series.records)].at <= r.at
  PROVE  JournalInv(R, Logged(known, r))
<1>. DEFINE s == known.series
            rs == s.records
            old == rs[Len(rs)]
            new == Logged(known, r)
            ns == insert(s, r)
            newest == ns.records[Len(ns.records)]
<1>1. /\ s \in SeriesIn(R) /\ Len(rs) <= Capacity /\ known.outage \in Nat \cup {None}
      /\ (known.outage # None => rs # << >> /\ known.outage <= old.at)
      /\ (s.last # None => rs # << >> /\ s.last <= old.at)
      /\ (known.outage # None /\ s.last # None => s.last <= known.outage)
  BY DEF JournalInv, JournalState, JournalTimes
<1>2. ns.records # << >> /\ newest.at = r.at
  BY <1>1, NewestInserted
<1>3. r.at \in Nat /\ s.last \in Nat \cup {None}
  BY <1>1 DEF RecordSet, SeriesIn
<1>4. rs # << >> => old.at \in Nat /\ old.at <= r.at
  <2>1. rs \in Seq(R)
    BY <1>1 DEF SeriesIn
  <2>2. rs # << >> => old \in R
    BY <2>1
  <2>. QED BY <2>2 DEF RecordSet
<1>5. /\ new.series = ns
      /\ new.outage = (IF r.ok THEN None ELSE IF known.outage = None THEN r.at ELSE known.outage)
      /\ ns.last = IF r.ok THEN r.at ELSE s.last
  BY DEF Logged, insert, LastSuccessWith
<1>6. /\ new.outage # None => new.outage <= newest.at
      /\ ns.last # None => ns.last <= newest.at
      /\ new.outage # None /\ ns.last # None => ns.last <= new.outage
  <2>. HIDE DEF new, ns, s, rs, old, newest
  <2>. QED BY <1>1, <1>2, <1>3, <1>4, <1>5, NoneAssumption
<1>7. JournalState(R, new)
  BY JournalStateKept DEF JournalInv
<1>. HIDE DEF new, ns, newest
<1>8. newest = new.series.records[Len(new.series.records)] /\ new.series.records # << >>
  BY <1>2, <1>5 DEF newest
<1>9. JournalTimes(new)
  BY <1>5, <1>6, <1>8 DEF JournalTimes
<1>. QED BY <1>7, <1>9 DEF JournalInv, new

(* log.rs, line 17: the time since the last success, which the recovery's  *)
(* line gives, is never less than the outage was long, and it is missing   *)
(* only when the check never succeeded.                                    *)
THEOREM RecoveryBounded ==
  ASSUME NEW R, RecordSet(R), NEW known, JournalInv(R, known), NEW r \in R,
         known.series.records # << >> => known.series.records[Len(known.series.records)].at <= r.at
  PROVE  BoundsOutage(Logged(known, r).bounds)
<1>. DEFINE s == known.series
            rs == s.records
            t == Transition(s, r)
            told == SinceLastOk(s, r)
<1>1. /\ s \in SeriesIn(R) /\ known.outage \in Nat \cup {None} /\ (known.never <=> s.last = None)
      /\ (known.outage # None <=> rs # << >> /\ ~rs[Len(rs)].ok)
      /\ (known.outage # None /\ s.last # None => s.last <= known.outage)
  BY DEF JournalInv, JournalState, JournalTimes
<1>2. r.at \in Nat /\ s.last \in Nat \cup {None}
  BY <1>1 DEF RecordSet, SeriesIn
<1>3. CASE t # "Recovered"
  BY <1>3 DEF Logged, BoundsOutage
<1>4. CASE t = "Recovered"
  <2>1. known.outage \in Nat
    BY <1>1, <1>4 DEF Transition
  <2>2. told = IF s.last = None THEN None ELSE IF r.at > s.last THEN r.at - s.last ELSE 0
    BY DEF SinceLastOk
  <2>3. Logged(known, r).bounds = [told |-> told, real |-> r.at - known.outage, never |-> known.never]
    BY <1>4 DEF Logged
  <2>. HIDE DEF told
  <2>4. told # None => s.last # None /\ told >= r.at - known.outage
    BY <1>1, <1>2, <2>1, <2>2, NoneAssumption
  <2>5. told = None <=> known.never
    BY <1>1, <1>2, <2>2, NoneAssumption
  <2>. QED BY <2>3, <2>4, <2>5 DEF BoundsOutage
<1>. QED BY <1>3, <1>4
-----------------------------------------------------------------------------
(* History's records are records that insert can stamp, and its series are *)
(* series of them.                                                         *)
LEMMA HistoryEntries ==
  RecordSet(Entries) /\ SeriesIn(Entries) = [records : Seq(Entries), last : Nat \cup {None}]
BY DEF RecordSet, Entries, SeriesIn

(* The record of a check's result. *)
LEMMA RecordedType ==
  ASSUME NEW i \in CheckIds, NEW t \in Nat, NEW res \in Results(t)
  PROVE  /\ Recorded(Checks[i], res) \in Entries
         /\ Recorded(Checks[i], res).at = res.at /\ Recorded(Checks[i], res).ok = res.ok
         /\ res.at \in Nat /\ res.at <= t /\ res.ok \in BOOLEAN
<1>1. res.at \in Nat /\ res.at <= t /\ res.ok \in BOOLEAN
  BY DEF Results
<1>2. Measured(res.at, res.ok).last \in Nat \cup {None}
  BY <1>1 DEF Measured
<1>3. Checks[i].target \in Names /\ Checks[i].label \in Names
  BY DEF Names
<1>. QED BY <1>1, <1>2, <1>3 DEF Recorded, Entries

(* The journal's lines, and what a "check recovered" line gives: there is  *)
(* an outage to measure whenever one is written.                           *)
LEMMA LoggedTypes ==
  ASSUME NEW R, RecordSet(R), NEW known, JournalState(R, known), NEW r \in R,
         known.said \in Lines \cup {None}, known.never \in BOOLEAN
  PROVE  /\ Logged(known, r).said \in Lines \cup {None}
         /\ Logged(known, r).bounds \in
              [told : Nat \cup {None}, real : Int, never : BOOLEAN] \cup {None}
<1>. DEFINE s == known.series
            t == Transition(s, r)
            told == SinceLastOk(s, r)
<1>1. /\ s \in SeriesIn(R) /\ known.outage \in Nat \cup {None}
      /\ (known.outage # None <=> s.records # << >> /\ ~s.records[Len(s.records)].ok)
  BY DEF JournalState
<1>2. Line(t, r.ok) \in Lines \cup {None}
  <2>. HIDE DEF t
  <2>. QED BY DEF Line, Lines
<1>3. Logged(known, r).said \in Lines \cup {None}
  BY <1>2 DEF Logged
<1>4. CASE t # "Recovered"
  BY <1>3, <1>4 DEF Logged
<1>5. CASE t = "Recovered"
  <2>1. known.outage \in Nat
    BY <1>1, <1>5 DEF Transition
  <2>2. told \in Nat \cup {None} /\ r.at \in Nat
    BY <1>1, NoneAssumption DEF SinceLastOk, SeriesIn, RecordSet
  <2>3. Logged(known, r).bounds = [told |-> told, real |-> r.at - known.outage, never |-> known.never]
    BY <1>5 DEF Logged
  <2>. HIDE DEF told
  <2>. QED BY <1>3, <2>1, <2>2, <2>3
<1>. QED BY <1>4, <1>5

(* What is known of a series is in these four fields. *)
LEMMA SameKnown ==
  ASSUME NEW R, NEW a, NEW b, a.series = b.series, a.said = b.said,
         a.outage = b.outage, a.never <=> b.never
  PROVE  /\ JournalState(R, a) => JournalState(R, b)
         /\ JournalTimes(a) => JournalTimes(b)
BY DEF JournalState, JournalTimes

(* The newest record of a series is no newer than t. *)
NewestUpTo(k, t) ==
  series[k].records # << >> => series[k].records[Len(series[k].records)].at <= t

(* Between two turns of the loop: every series' journal tells its state;   *)
(* where one check records alone, the times are in order, and a result     *)
(* that is still to be inserted is no older than the newest record.  The   *)
(* last part is what makes OutageBounded inductive.                        *)
StateInv == \A k \in Keys : JournalState(Entries, Known(k))
TimesInv == \A k \in Keys : Unshared(k) => JournalTimes(Known(k))
PendingInv == \A i \in DOMAIN todo :
                Unshared(KeyOf(Checks[i])) => NewestUpTo(KeyOf(Checks[i]), todo[i].at)

HistoryInv == /\ HistoryTypeOK /\ StateInv /\ TimesInv /\ PendingInv
              /\ LastSuccessSurvives /\ OutageBounded

(* An empty history satisfies it. *)
LEMMA HistoryStart == HistoryInit => HistoryInv
<1>. SUFFICES ASSUME HistoryInit PROVE HistoryInv
  OBVIOUS
<1>1. \A k \in Keys : Known(k) = [series |-> EmptySeries, said |-> None, outage |-> None,
                                  bounds |-> None, never |-> TRUE]
  BY DEF HistoryInit, Known
<1>2. StateInv /\ TimesInv
  BY <1>1, JournalStart DEF StateInv, TimesInv, JournalInv
<1>3. PendingInv
  BY DEF HistoryInit, PendingInv
<1>4. HistoryTypeOK
  <2>1. << >> \in [{} -> Results(0)] /\ {} \in SUBSET CheckIds
    OBVIOUS
  <2>2. EmptySeries \in [records : Seq(Entries), last : Nat \cup {None}] /\ Len(EmptySeries.records) <= Capacity
    BY HistorySizeAssumption DEF EmptySeries, Capacity
  <2>3. clock \in 0..MaxRounds /\ clock = 0 /\ todo = << >>
    BY QueryAssumption DEF HistoryInit
  <2>4. \E D \in SUBSET CheckIds : todo \in [D -> Results(clock)]
    BY <2>1, <2>3, Zenon
  <2>5. best \in [Keys -> SUBSET [round : 0..clock, at : 0..clock]]
    BY DEF HistoryInit
  <2>. QED BY <2>2, <2>3, <2>4, <2>5 DEF HistoryInit, HistoryTypeOK
<1>5. LastSuccessSurvives /\ OutageBounded
  BY DEF HistoryInit, LastSuccessSurvives, OutageBounded, BoundsOutage, EmptySeries
<1>. QED BY <1>2, <1>3, <1>4, <1>5 DEF HistoryInv

(* A round that takes the lock brings only results that are no older than  *)
(* what its kind's series hold.                                            *)
LEMMA BeginKeeps ==
  ASSUME NEW k \in ProbeKinds, NEW res \in [ChecksOf(k) -> Results(clock + 1)],
         HistoryInv, Begin(k, res)
  PROVE  HistoryInv'
<1>1. /\ clock \in Nat /\ clock < MaxRounds /\ clock' = clock + 1 /\ todo' = res
      /\ series' = series /\ said' = said /\ outage' = outage /\ bounds' = bounds /\ best' = best
  BY DEF Begin, HistoryInv, HistoryTypeOK
<1>2. \A x \in Keys : Known(x)' = Known(x)
  BY <1>1 DEF Known
<1>3. (StateInv /\ TimesInv)'
  BY <1>2 DEF HistoryInv, StateInv, TimesInv
<1>4. (LastSuccessSurvives /\ OutageBounded)'
  BY <1>1 DEF HistoryInv, LastSuccessSurvives, OutageBounded
<1>5. HistoryTypeOK'
  <2>1. /\ ChecksOf(k) \in SUBSET CheckIds
        /\ todo' \in [ChecksOf(k) -> Results(clock')]
    BY <1>1 DEF ChecksOf
  <2>2. best' \in [Keys -> SUBSET [round : 0..clock', at : 0..clock']]
    <3>1. 0..clock \subseteq 0..clock'
      BY <1>1
    <3>2. SUBSET [round : 0..clock, at : 0..clock] \subseteq SUBSET [round : 0..clock', at : 0..clock']
      BY <3>1
    <3>3. best \in [Keys -> SUBSET [round : 0..clock, at : 0..clock]]
      BY DEF HistoryInv, HistoryTypeOK
    <3>. QED BY <1>1, <3>2, <3>3
  <2>3. clock' \in 0..MaxRounds
    BY <1>1, QueryAssumption
  <2>. QED BY <1>1, <2>1, <2>2, <2>3 DEF HistoryInv, HistoryTypeOK
<1>6. PendingInv'
  <2>. SUFFICES ASSUME NEW i \in ChecksOf(k)
                PROVE  NewestUpTo(KeyOf(Checks[i]), res[i].at)
    BY <1>1 DEF PendingInv, NewestUpTo
  <2>. DEFINE key == KeyOf(Checks[i])
              rs == series[key].records
  <2>1. key \in Keys /\ key[1] = k
    BY DEF ChecksOf, KeyOf, Keys
  <2>2. \A n \in 1..Len(rs) : rs[n].at <= res[i].at
    BY <2>1 DEF Begin, NoOlder
  <2>3. rs \in Seq(Entries)
    BY <2>1 DEF HistoryInv, HistoryTypeOK
  <2>4. rs # << >> => Len(rs) \in 1..Len(rs)
    BY <2>3
  <2>. QED BY <2>2, <2>4 DEF NewestUpTo
<1>. QED BY <1>3, <1>4, <1>5, <1>6 DEF HistoryInv

(* One turn of the loop: the record goes into its check's series, and the  *)
(* others are left alone.                                                  *)
LEMMA InsertKeeps ==
  ASSUME NEW i \in CheckIds, HistoryInv, Insert(i)
  PROVE  HistoryInv'
<1>. DEFINE key == KeyOf(Checks[i])
<1>1. PICK r : r = Recorded(Checks[i], todo[i])
  OBVIOUS
<1>2. PICK after : after = Logged(Known(key), r)
  OBVIOUS
<1>3. PICK old : old = Known(key)
  OBVIOUS
<1>4. PICK D \in SUBSET CheckIds : todo \in [D -> Results(clock)]
  BY DEF HistoryInv, HistoryTypeOK
<1>5. /\ clock \in Nat /\ key \in Keys /\ i \in D /\ todo[i] \in Results(clock)
      /\ r \in Entries /\ r.at = todo[i].at /\ r.ok = todo[i].ok
      /\ r.at \in Nat /\ r.at <= clock /\ r.ok \in BOOLEAN
  <2>1. clock \in Nat /\ key \in Keys
    BY DEF HistoryInv, HistoryTypeOK, Keys
  <2>2. i \in D /\ todo[i] \in Results(clock)
    BY <1>4 DEF Insert
  <2>. QED BY <1>1, <2>1, <2>2, RecordedType
<1>6. /\ todo' = [j \in D \ {i} |-> todo[j]] /\ clock' = clock
      /\ series' = [series EXCEPT ![key] = after.series]
      /\ said' = [said EXCEPT ![key] = after.said]
      /\ outage' = [outage EXCEPT ![key] = after.outage]
      /\ bounds' = [bounds EXCEPT ![key] = after.bounds]
      /\ best' = [best EXCEPT ![key] =
                    IF r.ok THEN {b \in best[key] : b.round = clock} \cup {[round |-> clock, at |-> r.at]}
                    ELSE best[key]]
  BY <1>1, <1>2, <1>4 DEF Insert
<1>7. /\ series \in [Keys -> SeriesIn(Entries)]
      /\ said \in [Keys -> Lines \cup {None}]
      /\ outage \in [Keys -> Nat \cup {None}]
      /\ bounds \in [Keys -> [told : Nat \cup {None}, real : Int, never : BOOLEAN] \cup {None}]
      /\ best \in [Keys -> SUBSET [round : 0..clock, at : 0..clock]]
  BY HistoryEntries DEF HistoryInv, HistoryTypeOK
<1>8. /\ old.series = series[key] /\ old.said = said[key] /\ old.outage = outage[key]
      /\ old.never \in BOOLEAN /\ (old.never <=> best[key] = {}) /\ JournalState(Entries, old)
  BY <1>3, <1>5 DEF Known, HistoryInv, StateInv
<1>9. /\ JournalState(Entries, after) /\ after.series = insert(old.series, r)
      /\ (after.never <=> best[key] = {} /\ ~r.ok)
      /\ after.said \in Lines \cup {None}
      /\ after.bounds \in [told : Nat \cup {None}, real : Int, never : BOOLEAN] \cup {None}
  <2>1. after = Logged(old, r)
    BY <1>2, <1>3
  <2>2. JournalState(Entries, after)
    BY <1>5, <1>8, <2>1, HistoryEntries, JournalStateKept
  <2>3. old.said \in Lines \cup {None}
    BY <1>5, <1>7, <1>8
  <2>4. /\ after.said \in Lines \cup {None}
        /\ after.bounds \in [told : Nat \cup {None}, real : Int, never : BOOLEAN] \cup {None}
    BY <1>5, <1>8, <2>1, <2>3, HistoryEntries, LoggedTypes
  <2>5. after.series = insert(old.series, r) /\ after.never = (old.never /\ ~r.ok)
    BY <2>1 DEF Logged
  <2>. QED BY <1>8, <2>2, <2>4, <2>5
<1>10. PICK new : new = Known(key)'
  OBVIOUS
<1>11. /\ new.series = after.series /\ new.said = after.said
       /\ new.outage = after.outage /\ (new.never <=> after.never)
  <2>1. /\ new.series = series'[key] /\ new.said = said'[key] /\ new.outage = outage'[key]
        /\ (new.never <=> best'[key] = {})
    BY <1>10 DEF Known
  <2>2. series'[key] = after.series /\ said'[key] = after.said /\ outage'[key] = after.outage
    BY <1>5, <1>6, <1>7
  <2>3. best'[key] = {} <=> best[key] = {} /\ ~r.ok
    BY <1>5, <1>6, <1>7
  <2>. QED BY <1>9, <2>1, <2>2, <2>3
<1>12. \A k \in Keys : k # key => /\ Known(k)' = Known(k) /\ series'[k] = series[k]
                                 /\ bounds'[k] = bounds[k] /\ best'[k] = best[k]
  BY <1>6, <1>7 DEF Known
<1>. HIDE DEF key
<1>13. StateInv'
  <2>1. JournalState(Entries, new)
    BY <1>9, <1>11, SameKnown
  <2>2. \A k \in Keys : k # key => JournalState(Entries, Known(k)')
    BY <1>12 DEF HistoryInv, StateInv
  <2>. QED BY <1>10, <2>1, <2>2 DEF StateInv
<1>14. ASSUME Unshared(key)
       PROVE  JournalTimes(new) /\ BoundsOutage(after.bounds)
  <2>1. old.series.records # << >> => old.series.records[Len(old.series.records)].at <= r.at
    BY <1>4, <1>5, <1>8, <1>14 DEF HistoryInv, PendingInv, NewestUpTo, key
  <2>2. JournalInv(Entries, old)
    BY <1>3, <1>5, <1>8, <1>14 DEF HistoryInv, TimesInv, JournalInv
  <2>3. after = Logged(old, r)
    BY <1>2, <1>3 DEF key
  <2>4. JournalTimes(after)
    BY <1>5, <2>1, <2>2, <2>3, HistoryEntries, JournalKept DEF JournalInv
  <2>5. BoundsOutage(after.bounds)
    BY <1>5, <2>1, <2>2, <2>3, HistoryEntries, RecoveryBounded
  <2>. QED BY <1>11, <2>4, <2>5, SameKnown
<1>15. TimesInv'
  <2>1. \A k \in Keys : k # key /\ Unshared(k) => JournalTimes(Known(k)')
    BY <1>12 DEF HistoryInv, TimesInv
  <2>. QED BY <1>10, <1>14, <2>1 DEF TimesInv, Unshared
<1>16. OutageBounded'
  <2>1. bounds'[key] = after.bounds
    BY <1>5, <1>6, <1>7
  <2>. QED BY <1>12, <1>14, <2>1 DEF HistoryInv, OutageBounded
<1>17. PendingInv'
  <2>. SUFFICES ASSUME NEW j \in D \ {i}, Unshared(KeyOf(Checks[j]))
                PROVE  NewestUpTo(KeyOf(Checks[j]), todo[j].at)'
    BY <1>6 DEF PendingInv, Unshared
  <2>1. j \in CheckIds /\ j # i /\ KeyOf(Checks[j]) \in Keys /\ todo'[j] = todo[j]
    BY <1>4, <1>6 DEF Keys
  <2>2. KeyOf(Checks[j]) # key
    BY <2>1 DEF Unshared, key
  <2>3. NewestUpTo(KeyOf(Checks[j]), todo[j].at)
    BY <1>4 DEF HistoryInv, PendingInv
  <2>. QED BY <1>12, <2>1, <2>2, <2>3 DEF NewestUpTo
<1>18. LastSuccessSurvives'
  <2>1. series'[key].last = IF r.ok THEN r.at ELSE series[key].last
    BY <1>5, <1>6, <1>7, <1>8, <1>9 DEF insert, LastSuccessWith
  <2>2. CASE r.ok
    <3>1. [round |-> clock, at |-> r.at] \in best'[key] /\ series'[key].last = r.at
      BY <1>5, <1>6, <1>7, <2>1, <2>2
    <3>2. best'[key] # {} /\ \E b \in best'[key] : series'[key].last = b.at
      BY <3>1
    <3>. QED BY <1>12, <3>2 DEF HistoryInv, LastSuccessSurvives
  <2>3. CASE ~r.ok
    BY <1>5, <1>6, <1>7, <1>12, <2>1, <2>3 DEF HistoryInv, LastSuccessSurvives
  <2>. QED BY <2>2, <2>3
<1>19. HistoryTypeOK'
  <2>1. \E E \in SUBSET CheckIds : todo' \in [E -> Results(clock')]
    <3>1. D \ {i} \in SUBSET CheckIds
      OBVIOUS
    <3>2. todo' \in [D \ {i} -> Results(clock')]
      BY <1>4, <1>6
    <3>. QED BY <3>1, <3>2, Zenon
  <2>2. /\ after.series \in SeriesIn(Entries) /\ Len(after.series.records) <= Capacity
        /\ after.outage \in Nat \cup {None}
    BY <1>9 DEF JournalState
  <2>3. /\ series' \in [Keys -> SeriesIn(Entries)]
        /\ \A k \in Keys : Len(series'[k].records) <= Capacity
    BY <1>5, <1>6, <1>7, <2>2 DEF HistoryInv, HistoryTypeOK
  <2>4. /\ said' \in [Keys -> Lines \cup {None}]
        /\ outage' \in [Keys -> Nat \cup {None}]
        /\ bounds' \in [Keys -> [told : Nat \cup {None}, real : Int, never : BOOLEAN] \cup {None}]
    BY <1>5, <1>6, <1>7, <1>9, <2>2
  <2>5. best' \in [Keys -> SUBSET [round : 0..clock', at : 0..clock']]
    <3>1. [round |-> clock, at |-> r.at] \in [round : 0..clock, at : 0..clock]
      BY <1>5
    <3>. QED BY <1>5, <1>6, <1>7, <3>1
  <2>6. clock' \in 0..MaxRounds
    BY <1>6 DEF HistoryInv, HistoryTypeOK
  <2>. QED BY <2>1, <2>3, <2>4, <2>5, <2>6, HistoryEntries DEF HistoryTypeOK
<1>. QED BY <1>13, <1>15, <1>16, <1>17, <1>18, <1>19 DEF HistoryInv

(* Every step keeps the history's invariant. *)
LEMMA HistoryStep == HistoryInv /\ [HistoryNext]_historyVars => HistoryInv'
<1>. SUFFICES ASSUME HistoryInv, [HistoryNext]_historyVars PROVE HistoryInv'
  OBVIOUS
<1>1. CASE HistoryDone \/ UNCHANGED historyVars
  BY <1>1
  DEF HistoryDone, historyVars, HistoryInv, HistoryTypeOK, StateInv, TimesInv, PendingInv,
      LastSuccessSurvives, OutageBounded, Known, NewestUpTo
<1>. QED BY <1>1, BeginKeeps, InsertKeeps DEF HistoryNext

(* history.rs: every variable of History keeps its type, and no series     *)
(* outgrows history_size, for any checks.                                  *)
THEOREM HistoryTypeCorrect == HistorySpec => []HistoryTypeOK
<1>1. HistoryInv => HistoryTypeOK
  BY DEF HistoryInv
<1>. QED BY <1>1, HistoryStart, HistoryStep, PTL DEF HistorySpec

(* history.rs, insert: the last success of a series outlives its record,   *)
(* also where two checks share the series: it is one of the latest round   *)
(* that had any.                                                           *)
THEOREM LastSuccessSurvivesHolds == HistorySpec => []LastSuccessSurvives
<1>1. HistoryInv => LastSuccessSurvives
  BY DEF HistoryInv
<1>. QED BY <1>1, HistoryStart, HistoryStep, PTL DEF HistorySpec

(* log.rs: the last line about a series says "failed" exactly while its    *)
(* newest record is a failure, for any checks, shared series included.     *)
THEOREM JournalTellsStateHolds == HistorySpec => []JournalTellsState
<1>1. HistoryInv => JournalTellsState
  BY DEF HistoryInv, StateInv, JournalState, Known, JournalTellsState
<1>. QED BY <1>1, HistoryStart, HistoryStep, PTL DEF HistorySpec

(* log.rs, line 17: the time a "check recovered" line gives bounds the     *)
(* outage, wherever one check records alone, however rounds of different   *)
(* kinds interleave and whatever was dropped from the series since.        *)
THEOREM OutageBoundedHolds == HistorySpec => []OutageBounded
<1>1. HistoryInv => OutageBounded
  BY DEF HistoryInv
<1>. QED BY <1>1, HistoryStart, HistoryStep, PTL DEF HistorySpec

-----------------------------------------------------------------------------
(* query.  The places of the history are finitely many, and Before, the    *)
(* order of the stable sort, is a strict total order of them.              *)
LEMMA PlacesFinite == IsFiniteSet(Places)
<1>. DEFINE f == [i \in CheckIds |-> KeyOf(Checks[i])]
<1>1. IsFiniteSet(CheckIds)
  BY ChecksAssumption, FS_Interval DEF CheckIds
<1>2. f \in Surjection(CheckIds, Keys)
  BY DEF Keys, Surjection
<1>3. IsFiniteSet(Keys)
  BY <1>1, <1>2, FS_Surjection
<1>4. Capacity \in Nat /\ 1 \in Int /\ Capacity \in Int
  BY HistorySizeAssumption DEF Capacity
<1>5. IsFiniteSet(1..Capacity)
  BY <1>4, FS_Interval
<1>6. IsFiniteSet(Keys \X (1..Capacity))
  BY <1>3, <1>5, FS_Product
<1>7. Places \in SUBSET (Keys \X (1..Capacity))
  BY DEF Places
<1>. QED BY <1>6, <1>7, FS_Subset

(* A place is a series and an index of one of its records. *)
LEMMA PlaceType ==
  ASSUME HistoryTypeOK, NEW p \in Places
  PROVE  /\ p[1] \in Keys /\ p[2] \in Nat /\ p = <<p[1], p[2]>>
         /\ p[2] \in 1..Len(series[p[1]].records)
         /\ RecordAt(p) \in Entries /\ RecordAt(p).at \in Nat
         /\ KeyRank(p[1]) \in Nat /\ KeyOf(Checks[KeyRank(p[1])]) = p[1]
<1>1. p \in Keys \X (1..Capacity) /\ p[2] <= Len(series[p[1]].records)
  BY DEF Places
<1>2. p[1] \in Keys /\ p[2] \in 1..Capacity /\ p = <<p[1], p[2]>>
  BY <1>1
<1>3. Capacity \in Nat
  BY HistorySizeAssumption DEF Capacity
<1>4. series[p[1]].records \in Seq(Entries)
  BY <1>2 DEF HistoryTypeOK
<1>5. p[2] \in Nat /\ p[2] \in 1..Len(series[p[1]].records)
  BY <1>1, <1>2, <1>3, <1>4
<1>6. RecordAt(p) \in Entries
  BY <1>4, <1>5 DEF RecordAt
<1>7. RecordAt(p).at \in Nat
  BY <1>6 DEF Entries
<1>8. \E i \in CheckIds : KeyOf(Checks[i]) = p[1]
  BY <1>2 DEF Keys
<1>9. KeyRank(p[1]) \in CheckIds /\ KeyOf(Checks[KeyRank(p[1])]) = p[1]
  BY <1>8 DEF KeyRank
<1>10. KeyRank(p[1]) \in Nat
  BY <1>9, ChecksAssumption DEF CheckIds
<1>. QED BY <1>2, <1>5, <1>6, <1>7, <1>9, <1>10

LEMMA BeforeTotal ==
  ASSUME HistoryTypeOK, NEW p \in Places, NEW q \in Places
  PROVE  /\ ~Before(p, p)
         /\ p # q => Before(p, q) \/ Before(q, p)
         /\ Before(p, q) => RecordAt(p).at <= RecordAt(q).at
<1>1. /\ RecordAt(p).at \in Nat /\ KeyRank(p[1]) \in Nat /\ p[2] \in Nat /\ p = <<p[1], p[2]>>
      /\ RecordAt(q).at \in Nat /\ KeyRank(q[1]) \in Nat /\ q[2] \in Nat /\ q = <<q[1], q[2]>>
      /\ KeyRank(p[1]) = KeyRank(q[1]) => p[1] = q[1]
  BY PlaceType
<1>2. p # q => p[1] # q[1] \/ p[2] # q[2]
  BY <1>1
<1>. QED BY <1>1, <1>2 DEF Before, Walked

LEMMA BeforeTransitive ==
  ASSUME HistoryTypeOK, NEW p \in Places, NEW q \in Places, NEW z \in Places,
         Before(p, q), Before(q, z)
  PROVE  Before(p, z)
<1>1. /\ RecordAt(p).at \in Nat /\ KeyRank(p[1]) \in Nat /\ p[2] \in Nat
      /\ RecordAt(q).at \in Nat /\ KeyRank(q[1]) \in Nat /\ q[2] \in Nat
      /\ RecordAt(z).at \in Nat /\ KeyRank(z[1]) \in Nat /\ z[2] \in Nat
  BY PlaceType
<1>. QED BY <1>1 DEF Before, Walked

(* In a set of places, the earlier of two has the lower rank. *)
LEMMA RankGrows ==
  ASSUME HistoryTypeOK, NEW S \in SUBSET Places, NEW p \in S, NEW q \in S, Before(p, q)
  PROVE  Rank(S, p) \in Nat /\ Rank(S, q) \in Nat /\ Rank(S, p) < Rank(S, q)
<1>. DEFINE A == {x \in S : Before(x, p)}
            B == {x \in S : Before(x, q)}
<1>1. IsFiniteSet(S)
  BY PlacesFinite, FS_Subset
<1>2. A \in SUBSET S /\ B \in SUBSET S
  OBVIOUS
<1>3. IsFiniteSet(A) /\ IsFiniteSet(B)
  BY <1>1, <1>2, FS_Subset
<1>4. A \in SUBSET B
  BY BeforeTransitive
<1>5. p \in B /\ p \notin A
  BY BeforeTotal
<1>. HIDE DEF A, B
<1>6. Cardinality(A) \in Nat /\ Cardinality(B) \in Nat
  BY <1>3, FS_CardinalityType
<1>7. Cardinality(A) <= Cardinality(B) /\ (Cardinality(B) = Cardinality(A) => B = A)
  BY <1>3, <1>4, FS_Subset
<1>8. Cardinality(A) < Cardinality(B)
  BY <1>5, <1>6, <1>7
<1>. QED BY <1>6, <1>8 DEF Rank, A, B

(* The ranks of a set of n places are 0 .. n - 1, each of one place: an    *)
(* injection between sets of one size.                                     *)
LEMMA RankReached ==
  ASSUME HistoryTypeOK, NEW S \in SUBSET Places
  PROVE  /\ Cardinality(S) \in Nat
         /\ \A p \in S : Rank(S, p) \in 0..(Cardinality(S) - 1)
         /\ \A n \in 0..(Cardinality(S) - 1) : \E p \in S : Rank(S, p) = n
<1>. DEFINE T == 0..(Cardinality(S) - 1)
            f == [p \in S |-> Rank(S, p)]
<1>1. IsFiniteSet(S) /\ Cardinality(S) \in Nat
  BY PlacesFinite, FS_Subset, FS_CardinalityType
<1>2. ASSUME NEW p \in S PROVE Rank(S, p) \in T
  <2>. DEFINE A == {x \in S : Before(x, p)}
  <2>1. A \in SUBSET S /\ A # S
    BY BeforeTotal
  <2>. HIDE DEF A
  <2>2. IsFiniteSet(A) /\ Cardinality(A) <= Cardinality(S) /\ Cardinality(S) # Cardinality(A)
    BY <1>1, <2>1, FS_Subset
  <2>3. Cardinality(A) \in Nat
    BY <2>2, FS_CardinalityType
  <2>4. Cardinality(A) \in T
    BY <1>1, <2>2, <2>3
  <2>. QED BY <2>4 DEF Rank, A
<1>3. ASSUME NEW p \in S, NEW q \in S, Rank(S, p) = Rank(S, q) PROVE p = q
  <2>. SUFFICES ASSUME p # q PROVE FALSE
    OBVIOUS
  <2>1. Before(p, q) \/ Before(q, p)
    BY BeforeTotal
  <2>2. /\ Before(p, q) => Rank(S, p) \in Nat /\ Rank(S, q) \in Nat /\ Rank(S, p) < Rank(S, q)
        /\ Before(q, p) => Rank(S, p) \in Nat /\ Rank(S, q) \in Nat /\ Rank(S, q) < Rank(S, p)
    BY RankGrows
  <2>. QED BY <1>3, <2>1, <2>2
<1>4. f \in Injection(S, T)
  BY <1>2, <1>3 DEF Injection, IsInjective
<1>5. IsFiniteSet(T) /\ Cardinality(T) = Cardinality(S)
  <2>1. Cardinality(S) - 1 \in Int /\ 0 \in Int
    BY <1>1
  <2>2. /\ IsFiniteSet(T)
        /\ Cardinality(T) = IF 0 > Cardinality(S) - 1 THEN 0 ELSE (Cardinality(S) - 1) - 0 + 1
    BY <2>1, FS_Interval
  <2>. QED BY <1>1, <2>2
<1>6. f \in Surjection(S, T)
  BY <1>4, <1>5, FS_Injection
<1>7. \A n \in T : \E p \in S : f[p] = n
  BY <1>6 DEF Surjection
<1>. QED BY <1>1, <1>2, <1>7

(* Sorted: every place of the set once, in the order of their times.       *)
LEMMA SortedPlaces ==
  ASSUME HistoryTypeOK, NEW S \in SUBSET Places
  PROVE  LET ps == Sorted(S)
             c == Cardinality(S)
         IN /\ c \in Nat /\ Len(ps) = c
            /\ \A n \in 1..c : ps[n] \in S
            /\ \A p \in S : \E n \in 1..c : ps[n] = p
            /\ \A m, n \in 1..c : m <= n => RecordAt(ps[m]).at <= RecordAt(ps[n]).at
<1>. DEFINE ps == Sorted(S)
            c == Cardinality(S)
<1>1. /\ c \in Nat
      /\ \A p \in S : Rank(S, p) \in 0..(c - 1)
      /\ \A n \in 0..(c - 1) : \E p \in S : Rank(S, p) = n
  BY RankReached
<1>2. ps = [n \in 1..c |-> CHOOSE p \in S : Rank(S, p) = n - 1]
  BY DEF Sorted
<1>. HIDE DEF ps, c
<1>3. Len(ps) = c
  BY <1>1, <1>2
<1>4. \A n \in 1..c : ps[n] \in S /\ Rank(S, ps[n]) = n - 1
  <2>. TAKE n \in 1..c
  <2>1. n - 1 \in 0..(c - 1)
    BY <1>1
  <2>2. \E p \in S : Rank(S, p) = n - 1
    BY <1>1, <2>1
  <2>3. ps[n] = CHOOSE p \in S : Rank(S, p) = n - 1
    BY <1>2
  <2>. QED BY <2>2, <2>3
<1>5. ASSUME NEW p \in S, NEW q \in S, Rank(S, p) <= Rank(S, q)
      PROVE  p = q \/ Before(p, q)
  <2>. SUFFICES ASSUME p # q, ~Before(p, q) PROVE FALSE
    OBVIOUS
  <2>1. Before(q, p)
    BY BeforeTotal
  <2>2. Rank(S, p) \in Nat /\ Rank(S, q) \in Nat /\ Rank(S, q) < Rank(S, p)
    BY <2>1, RankGrows
  <2>. QED BY <1>5, <2>2
<1>6. ASSUME NEW p \in S PROVE \E n \in 1..c : ps[n] = p
  <2>1. Rank(S, p) \in 0..(c - 1)
    BY <1>1
  <2>2. PICK n \in 1..c : n - 1 = Rank(S, p)
    <3>1. Rank(S, p) + 1 \in 1..c /\ (Rank(S, p) + 1) - 1 = Rank(S, p)
      BY <1>1, <2>1
    <3>. QED BY <3>1
  <2>3. ps[n] \in S /\ Rank(S, ps[n]) = Rank(S, p)
    BY <1>4, <2>2
  <2>4. ~Before(ps[n], p) /\ ~Before(p, ps[n])
    BY <2>3, RankGrows
  <2>. QED BY <2>3, <2>4, BeforeTotal
<1>7. ASSUME NEW m \in 1..c, NEW n \in 1..c, m <= n
      PROVE  RecordAt(ps[m]).at <= RecordAt(ps[n]).at
  <2>1. /\ ps[m] \in S /\ Rank(S, ps[m]) = m - 1
        /\ ps[n] \in S /\ Rank(S, ps[n]) = n - 1
    BY <1>4
  <2>2. Rank(S, ps[m]) <= Rank(S, ps[n])
    BY <1>1, <1>7, <2>1
  <2>3. ps[m] = ps[n] \/ Before(ps[m], ps[n])
    BY <1>5, <2>1, <2>2
  <2>4. RecordAt(ps[m]).at \in Nat
    BY <2>1, PlaceType
  <2>. QED BY <2>1, <2>3, <2>4, BeforeTotal
<1>. QED BY <1>1, <1>3, <1>4, <1>6, <1>7 DEF ps, c

(* The places that match hold the records that are wanted. *)
LEMMA MatchingWanted ==
  ASSUME HistoryTypeOK, NEW ofKind, NEW name
  PROVE  /\ \A p \in Matching(ofKind, name) : RecordAt(p) \in Wanted(ofKind, name)
         /\ \A r \in Wanted(ofKind, name) : \E p \in Matching(ofKind, name) : RecordAt(p) = r
<1>1. ASSUME NEW p \in Matching(ofKind, name) PROVE RecordAt(p) \in Wanted(ofKind, name)
  <2>1. /\ p \in Places /\ (ofKind = None \/ p[1][1] = ofKind) /\ About(RecordAt(p), name)
    BY DEF Matching
  <2>2. p[1] \in Keys /\ p[2] \in 1..Len(series[p[1]].records) /\ Kindred(p[1], ofKind)
    BY <2>1, PlaceType DEF Kindred
  <2>. QED BY <2>1, <2>2 DEF Wanted, RecordAt
<1>2. ASSUME NEW r \in Wanted(ofKind, name)
      PROVE  \E p \in Matching(ofKind, name) : RecordAt(p) = r
  <2>0. PICK k \in Keys : /\ Kindred(k, ofKind) /\ About(r, name)
                          /\ r \in {series[k].records[n] : n \in 1..Len(series[k].records)}
    BY DEF Wanted
  <2>1. PICK n \in 1..Len(series[k].records) : r = series[k].records[n]
    BY <2>0
  <2>2. Len(series[k].records) <= Capacity /\ Len(series[k].records) \in Nat /\ Capacity \in Nat
    BY HistorySizeAssumption DEF HistoryTypeOK, Capacity
  <2>3. <<k, n>> \in Keys \X (1..Capacity) /\ n <= Len(series[k].records)
    BY <2>2
  <2>4. <<k, n>> \in Places /\ RecordAt(<<k, n>>) = r
    BY <2>1, <2>3 DEF Places, RecordAt
  <2>5. <<k, n>> \in Matching(ofKind, name)
    BY <2>0, <2>1, <2>4 DEF Matching, Kindred
  <2>. QED BY <2>4, <2>5
<1>. QED BY <1>1, <1>2

(* query returns the most recent of the wanted records, oldest first, in   *)
(* any well-typed state.                                                   *)
LEMMA QueryCorrect ==
  ASSUME HistoryTypeOK, NEW ofKind, NEW name, NEW limit \in Nat
  PROVE  LET got == query(ofKind, name, limit)
             left == Wanted(ofKind, name) \ Replied(got)
         IN /\ Replied(got) \subseteq Wanted(ofKind, name)
            /\ InOrder(got)
            /\ Len(got) <= limit /\ Len(got) <= MaxQuery
            /\ left # {} => Len(got) \in {limit, MaxQuery}
            /\ \A r \in left, n \in 1..Len(got) : r.at <= got[n].at
<1>. DEFINE S == Matching(ofKind, name)
            ps == Sorted(S)
            c == Cardinality(S)
            keep == IF limit < MaxQuery THEN limit ELSE MaxQuery
            from == IF Len(ps) > keep THEN Len(ps) - keep ELSE 0
            got == query(ofKind, name, limit)
            left == Wanted(ofKind, name) \ Replied(got)
<1>1. S \in SUBSET Places
  BY DEF Matching
<1>2. /\ c \in Nat /\ Len(ps) = c
      /\ \A n \in 1..c : ps[n] \in S
      /\ \A p \in S : \E n \in 1..c : ps[n] = p
      /\ \A m, n \in 1..c : m <= n => RecordAt(ps[m]).at <= RecordAt(ps[n]).at
  BY <1>1, SortedPlaces
<1>3. /\ \A p \in S : RecordAt(p) \in Wanted(ofKind, name)
      /\ \A r \in Wanted(ofKind, name) : \E p \in S : RecordAt(p) = r
  BY MatchingWanted
<1>4. got = [n \in 1..(Len(ps) - from) |-> RecordAt(ps[from + n])]
  BY DEF query
<1>5. /\ keep \in Nat /\ keep <= limit /\ keep <= MaxQuery /\ keep \in {limit, MaxQuery}
      /\ from \in Nat /\ c - from \in Nat /\ c - from <= keep
      /\ (from # 0 => c - from = keep)
  <2>. HIDE DEF ps, c
  <2>. QED BY <1>2, QueryAssumption
<1>. HIDE DEF S, ps, c, keep, from, got
<1>6. Len(got) = c - from /\ \A n \in 1..(c - from) : got[n] = RecordAt(ps[from + n])
  BY <1>2, <1>4, <1>5
<1>7. \A n \in 1..(c - from) : from + n \in 1..c
  BY <1>2, <1>5
<1>8. Replied(got) \subseteq Wanted(ofKind, name)
  BY <1>2, <1>3, <1>6, <1>7 DEF Replied
<1>9. InOrder(got)
  <2>. SUFFICES ASSUME NEW m \in 1..(c - from), NEW n \in 1..(c - from), m < n
                PROVE  got[m].at <= got[n].at
    BY <1>6 DEF InOrder
  <2>1. from + m \in 1..c /\ from + n \in 1..c /\ from + m <= from + n
    BY <1>5, <1>7
  <2>. QED BY <1>2, <1>6, <2>1
<1>10. Len(got) <= limit /\ Len(got) <= MaxQuery
  BY <1>5, <1>6, QueryAssumption
<1>11. ASSUME NEW r \in left
       PROVE  \E m \in 1..c : m <= from /\ r = RecordAt(ps[m])
  <2>1. PICK p \in S : RecordAt(p) = r
    BY <1>3
  <2>2. PICK m \in 1..c : ps[m] = p
    BY <1>2
  <2>3. m <= from
    <3>. SUFFICES ASSUME ~(m <= from) PROVE FALSE
      OBVIOUS
    <3>1. m - from \in 1..(c - from) /\ from + (m - from) = m
      BY <1>2, <1>5
    <3>2. got[m - from] = r
      BY <1>6, <2>1, <2>2, <3>1
    <3>. QED BY <1>6, <3>1, <3>2 DEF Replied
  <2>. QED BY <2>1, <2>2, <2>3
<1>12. left # {} => Len(got) \in {limit, MaxQuery}
  <2>1. left # {} => from # 0
    BY <1>2, <1>5, <1>11
  <2>. QED BY <1>5, <1>6, <2>1
<1>13. ASSUME NEW r \in left, NEW n \in 1..Len(got) PROVE r.at <= got[n].at
  <2>1. PICK m \in 1..c : m <= from /\ r = RecordAt(ps[m])
    BY <1>11
  <2>2. from + n \in 1..c /\ m <= from + n /\ got[n] = RecordAt(ps[from + n])
    BY <1>2, <1>5, <1>6, <1>7, <2>1
  <2>. QED BY <1>2, <2>1, <2>2
<1>. QED BY <1>8, <1>9, <1>10, <1>12, <1>13 DEF got

(* history.rs, query: for any checks, history_size and limit, a reply has  *)
(* only matching records, as many as there are within the limits, oldest   *)
(* first, and none that is left out is newer than one that is returned.    *)
THEOREM QueryIsMostRecentHolds == HistorySpec => []QueryIsMostRecent
<1>1. HistoryInv => QueryIsMostRecent
  <2>1. HistoryInv => HistoryTypeOK
    BY DEF HistoryInv
  <2>2. 0..(MaxQuery + 1) \subseteq Nat
    BY QueryAssumption
  <2>. QED BY <2>1, <2>2, QueryCorrect DEF QueryIsMostRecent
<1>. QED BY <1>1, HistoryStart, HistoryStep, PTL DEF HistorySpec
=============================================================================
