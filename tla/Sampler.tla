------------------------------ MODULE Sampler -------------------------------
(***************************************************************************)
(* One sampling round per probe kind, shared by manual requests and by the *)
(* scheduler: crates/sshe-node/src/sampling.rs and scheduler.rs.           *)
(*                                                                         *)
(* A caller is a task that awaits Sampler::sample: a manual request (one   *)
(* task per request, so each asks once) or the scheduler's task for one    *)
(* kind, which is named by that kind.  A round is a watch channel of its   *)
(* own; its sender lives in the leading task, so the channel is open       *)
(* exactly while a caller leads it.  Rounds are names for channels: a name *)
(* nobody refers to any more may be used again.  Each kind has one check;  *)
(* the records of further checks are inserted in the same loop.            *)
(***************************************************************************)
EXTENDS Series

CONSTANTS Kinds,      \* the probe kinds
          Scheduled,  \* daemon.probes: the kinds the scheduler runs
          Manual,     \* manual requests
          Rounds,     \* names for watch channels
          Interval,   \* daemon.interval_secs, in ticks
          MaxTime,    \* the clock's bound
          Failure     \* the round's work failed as a whole

ASSUME KindsAssumption == Scheduled \subseteq Kinds
ASSUME CallersAssumption == Manual \cap Scheduled = {}
ASSUME TimeAssumption == Interval \in Nat \ {0} /\ MaxTime \in Nat
ASSUME ValuesAssumption == /\ None \notin Rounds \cup Kinds
                           /\ Failure # None
                           /\ Failure \notin Records(Nat)
                           /\ None \notin Records(Nat)

VARIABLES
  now,      \* the clock (Instant::now and the wall clock)
  next,     \* Slot::next: when the kind is due, None before its first round
  running,  \* Slot::running: the round in the slot, open or not, or None
  value,    \* the value in each round's channel, None until it is published
  hist,     \* Sampler::history: the series of each kind
  pc,       \* where each caller is
  kind,     \* the kind each caller samples
  round,    \* the round each caller leads or waits for
  outcome,  \* what the leader will publish, then what sample returned
  due,      \* run_kind's local: the deadline its timer sleeps until
  fresh,    \* the scheduler has not seen the last change of next
  asked,    \* history variable: when the request called sample
  done      \* history variable: when the kind's last round was published

vars == <<now, next, running, value, hist, pc, kind, round, outcome, due,
          fresh, asked, done>>

Callers == Manual \cup Scheduled
Outcomes == Records(Nat) \cup {Failure}

(* A leading task holds its round's sender from Lead to its return.        *)
Leading(c) == pc[c] \in {"work", "write", "publish"}
Alive(r) == \E c \in Callers : Leading(c) /\ round[c] = r
Waiting(c) == pc[c] = "wait"

(* Mutant of InFlight: any round in the slot counts, its leader dead or not. *)
InFlightEvenIfClosed(k) == running[k] # None

(* r.has_changed().is_ok() of the round in the slot, line 84.  The slot's  *)
(* receiver never sees a published value: publishing clears the slot.      *)
InFlight(k) == running[k] # None /\ Alive(running[k])

(* Mutant of NotDue: run_due trusts the timer that woke it. *)
NotDueUnchecked(k) == FALSE

NotDue(k) == next[k] # None /\ next[k] > now

Init ==
  /\ now = 0
  /\ next = [k \in Kinds |-> None]
  /\ running = [k \in Kinds |-> None]
  /\ value = [r \in Rounds |-> None]
  /\ hist = [k \in Kinds |-> EmptySeries]
  /\ pc = [c \in Callers |-> IF c \in Manual THEN "idle" ELSE "boot"]
  /\ kind = [c \in Callers |-> IF c \in Manual THEN None ELSE c]
  /\ round = [c \in Callers |-> None]
  /\ outcome = [c \in Callers |-> None]
  /\ due = [k \in Scheduled |-> 0]
  /\ fresh = [k \in Scheduled |-> FALSE]
  /\ asked = [m \in Manual |-> 0]
  /\ done = [k \in Kinds |-> None]

slot == <<next, running, value, hist, done>>
sched == <<due, fresh>>

(* wait_online returns, online or not: run_kind starts for every kind.     *)
Online ==
  /\ Scheduled # {}
  /\ \A s \in Scheduled : pc[s] \in {"boot", "gone"}
  /\ \E s \in Scheduled : pc[s] = "boot"
  /\ pc' = [c \in Callers |-> IF pc[c] = "boot" THEN "read" ELSE pc[c]]
  /\ UNCHANGED <<now, slot, sched, kind, round, outcome, asked>>

(* run_kind takes the deadline and marks it seen; none yet means now.      *)
SchedRead(s) ==
  /\ pc[s] = "read"
  /\ due' = [due EXCEPT ![s] = IF next[s] = None THEN now ELSE next[s]]
  /\ fresh' = [fresh EXCEPT ![s] = FALSE]
  /\ pc' = [pc EXCEPT ![s] = "sleep"]
  /\ UNCHANGED <<now, slot, kind, round, outcome, asked>>

(* next.changed(): someone published a new deadline; read it.              *)
SchedChanged(s) ==
  /\ pc[s] = "sleep"
  /\ fresh[s]
  /\ pc' = [pc EXCEPT ![s] = "read"]
  /\ UNCHANGED <<now, slot, sched, kind, round, outcome, asked>>

(* sleep_until(due): call run_due.  Both arms may be ready; select! picks. *)
SchedTimer(s) ==
  /\ pc[s] = "sleep"
  /\ due[s] <= now
  /\ pc' = [pc EXCEPT ![s] = "enter"]
  /\ UNCHANGED <<now, slot, sched, kind, round, outcome, asked>>

(* A manual request for a probe of kind k calls Sampler::run.              *)
Ask(m, k) ==
  /\ pc[m] = "idle"
  /\ pc' = [pc EXCEPT ![m] = "enter"]
  /\ kind' = [kind EXCEPT ![m] = k]
  /\ asked' = [asked EXCEPT ![m] = now]
  /\ UNCHANGED <<now, slot, sched, round, outcome>>

(* Back in run_kind's loop, which drops the result, or the request is      *)
(* answered with it.                                                       *)
Returned(c) == IF c \in Scheduled THEN "read" ELSE "answered"
Result(c, v) == IF c \in Scheduled THEN None ELSE v

(* The three ways through the slot's lock, lines 82-94.                    *)
Join(c) ==
  LET k == kind[c] IN
  /\ pc[c] = "enter"
  /\ InFlight(k)
  /\ round' = [round EXCEPT ![c] = running[k]]
  /\ pc' = [pc EXCEPT ![c] = "wait"]
  /\ UNCHANGED <<now, slot, sched, kind, outcome, asked>>

(* Mutant of Skip: a manual request is also content with a recent round.   *)
SkipAnyone(c) ==
  /\ pc[c] = "enter"
  /\ ~InFlight(kind[c])
  /\ NotDue(kind[c])
  /\ pc' = [pc EXCEPT ![c] = Returned(c)]
  /\ UNCHANGED <<now, slot, sched, kind, round, outcome, asked>>

(* Only the scheduler comes with due_only. *)
Skip(c) ==
  /\ pc[c] = "enter"
  /\ ~InFlight(kind[c])
  /\ c \in Scheduled /\ NotDue(kind[c])
  /\ pc' = [pc EXCEPT ![c] = Returned(c)]
  /\ UNCHANGED <<now, slot, sched, kind, round, outcome, asked>>

(* A name no slot and no task inside sample refers to; which of them a new *)
(* channel gets makes no difference.                                       *)
Unused(r) == /\ \A k \in Kinds : running[k] # r
             /\ \A c \in Callers : round[c] # r
NewRound(r) == Unused(r) /\ r = CHOOSE x \in Rounds : Unused(x)

(* Mutant of Lead: the slot is not looked at under the lock.               *)
LeadUnguarded(c) ==
  LET k == kind[c] IN
  /\ pc[c] = "enter"
  /\ ~(c \in Scheduled /\ NotDue(k))
  /\ \E r \in Rounds :
       /\ NewRound(r)
       /\ running' = [running EXCEPT ![k] = r]
       /\ value' = [value EXCEPT ![r] = None]
       /\ round' = [round EXCEPT ![c] = r]
  /\ pc' = [pc EXCEPT ![c] = "work"]
  /\ UNCHANGED <<now, next, hist, sched, kind, outcome, asked, done>>

Lead(c) ==
  LET k == kind[c] IN
  /\ pc[c] = "enter"
  /\ ~InFlight(k)
  /\ ~(c \in Scheduled /\ NotDue(k))
  /\ \E r \in Rounds :
       /\ NewRound(r)
       /\ running' = [running EXCEPT ![k] = r]
       /\ value' = [value EXCEPT ![r] = None]
       /\ round' = [round EXCEPT ![c] = r]
  /\ pc' = [pc EXCEPT ![c] = "work"]
  /\ UNCHANGED <<now, next, hist, sched, kind, outcome, asked, done>>

(* work.await ends with the check's record, or fails as a whole; then there *)
(* is nothing to record.                                                   *)
WorkOk(c, ok) ==
  /\ pc[c] = "work"
  /\ outcome' = [outcome EXCEPT ![c] = Measured(now, ok)]
  /\ pc' = [pc EXCEPT ![c] = "write"]
  /\ UNCHANGED <<now, slot, sched, kind, round, asked>>

WorkErr(c) ==
  /\ pc[c] = "work"
  /\ outcome' = [outcome EXCEPT ![c] = Failure]
  /\ pc' = [pc EXCEPT ![c] = "publish"]
  /\ UNCHANGED <<now, slot, sched, kind, round, asked>>

(* Mutant of WriteHistory: the caller keeps its unstamped copy.            *)
WriteHistoryCopy(c) ==
  LET k == kind[c] IN
  /\ pc[c] = "write"
  /\ hist' = [hist EXCEPT ![k] = insert(hist[k], outcome[c])]
  /\ pc' = [pc EXCEPT ![c] = "publish"]
  /\ UNCHANGED <<now, next, running, value, sched, kind, round, outcome, asked, done>>

(* history.write().await is granted: insert the record, which stamps it.   *)
WriteHistory(c) ==
  LET k == kind[c] IN
  /\ pc[c] = "write"
  /\ hist' = [hist EXCEPT ![k] = insert(hist[k], outcome[c])]
  /\ outcome' = [outcome EXCEPT ![c] = Stamped(hist[k], outcome[c])]
  /\ pc' = [pc EXCEPT ![c] = "publish"]
  /\ UNCHANGED <<now, next, running, value, sched, kind, round, asked, done>>

(* What c leaves in its round's channel: nothing once c was the last to    *)
(* hold it.                                                                *)
Released(c, v) == IF \E d \in Callers \ {c} : round[d] = round[c] THEN v ELSE None

(* Under the slot's lock: the deadline, the value, the slot; then return,  *)
(* which drops the sender.  No await separates this from WriteHistory.     *)
Publish(c) ==
  LET k == kind[c] IN
  /\ pc[c] = "publish"
  /\ next' = [next EXCEPT ![k] = now + Interval]
  /\ value' = [value EXCEPT ![round[c]] = Released(c, outcome[c])]
  /\ running' = [running EXCEPT ![k] = None]
  /\ done' = [done EXCEPT ![k] = now]
  /\ fresh' = [s \in Scheduled |-> fresh[s] \/ s = k]
  /\ round' = [round EXCEPT ![c] = None]
  /\ outcome' = [outcome EXCEPT ![c] = Result(c, outcome[c])]
  /\ pc' = [pc EXCEPT ![c] = Returned(c)]
  /\ UNCHANGED <<now, hist, kind, due, asked>>

(* The follower's loop, lines 112-122: a value first, then closure.        *)
Receive(c) ==
  /\ Waiting(c)
  /\ value[round[c]] # None
  /\ outcome' = [outcome EXCEPT ![c] = Result(c, value[round[c]])]
  /\ value' = [value EXCEPT ![round[c]] = Released(c, value[round[c]])]
  /\ round' = [round EXCEPT ![c] = None]
  /\ pc' = [pc EXCEPT ![c] = Returned(c)]
  /\ UNCHANGED <<now, next, running, hist, sched, kind, asked, done>>

(* Mutant of ReceiveClosed: an error from changed() is taken for a wake-up. *)
ReceiveClosedRetry(c) ==
  /\ Waiting(c)
  /\ value[round[c]] = None
  /\ ~Alive(round[c])
  /\ UNCHANGED vars

(* ProbeCancelled: the leader is gone and published nothing.               *)
ReceiveClosed(c) ==
  /\ Waiting(c)
  /\ value[round[c]] = None
  /\ ~Alive(round[c])
  /\ round' = [round EXCEPT ![c] = None]
  /\ pc' = [pc EXCEPT ![c] = IF c \in Scheduled THEN "read" ELSE "cancelled"]
  /\ UNCHANGED <<now, slot, sched, kind, outcome, asked>>

(* The task is dropped at an await: JoinSet::abort_all when the daemon     *)
(* shuts down.  The slot keeps the round; its channel is now closed.       *)
Cancel(c) ==
  /\ pc[c] \in {"boot", "sleep", "work", "write", "wait"}
  /\ pc' = [pc EXCEPT ![c] = "gone"]
  /\ round' = [round EXCEPT ![c] = None]
  /\ outcome' = [outcome EXCEPT ![c] = None]
  /\ UNCHANGED <<now, slot, sched, kind, asked>>

Tick ==
  /\ now < MaxTime
  /\ now' = now + 1
  /\ UNCHANGED <<slot, sched, pc, kind, round, outcome, asked>>

Settled(c) == \/ pc[c] \in {"answered", "cancelled", "gone"}
              \/ c \in Scheduled /\ pc[c] = "sleep" /\ ~fresh[c] /\ due[c] > now

(* The bounded clock has run out and nobody has anything left to do.       *)
Terminated == /\ now = MaxTime
              /\ \A c \in Callers : Settled(c)
              /\ UNCHANGED vars

Work(c) == (\E ok \in BOOLEAN : WorkOk(c, ok)) \/ WorkErr(c)

Enter(c) == Join(c) \/ Skip(c) \/ Lead(c)

SchedStep(s) == SchedRead(s) \/ SchedChanged(s) \/ SchedTimer(s)

(* What a caller does by itself once it has called sample.                 *)
Step(c) == \/ Enter(c) \/ Work(c) \/ WriteHistory(c) \/ Publish(c)
           \/ Receive(c) \/ ReceiveClosed(c)

Next == \/ Online
        \/ \E s \in Scheduled : SchedStep(s)
        \/ \E m \in Manual, k \in Kinds : Ask(m, k)
        \/ \E c \in Callers : Step(c)
        \/ \E c \in Callers : Cancel(c)
        \/ Tick
        \/ Terminated

Spec == Init /\ [][Next]_vars

(* The runtime polls every woken task; a probe is bounded by its timeout   *)
(* and wait_online by ONLINE_WAIT.  Requests and cancellations need not    *)
(* happen.                                                                 *)
FairSpec == /\ Spec
            /\ WF_vars(Online) /\ WF_vars(Tick)
            /\ \A s \in Scheduled : WF_vars(SchedStep(s))
            /\ \A c \in Callers : WF_vars(Step(c))

-----------------------------------------------------------------------------
(* Every variable holds a value of its Rust type, and a caller's position  *)
(* fits what it holds: a leader or waiter has a round, a caller inside     *)
(* sample has a kind, a record to be written is a record.                  *)
PCs == {"idle", "boot", "read", "sleep", "enter", "work", "write", "publish",
        "wait", "answered", "cancelled", "gone"}

TypeOK ==
  /\ now \in Nat
  /\ next \in [Kinds -> Nat \cup {None}]
  /\ running \in [Kinds -> Rounds \cup {None}]
  /\ value \in [Rounds -> Outcomes \cup {None}]
  /\ hist \in [Kinds -> SeriesOf(Nat)]
  /\ pc \in [Callers -> PCs]
  /\ kind \in [Callers -> Kinds \cup {None}]
  /\ round \in [Callers -> Rounds \cup {None}]
  /\ outcome \in [Callers -> Outcomes \cup {None}]
  /\ due \in [Scheduled -> Nat]
  /\ fresh \in [Scheduled -> BOOLEAN]
  /\ asked \in [Manual -> Nat]
  /\ done \in [Kinds -> Nat \cup {None}]
  /\ \A c \in Callers :
       /\ Leading(c) \/ Waiting(c) <=> round[c] # None
       /\ pc[c] = "enter" \/ Leading(c) \/ Waiting(c) => kind[c] \in Kinds
       /\ pc[c] = "write" => outcome[c] \in Records(Nat)
       /\ pc[c] = "publish" => outcome[c] # None
       /\ c \in Scheduled => kind[c] = c

(* At most one caller leads an open round of a kind, however manual        *)
(* requests, the scheduler and cancellations interleave: a check is never  *)
(* run twice at once.                                                      *)
SingleFlight ==
  \A c, d \in Callers :
    Leading(c) /\ Leading(d) /\ kind[c] = kind[d] => c = d

(* Nobody is handed a result that was already out when they asked: an      *)
(* answer belongs to a round published no earlier than the call of sample. *)
(* "later rounds cannot replace a waiter's result" is the other direction, *)
(* see AnswerInHistory.                                                    *)
FreshAnswer ==
  \A m \in Manual :
    pc[m] = "answered" => /\ done[kind[m]] # None
                          /\ asked[m] <= done[kind[m]]

(* A returned record is in the history already, stamped as the history has *)
(* it, unless newer ones have pushed it out: history is written before the *)
(* result is published.                                                    *)
AnswerInHistory ==
  \A m \in Manual :
    pc[m] = "answered" /\ outcome[m] # Failure =>
      LET rs == hist[kind[m]].records IN
      \/ \E i \in 1..Len(rs) : rs[i] = outcome[m]
      \/ Len(rs) = Capacity /\ \A i \in 1..Len(rs) : rs[i].at >= outcome[m].at

(* Rounds of a kind are recorded in the order they observed it, although   *)
(* records wait for the history lock after they are measured.              *)
HistoryOrdered == \A k \in Kinds : InOrder(hist[k].records)

(* The scheduler starts a round only when a full interval has passed since *)
(* the last round of the kind was published, manual or failed ones too:    *)
(* the deadline its timer slept for may be stale when the timer fires.     *)
ScheduledSpacing ==
  [][\A s \in Scheduled :
       pc[s] = "enter" /\ pc'[s] = "work" =>
         done[s] = None \/ now >= done[s] + Interval]_vars

(* Every request that was sent is answered, or its task is cancelled: a    *)
(* waiter is released whether its leader publishes or dies.                *)
EveryCallReturns ==
  \A m \in Manual : pc[m] = "enter" ~> pc[m] \in {"answered", "cancelled", "gone"}

(* A scheduled kind that is due gets a new deadline, unless the daemon is  *)
(* shutting its scheduler down: neither a manual round, nor a cancelled    *)
(* one, nor a change of the deadline while the timer runs stalls it.       *)
DueIsServed ==
  \A s \in Scheduled : ~NotDue(s) ~> NotDue(s) \/ pc[s] = "gone"
=============================================================================
