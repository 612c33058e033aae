----------------------------- MODULE ExecProofs -----------------------------
(* Theorems about Exec, for any processes, limits and pipe sizes.          *)
EXTENDS Exec, TLAPS

(* Init establishes the types. *)
LEMMA TypeInit == Init => TypeOK
<1>. SUFFICES ASSUME Init PROVE TypeOK
  OBVIOUS
<1>1. holds \in [Pipes -> SUBSET Procs]
  BY DEF Init
<1>2. waited \in BOOLEAN
  BY DEF Init
<1>. QED BY <1>1, <1>2 DEF Init, TypeOK

(* The end of execute keeps the types. *)
LEMMA EndType ==
  ASSUME TypeOK, NEW r \in Results, End(r),
         got' \in [Pipes -> Nat], UNCHANGED <<ended, waited>>
  PROVE  TypeOK'
BY DEF TypeOK, End

(* Every step keeps the types. *)
LEMMA TypeStep == TypeOK /\ [Next]_vars => TypeOK'
<1>. SUFFICES ASSUME TypeOK, [Next]_vars PROVE TypeOK'
  OBVIOUS
<1>. USE ProcsAssumption, ExecLimitsAssumption DEF command, reader
<1>1. ASSUME NEW seconds \in 0..(MaxSeconds + 1), Refuse(seconds) \/ Spawn(seconds)
      PROVE  TypeOK'
  BY <1>1 DEF TypeOK, Refuse, Spawn, Results
<1>2. ASSUME NEW f \in Pipes, Read(f) PROVE TypeOK'
  <2>1. got' \in [Pipes -> Nat]
    BY <1>2 DEF TypeOK, Read
  <2>2. CASE TooMuch(got[f] + 1)
    BY <1>2, <2>1, <2>2, EndType DEF Read, Results
  <2>3. CASE ~TooMuch(got[f] + 1)
    BY <1>2, <2>1, <2>3 DEF TypeOK, Read
  <2>. QED BY <2>2, <2>3
<1>3. ASSUME NEW f \in Pipes, ReadEnd(f) PROVE TypeOK'
  BY <1>3 DEF TypeOK, ReadEnd
<1>4. CASE Wait
  BY <1>4 DEF TypeOK, Wait
<1>5. CASE Finish \/ TimerFires \/ IoFails \/ Cancel
  <2>1. \E r \in Results : End(r)
    BY <1>5 DEF Finish, TimerFires, IoFails, Cancel, Results
  <2>2. got' \in [Pipes -> Nat] /\ UNCHANGED <<ended, waited>>
    BY <1>5 DEF TypeOK, Finish, TimerFires, IoFails, Cancel
  <2>. QED BY <2>1, <2>2, EndType
<1>6. CASE Tick
  BY <1>6 DEF TypeOK, Tick
<1>7. ASSUME NEW p \in Procs, NEW q \in Procs, Fork(p, q) PROVE TypeOK'
  BY <1>7 DEF TypeOK, Fork
<1>8. ASSUME NEW p \in Procs, NEW f \in Pipes, Write(p, f) \/ Redirect(p, f) PROVE TypeOK'
  <2>1. CASE Write(p, f)
    BY <2>1 DEF TypeOK, Write
  <2>2. CASE Redirect(p, f)
    BY <2>2 DEF TypeOK, Redirect
  <2>. QED BY <1>8, <2>1, <2>2
<1>9. ASSUME NEW p \in Procs, Leave(p) \/ Exit(p) PROVE TypeOK'
  BY <1>9 DEF TypeOK, Leave, Exit
<1>10. CASE UNCHANGED vars
  BY <1>10 DEF TypeOK, vars
<1>. QED BY <1>1, <1>2, <1>3, <1>4, <1>5, <1>6, <1>7, <1>8, <1>9, <1>10
         DEF Next, Own, Command, Terminated

(* The state of execute and of the command has its types, always. *)
THEOREM TypeCorrect == Spec => []TypeOK
BY TypeInit, TypeStep, PTL DEF Spec

-----------------------------------------------------------------------------
(* The inductive invariant of the processes: nobody is born before the     *)
(* leader; who is in the group or has a pipe was born; and of those that   *)
(* execute must not leave behind nobody is alive once it is over, so that  *)
(* nobody is left who could fork into the group.                           *)
ProcInv ==
  /\ proc[Leader] = "unborn" => \A p \in Procs : proc[p] = "unborn"
  /\ state = "idle" => proc[Leader] = "unborn"
  /\ state = "running" => proc[Leader] # "unborn"
  /\ \A p \in group : proc[p] # "unborn"
  /\ \A f \in Pipes : \A p \in holds[f] : proc[p] # "unborn"
  /\ NothingSurvives

(* execute ends with nobody alive in the group, wherever it was.           *)
LEMMA EndKills ==
  ASSUME TypeOK, ProcInv, NEW r, state = "running", End(r)
  PROVE  ProcInv'
BY ProcsAssumption DEF TypeOK, ProcInv, NothingSurvives, End, Doomed, Alive

(* Every step keeps ProcInv. *)
LEMMA ProcStep == TypeOK /\ ProcInv /\ [Next]_vars => ProcInv'
<1>. SUFFICES ASSUME TypeOK, ProcInv, [Next]_vars PROVE ProcInv'
  OBVIOUS
<1>. USE ProcsAssumption DEF command, reader
<1>1. ASSUME NEW seconds \in 0..(MaxSeconds + 1), Refuse(seconds) \/ Spawn(seconds)
      PROVE  ProcInv'
  <2>1. CASE Refuse(seconds)
    BY <2>1 DEF TypeOK, ProcInv, NothingSurvives, Alive, Refuse
  <2>2. CASE Spawn(seconds)
    BY <2>2 DEF TypeOK, ProcInv, NothingSurvives, Alive, Spawn
  <2>. QED BY <1>1, <2>1, <2>2
<1>2. ASSUME NEW f \in Pipes, Read(f) PROVE ProcInv'
  <2>1. CASE TooMuch(got[f] + 1)
    BY <1>2, <2>1, EndKills DEF Read, CanRead
  <2>2. CASE ~TooMuch(got[f] + 1)
    BY <1>2, <2>2 DEF ProcInv, NothingSurvives, Alive, Read
  <2>. QED BY <2>1, <2>2
<1>3. CASE Finish \/ TimerFires \/ IoFails \/ Cancel
  BY <1>3, EndKills DEF Finish, AllDone, TimerFires, IoFails, Cancel
<1>4. ASSUME NEW p \in Procs, NEW q \in Procs, Fork(p, q) PROVE ProcInv'
  <2>1. /\ proc[p] = "alive" /\ proc[q] = "unborn" /\ state' = state
        /\ proc' = [proc EXCEPT ![q] = "alive"]
        /\ group' = IF p \in group THEN group \cup {q} ELSE group
        /\ holds' = [f \in Pipes |-> IF p \in holds[f] THEN holds[f] \cup {q} ELSE holds[f]]
    BY <1>4 DEF Fork, Alive
  <2>2. /\ proc[Leader] # "unborn" /\ q # Leader /\ proc'[Leader] = proc[Leader]
        /\ q \notin group
    BY <2>1 DEF TypeOK, ProcInv
  <2>3. \A o \in group' : proc'[o] # "unborn"
    BY <2>1 DEF TypeOK, ProcInv
  <2>4. \A f \in Pipes : \A o \in holds'[f] : proc'[o] # "unborn"
    BY <2>1 DEF TypeOK, ProcInv
  <2>5. ASSUME state = "over" PROVE NothingSurvives'
    <3>1. p \notin group
      BY <2>1, <2>5 DEF ProcInv, NothingSurvives, Alive
    <3>. QED BY <2>1, <2>2, <2>5, <3>1 DEF TypeOK, ProcInv, NothingSurvives, Alive
  <2>6. NothingSurvives'
    BY <2>1, <2>5 DEF NothingSurvives
  <2>. QED BY <2>1, <2>2, <2>3, <2>4, <2>6 DEF ProcInv
<1>5. ASSUME NEW p \in Procs, NEW f \in Pipes, Redirect(p, f) PROVE ProcInv'
  BY <1>5 DEF TypeOK, ProcInv, NothingSurvives, Alive, Redirect
<1>6. ASSUME NEW p \in Procs, Leave(p) \/ Exit(p) PROVE ProcInv'
  BY <1>6 DEF TypeOK, ProcInv, NothingSurvives, Alive, Leave, Exit
<1>7. CASE \/ \E f \in Pipes : ReadEnd(f) \/ \E p \in Procs : Write(p, f)
           \/ Wait \/ Tick \/ UNCHANGED vars
  <2>1. UNCHANGED <<state, proc, group, holds>>
    BY <1>7 DEF ReadEnd, Write, Wait, Tick, vars
  <2>. QED BY <2>1 DEF ProcInv, NothingSurvives, Alive
<1>. QED BY <1>1, <1>2, <1>3, <1>4, <1>5, <1>6, <1>7 DEF Next, Own, Command, Terminated

(* exec.rs, ProcessGroup and kill_on_drop: however execute ends, by        *)
(* success, error, time-out or being dropped, no process of its group and  *)
(* not the leader is alive afterwards, and none is born into the group.    *)
THEOREM NoSurvivors == Spec => []NothingSurvives
<1>1. Init => ProcInv
  BY ProcsAssumption DEF Init, ProcInv, NothingSurvives
<1>2. ProcInv => NothingSurvives
  BY DEF ProcInv
<1>. QED BY <1>1, <1>2, ProcStep, TypeCorrect, PTL DEF Spec

-----------------------------------------------------------------------------
(* The inductive invariant of the output: no more is read than was         *)
(* written, and while execute runs no more than the limit; a pipe that     *)
(* ended is empty and has no writer left, and gets none.                   *)
OutputInv ==
  /\ state # "over" => result = None
  /\ state = "idle" => ended = {}
  /\ \A f \in Pipes : got[f] <= written[f]
  /\ state # "over" => \A f \in Pipes : got[f] <= OutputLimit
  /\ \A f \in ended : got[f] = written[f] /\ \A p \in holds[f] : ~Alive(p)
  /\ waited => proc[Leader] = "dead"
  /\ ResultIsTrue

(* Nothing that the processes do brings a dead one back, so what is known  *)
(* of an ended pipe stays true.                                            *)
LEMMA DeadStayDead ==
  ASSUME TypeOK, ProcInv, [Next]_vars, NEW p \in Procs, proc[p] = "dead"
  PROVE  proc'[p] = "dead"
<1>. USE ProcsAssumption DEF command, reader
<1>1. ASSUME NEW r, End(r) PROVE proc'[p] = "dead"
  BY <1>1 DEF TypeOK, End, Alive
<1>2. ASSUME NEW o \in Procs, NEW q \in Procs, Fork(o, q) PROVE proc'[p] = "dead"
  BY <1>2 DEF TypeOK, Fork
<1>3. ASSUME NEW o \in Procs, Exit(o) PROVE proc'[p] = "dead"
  BY <1>3 DEF TypeOK, Exit
<1>4. ASSUME NEW seconds \in 0..(MaxSeconds + 1), Spawn(seconds) PROVE proc'[p] = "dead"
  BY <1>4 DEF TypeOK, ProcInv, Spawn
<1>5. ASSUME NEW f \in Pipes, Read(f) PROVE proc'[p] = "dead"
  BY <1>1, <1>5 DEF Read
<1>6. CASE Finish \/ TimerFires \/ IoFails \/ Cancel
  BY <1>1, <1>6 DEF Finish, TimerFires, IoFails, Cancel
<1>7. CASE \/ \E seconds \in 0..(MaxSeconds + 1) : Refuse(seconds)
           \/ \E f \in Pipes : ReadEnd(f) \/ \E o \in Procs : Write(o, f) \/ Redirect(o, f)
           \/ Wait \/ Tick \/ (\E o \in Procs : Leave(o)) \/ UNCHANGED vars
  BY <1>7 DEF Refuse, ReadEnd, Write, Redirect, Wait, Tick, Leave, vars
<1>. QED BY <1>2, <1>3, <1>4, <1>5, <1>6, <1>7 DEF Next, Own, Command, Terminated

(* What the end of execute leaves of the output invariant, given that what *)
(* it returns is true.                                                     *)
LEMMA EndOutput ==
  ASSUME TypeOK, ProcInv, OutputInv, [Next]_vars, NEW r, state = "running", End(r),
         UNCHANGED <<ended, waited>>, \A f \in Pipes : got'[f] <= written[f],
         \A f \in ended : got'[f] = got[f],
         ResultIsTrue'
  PROVE  OutputInv'
BY ProcsAssumption, DeadStayDead DEF TypeOK, OutputInv, End, Alive

(* Every step keeps OutputInv. *)
LEMMA OutputStep == TypeOK /\ ProcInv /\ OutputInv /\ [Next]_vars => OutputInv'
<1>. SUFFICES ASSUME TypeOK, ProcInv, OutputInv, [Next]_vars PROVE OutputInv'
  OBVIOUS
<1>. USE ProcsAssumption, ExecLimitsAssumption, NoResultAssumption DEF command, reader
<1>1. ASSUME NEW seconds \in 0..(MaxSeconds + 1), Refuse(seconds) PROVE OutputInv'
  BY <1>1 DEF TypeOK, OutputInv, Refuse, ResultIsTrue, Results, Alive
<1>2. ASSUME NEW seconds \in 0..(MaxSeconds + 1), Spawn(seconds) PROVE OutputInv'
  <2>1. ended = {} /\ ~waited
    BY <1>2 DEF TypeOK, ProcInv, OutputInv, Spawn
  <2>2. UNCHANGED <<result, written, got, ended, waited>> /\ state # "over"
    BY <1>2 DEF Spawn
  <2>. QED BY <2>1, <2>2 DEF OutputInv, ResultIsTrue, Results
<1>3. ASSUME NEW f \in Pipes, Read(f) PROVE OutputInv'
  <2>1. /\ state = "running" /\ f \notin ended /\ got' = [got EXCEPT ![f] = got[f] + 1]
        /\ written[f] > got[f] /\ UNCHANGED <<ended, waited>>
    BY <1>3 DEF Read, CanRead
  <2>2. /\ \A g \in Pipes : got'[g] \in Nat /\ got'[g] <= written[g]
        /\ \A g \in ended : got'[g] = got[g]
        /\ got'[f] = got[f] + 1
    BY <2>1 DEF TypeOK, OutputInv
  <2>3. CASE TooMuch(got[f] + 1)
    <3>1. End("output_limit")
      BY <1>3, <2>3 DEF Read
    <3>2. written'[f] > OutputLimit
      BY <2>1, <2>2, <2>3, <3>1 DEF TypeOK, End, TooMuch
    <3>3. ResultIsTrue'
      BY <3>1, <3>2 DEF End, ResultIsTrue
    <3>. QED BY <2>1, <2>2, <3>1, <3>3, EndOutput
  <2>4. CASE ~TooMuch(got[f] + 1)
    <3>1. UNCHANGED <<state, result, proc, holds, written>>
      BY <1>3, <2>4 DEF Read
    <3>2. \A g \in Pipes : got'[g] <= OutputLimit
      BY <2>1, <2>2, <2>4 DEF TypeOK, OutputInv, TooMuch
    <3>3. result = None
      BY <2>1 DEF OutputInv
    <3>4. ResultIsTrue'
      BY <3>1, <3>3 DEF ResultIsTrue, Results
    <3>. QED BY <2>1, <2>2, <3>1, <3>2, <3>4 DEF TypeOK, OutputInv, Alive
  <2>. QED BY <2>3, <2>4
<1>4. ASSUME NEW f \in Pipes, ReadEnd(f) PROVE OutputInv'
  <2>1. /\ state = "running" /\ ended' = ended \cup {f}
        /\ UNCHANGED <<state, result, proc, holds, written, got, waited>>
    BY <1>4 DEF ReadEnd, AtEnd
  <2>2. got[f] <= OutputLimit /\ result = None
    BY <2>1 DEF OutputInv
  <2>3. written[f] = got[f] /\ \A p \in holds[f] : ~Alive(p)
    BY <1>4, <2>2 DEF TypeOK, ReadEnd, AtEnd
  <2>4. ResultIsTrue'
    BY <2>1, <2>2 DEF ResultIsTrue, Results
  <2>. QED BY <2>1, <2>3, <2>4 DEF OutputInv, Alive
<1>5. CASE Wait
  <2>1. result = None /\ result' = result
    BY <1>5 DEF Wait, CanWait, OutputInv
  <2>2. ResultIsTrue'
    BY <2>1 DEF ResultIsTrue, Results
  <2>. QED BY <1>5, <2>2 DEF Wait, CanWait, OutputInv, Alive
<1>6. CASE Finish
  <2>1. /\ End("ok") /\ state = "running" /\ waited /\ ended = Pipes
        /\ UNCHANGED <<got, ended, waited>>
    BY <1>6 DEF Finish, AllDone
  <2>2. \A f \in Pipes : /\ got[f] = written[f] /\ got[f] <= OutputLimit
                         /\ \A p \in holds[f] : ~Alive(p)
    BY <2>1 DEF OutputInv
  <2>3. FrameLength(got["stdout"], got["stderr"]) <= MaxFrame
    <3>1. got["stdout"] \in Nat /\ got["stderr"] \in Nat
      BY DEF TypeOK, Pipes
    <3>2. got["stdout"] <= OutputLimit /\ got["stderr"] <= OutputLimit
      BY <2>2 DEF Pipes
    <3>. QED BY <3>1, <3>2, FrameAssumption DEF FrameLength
  <2>4. proc'[Leader] = "dead" /\ \A f \in Pipes : \A p \in holds'[f] : ~Alive(p)'
    BY <2>1, <2>2, DeadStayDead DEF TypeOK, OutputInv, End, Alive
  <2>5. ResultIsTrue'
    BY <2>1, <2>2, <2>3, <2>4 DEF End, ResultIsTrue, FrameLength
  <2>. QED BY <2>1, <2>2, <2>5, EndOutput DEF TypeOK
<1>7. CASE TimerFires
  <2>1. /\ End("timeout") /\ state = "running" /\ ~Ready
        /\ UNCHANGED <<got, ended, waited>>
    BY <1>7 DEF TimerFires
  <2>2. \A f \in Pipes : got[f] = written[f]
    BY <2>1 DEF TypeOK, OutputInv, Ready, CanRead
  <2>3. ResultIsTrue'
    BY <2>1, <2>2 DEF End, ResultIsTrue
  <2>. QED BY <2>1, <2>2, <2>3, EndOutput DEF TypeOK
<1>8. CASE IoFails \/ Cancel
  <2>1. /\ \E r \in {"io", "cancelled"} : End(r) /\ result' = r
        /\ state = "running" /\ UNCHANGED <<got, ended, waited>>
    BY <1>8 DEF IoFails, Cancel, End
  <2>2. ResultIsTrue'
    BY <2>1 DEF ResultIsTrue
  <2>. QED BY <2>1, <2>2, EndOutput DEF TypeOK, OutputInv
<1>9. ASSUME NEW p \in Procs, NEW q \in Procs, Fork(p, q) PROVE OutputInv'
  <2>1. /\ Alive(p) /\ proc[q] = "unborn"
        /\ holds' = [f \in Pipes |-> IF p \in holds[f] THEN holds[f] \cup {q} ELSE holds[f]]
        /\ proc' = [proc EXCEPT ![q] = "alive"]
        /\ UNCHANGED <<state, result, written, got, ended, waited>>
    BY <1>9 DEF Fork
  <2>2. ASSUME NEW f \in Pipes, \A o \in holds[f] : ~Alive(o)
        PROVE  \A o \in holds'[f] : ~Alive(o)'
    <3>1. p \notin holds[f] /\ holds'[f] = holds[f] /\ q \notin holds[f]
      BY <2>1, <2>2 DEF ProcInv
    <3>. QED BY <2>1, <2>2, <3>1 DEF TypeOK, Alive
  <2>3. proc[Leader] = "dead" => proc'[Leader] = "dead"
    BY DeadStayDead
  <2>4. ResultIsTrue'
    <3>1. ResultIsTrue
      BY DEF OutputInv
    <3>. QED BY <2>1, <2>2, <2>3, <3>1 DEF ResultIsTrue
  <2>5. \A f \in ended : \A o \in holds'[f] : ~Alive(o)'
    BY <2>2 DEF TypeOK, OutputInv
  <2>. QED BY <2>1, <2>3, <2>4, <2>5 DEF OutputInv
<1>10. ASSUME NEW p \in Procs, NEW f \in Pipes, Write(p, f) PROVE OutputInv'
  <2>1. /\ state = "running" /\ f \notin ended /\ written' = [written EXCEPT ![f] = written[f] + 1]
        /\ UNCHANGED <<state, result, proc, holds, got, ended, waited>>
    BY <1>10 DEF Write, OutputInv
  <2>2. ResultIsTrue'
    BY <2>1 DEF OutputInv, ResultIsTrue, Results
  <2>. QED BY <2>1, <2>2 DEF TypeOK, OutputInv, Alive
<1>11. ASSUME NEW p \in Procs,
              (\E f \in Pipes : Redirect(p, f)) \/ Leave(p) \/ Exit(p)
       PROVE  OutputInv'
  <2>1. /\ \A f \in Pipes : holds'[f] \subseteq holds[f]
        /\ \A o \in Procs : ~Alive(o) => ~Alive(o)'
        /\ UNCHANGED <<state, result, written, got, ended, waited>>
    BY <1>11 DEF TypeOK, Redirect, Leave, Exit, Alive
  <2>2. proc[Leader] = "dead" => proc'[Leader] = "dead"
    BY DeadStayDead
  <2>3. \A f \in Pipes : (\A o \in holds[f] : ~Alive(o)) => \A o \in holds'[f] : ~Alive(o)'
    BY <2>1 DEF TypeOK
  <2>4. ResultIsTrue'
    <3>1. ResultIsTrue
      BY DEF OutputInv
    <3>. QED BY <2>1, <2>2, <2>3, <3>1 DEF ResultIsTrue
  <2>. QED BY <2>1, <2>2, <2>3, <2>4 DEF TypeOK, OutputInv
<1>12. CASE Tick \/ UNCHANGED vars
  <2>1. UNCHANGED <<state, result, proc, holds, written, got, ended, waited>>
    BY <1>12 DEF Tick, vars
  <2>. QED BY <2>1 DEF OutputInv, ResultIsTrue, Alive
<1>. QED BY <1>1, <1>2, <1>3, <1>4, <1>5, <1>6, <1>7, <1>8, <1>9, <1>10, <1>11, <1>12
         DEF Next, Own, Command, Terminated

(* exec.rs, execute: success is reported of a leader that ended, with the  *)
(* whole output of everyone who could write, in a reply that fits in a     *)
(* frame; overflow only of too much output; and a time-out never of a      *)
(* command that was kept waiting for its output to be read.                *)
THEOREM ResultTrue == Spec => []ResultIsTrue
<1>1. Init => ProcInv
  BY ProcsAssumption DEF Init, ProcInv, NothingSurvives
<1>2. Init => OutputInv
  BY ExecLimitsAssumption, NoResultAssumption DEF Init, OutputInv, ResultIsTrue, Results
<1>3. OutputInv => ResultIsTrue
  BY DEF OutputInv
<1>. QED BY <1>1, <1>2, <1>3, ProcStep, OutputStep, TypeCorrect, PTL DEF Spec

=============================================================================
