-------------------------------- MODULE Exec --------------------------------
(***************************************************************************)
(* One bounded execution of a command: execute, read_output and            *)
(* ProcessGroup of crates/sshe-core/src/exec.rs.                           *)
(*                                                                         *)
(* The command is external: its processes fork, write, redirect their      *)
(* output, leave the process group and exit as they like.  They inherit    *)
(* the group and the write ends of both pipes.  Output is counted in       *)
(* units; a pipe holds PipeSize of them and a writer waits while it is     *)
(* full.  Time passes only while execute has nothing to do: the timer      *)
(* counts seconds, reading a pipe takes none.                              *)
(***************************************************************************)
EXTENDS Integers

CONSTANTS Procs,        \* the processes the command may consist of
          Leader,       \* the one that is spawned
          OutputLimit,  \* OUTPUT_LIMIT, in units
          PipeSize,     \* what a pipe holds
          MaxSeconds,   \* MAX_EXEC_SECONDS, in ticks
          MaxFrame,     \* MAX_FRAME, in units
          Envelope,     \* what a reply has besides the output, in units
          None

ASSUME ProcsAssumption == Leader \in Procs
ASSUME ExecLimitsAssumption ==
  /\ OutputLimit \in Nat /\ PipeSize \in Nat \ {0} /\ MaxSeconds \in Nat \ {0}
  /\ MaxFrame \in Nat /\ Envelope \in Nat

(* limits.rs: OUTPUT_LIMIT is 256 KiB and MAX_FRAME 4 MiB, so that twice   *)
(* the limit, four bytes for one, leaves 2 MiB for the rest of a reply.    *)
ASSUME FrameAssumption == 8 * OutputLimit + Envelope <= MaxFrame

Results == {"ok", "output_limit", "timeout", "io", "invalid_timeout", "cancelled"}
ASSUME NoResultAssumption == None \notin Results

Pipes == {"stdout", "stderr"}

VARIABLES
  state,    \* of the future: "idle", "running", "over"
  result,   \* what it returned; "cancelled" if it was dropped
  left,     \* until the timer fires
  proc,     \* each process: "unborn", "alive" or "dead"
  group,    \* the processes in the command's group
  holds,    \* each pipe's write end: the processes that were given it
  written,  \* units ever written to each pipe
  got,      \* units read from it
  ended,    \* the pipes read to their end
  waited    \* the leader's exit status has been collected

vars == <<state, result, left, proc, group, holds, written, got, ended, waited>>
command == <<proc, group, holds, written>>
reader == <<got, ended, waited>>

Alive(p) == proc[p] = "alive"

Init ==
  /\ state = "idle"
  /\ result = None
  /\ left = 0
  /\ proc = [p \in Procs |-> "unborn"]
  /\ group = {}
  /\ holds = [f \in Pipes |-> {}]
  /\ written = [f \in Pipes |-> 0]
  /\ got = [f \in Pipes |-> 0]
  /\ ended = {}
  /\ waited = FALSE

-----------------------------------------------------------------------------
(* A time-out outside 1..=MAX_EXEC_SECONDS is refused, and a program that  *)
(* cannot be spawned is an error: nothing was started.                     *)
Refuse(seconds) ==
  /\ state = "idle"
  /\ state' = "over"
  /\ result' = IF seconds \notin 1..MaxSeconds THEN "invalid_timeout" ELSE "io"
  /\ UNCHANGED <<left, command, reader>>

(* process_group(0): the leader's group is its own; both pipes are its. *)
Spawn(seconds) ==
  /\ state = "idle" /\ seconds \in 1..MaxSeconds
  /\ state' = "running"
  /\ left' = seconds
  /\ proc' = [proc EXCEPT ![Leader] = "alive"]
  /\ group' = {Leader}
  /\ holds' = [f \in Pipes |-> {Leader}]
  /\ UNCHANGED <<result, written, reader>>

(* Mutant of Doomed: kill_on_drop alone. *)
DoomedLeader == {Leader}

(* Whom the end of execute kills.  The locals are dropped in reverse: the  *)
(* group by ProcessGroup, then the leader by kill_on_drop, wherever it is. *)
Doomed == group \cup {Leader}

(* execute is over, by return or by being dropped. *)
End(r) ==
  /\ state' = "over"
  /\ result' = r
  /\ left' = 0
  /\ proc' = [p \in Procs |-> IF p \in Doomed /\ Alive(p) THEN "dead" ELSE proc[p]]
  /\ UNCHANGED <<group, holds, written>>

(* Mutant of CanRead: one stream after the other. *)
CanReadInTurn(f) ==
  /\ state = "running" /\ f \notin ended /\ written[f] > got[f]
  /\ f = "stderr" => "stdout" \in ended

(* Both pipes are read as their data comes, try_join! polls all three.     *)
CanRead(f) == state = "running" /\ f \notin ended /\ written[f] > got[f]

(* take(OUTPUT_LIMIT + 1): one unit more than allowed shows the excess.    *)
TooMuch(n) == n > OutputLimit

(* read_output takes a unit.  Too many of them end try_join!, and with it  *)
(* everything, at once.                                                    *)
Read(f) ==
  /\ CanRead(f) /\ got[f] <= OutputLimit
  /\ got' = [got EXCEPT ![f] = @ + 1]
  /\ IF TooMuch(got[f] + 1) THEN End("output_limit")
     ELSE UNCHANGED <<state, result, left, command>>
  /\ UNCHANGED <<ended, waited>>

(* The end of a pipe: it is empty and nobody can write to it any more; or  *)
(* as much was read as read_output asks for.                               *)
AtEnd(f) ==
  /\ state = "running" /\ f \notin ended
  /\ \/ got[f] > OutputLimit
     \/ written[f] = got[f] /\ \A p \in holds[f] : ~Alive(p)

ReadEnd(f) ==
  /\ AtEnd(f)
  /\ ended' = ended \cup {f}
  /\ UNCHANGED <<state, result, left, command, got, waited>>

(* child.wait() *)
CanWait == state = "running" /\ ~waited /\ proc[Leader] = "dead"

Wait ==
  /\ CanWait
  /\ waited' = TRUE
  /\ UNCHANGED <<state, result, left, command, got, ended>>

(* All three are done: the output and the status are returned.             *)
AllDone == state = "running" /\ waited /\ ended = Pipes

(* write_frame of the reply: serde_json writes a byte of Vec<u8> as up to  *)
(* three digits and a comma.                                               *)
FrameLength(result_stdout, result_stderr) == 4 * (result_stdout + result_stderr) + Envelope

Finish ==
  /\ AllDone
  /\ End("ok")
  /\ UNCHANGED reader

Ready == CanWait \/ AllDone \/ \E f \in Pipes : CanRead(f) \/ AtEnd(f)

(* Mutant of TimerFires: the wait is not bounded. *)
TimerNever == FALSE /\ End("timeout") /\ UNCHANGED reader

(* The timer; tokio polls the work first. *)
TimerFires ==
  /\ state = "running" /\ left = 0 /\ ~Ready
  /\ End("timeout")
  /\ UNCHANGED reader

(* A read or the wait fails. *)
IoFails ==
  /\ state = "running"
  /\ End("io")
  /\ UNCHANGED reader

(* The future is dropped at its await: a request aborted at shutdown, or   *)
(* the shorter time-out of a service check.                                *)
Cancel ==
  /\ state = "running"
  /\ End("cancelled")
  /\ UNCHANGED reader

Tick ==
  /\ state = "running" /\ left > 0 /\ ~Ready
  /\ left' = left - 1
  /\ UNCHANGED <<state, result, command, reader>>

-----------------------------------------------------------------------------
(* The command.  A child inherits its parent's group and pipes.            *)
Fork(p, q) ==
  /\ Alive(p) /\ proc[q] = "unborn"
  /\ proc' = [proc EXCEPT ![q] = "alive"]
  /\ group' = IF p \in group THEN group \cup {q} ELSE group
  /\ holds' = [f \in Pipes |-> IF p \in holds[f] THEN holds[f] \cup {q} ELSE holds[f]]
  /\ UNCHANGED <<state, result, left, written, reader>>

Write(p, f) ==
  /\ state = "running" /\ Alive(p) /\ p \in holds[f]
  /\ written[f] - got[f] < PipeSize
  /\ written' = [written EXCEPT ![f] = @ + 1]
  /\ UNCHANGED <<state, result, left, proc, group, holds, reader>>

(* Its output goes elsewhere from now on. *)
Redirect(p, f) ==
  /\ Alive(p) /\ p \in holds[f]
  /\ holds' = [holds EXCEPT ![f] = @ \ {p}]
  /\ UNCHANGED <<state, result, left, proc, group, written, reader>>

(* setsid or setpgid. *)
Leave(p) ==
  /\ Alive(p) /\ p \in group
  /\ group' = group \ {p}
  /\ UNCHANGED <<state, result, left, proc, holds, written, reader>>

Exit(p) ==
  /\ Alive(p)
  /\ proc' = [proc EXCEPT ![p] = "dead"]
  /\ UNCHANGED <<state, result, left, group, holds, written, reader>>

Own == \/ \E f \in Pipes : Read(f) \/ ReadEnd(f)
       \/ Wait \/ Finish \/ TimerFires

Command == \E p \in Procs : \/ \E q \in Procs : Fork(p, q)
                            \/ \E f \in Pipes : Write(p, f) \/ Redirect(p, f)
                            \/ Leave(p) \/ Exit(p)

Terminated == state = "over" /\ UNCHANGED vars

Next == \/ \E seconds \in 0..(MaxSeconds + 1) : Refuse(seconds) \/ Spawn(seconds)
        \/ Own \/ Tick \/ Command
        \/ IoFails \/ Cancel
        \/ Terminated

Spec == Init /\ [][Next]_vars

(* The task is polled and time passes; the command owes nothing.           *)
FairSpec == Spec /\ WF_vars(Own) /\ WF_vars(Tick)

-----------------------------------------------------------------------------
TypeOK ==
  /\ state \in {"idle", "running", "over"}
  /\ result \in Results \cup {None}
  /\ left \in Nat
  /\ proc \in [Procs -> {"unborn", "alive", "dead"}]
  /\ group \subseteq Procs
  /\ holds \in [Pipes -> SUBSET Procs]
  /\ written \in [Pipes -> Nat] /\ got \in [Pipes -> Nat]
  /\ ended \subseteq Pipes
  /\ waited \in BOOLEAN

(* README.md line 147: a time-out, an overflow or a cancellation ends the  *)
(* process group; so does success.  No process of the command outlives     *)
(* execute unless it left the group, and the leader never does.            *)
NothingSurvives == state = "over" => \A p \in group \cup {Leader} : ~Alive(p)

(* What execute returns is true of the command, whoever forked, wrote or   *)
(* died meanwhile.  Success: the leader has ended, both outputs are whole, *)
(* nobody is left who could have added to them, and the reply fits in a    *)
(* frame, so that it can be sent.  Overflow: there was more than the       *)
(* limit.  Time-out: the command was never kept waiting for a reader.      *)
ResultIsTrue ==
  /\ result = "ok" => /\ proc[Leader] = "dead"
                      /\ FrameLength(got["stdout"], got["stderr"]) <= MaxFrame
                      /\ \A f \in Pipes : /\ got[f] = written[f] /\ got[f] <= OutputLimit
                                          /\ \A p \in holds[f] : ~Alive(p)
  /\ result = "output_limit" => \E f \in Pipes : written[f] > OutputLimit
  /\ result = "timeout" => \A f \in Pipes : got[f] = written[f]

(* execute ends, whatever the command does: ignores the pipe, fills it,    *)
(* leaves someone behind who holds it.                                     *)
Ends == state = "running" ~> state = "over"
=============================================================================
