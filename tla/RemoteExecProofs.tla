-------------------------- MODULE RemoteExecProofs --------------------------
(* Theorems about RemoteExec, for any values of the time limits.           *)
EXTENDS RemoteExec, TLAPS

(* The limits and their sums are positive numbers. *)
LEMMA SecsTypes ==
  /\ DialSecs \in Nat /\ IoSecs \in Nat /\ MarginSecs \in Nat /\ ExecSecs \in Nat
  /\ DialSecs > 0 /\ IoSecs > 0 /\ MarginSecs > 0 /\ ExecSecs > 0
  /\ RpcSecs = ExecSecs + MarginSecs
  /\ CallSecs = DialSecs + IoSecs + ExecSecs + MarginSecs
  /\ LocalSecs = DialSecs + IoSecs + ExecSecs + MarginSecs + MarginSecs
<1>1. DialSecs \in Nat \ {0} /\ IoSecs \in Nat \ {0} /\ MarginSecs \in Nat \ {0} /\ ExecSecs \in Nat \ {0}
  BY SecsAssumption
<1>. QED BY <1>1 DEF RpcSecs, CallSecs, LocalSecs

(* What one second does to the timers, participant by participant.         *)
LEMMA TickTimers ==
  ASSUME TypeOK, Tick
  PROVE  /\ left' \in [{"cli", "daemon", "peer"} -> Nat]
         /\ cli = "waiting" => left["cli"] > 0 /\ left'["cli"] = left["cli"] - 1
         /\ daemon \notin {"none", "over"} => left["daemon"] > 0 /\ left'["daemon"] = left["daemon"] - 1
         /\ peer \in {"running", "writing"} => left["peer"] > 0 /\ left'["peer"] = left["peer"] - 1
<1>1. DOMAIN Waiting = {"cli", "daemon", "peer"}
  BY DEF Waiting
<1>2. /\ Waiting["cli"] = (cli = "waiting") /\ Waiting["daemon"] = (daemon \notin {"none", "over"})
      /\ Waiting["peer"] = (peer \in {"reading", "running", "writing"})
  BY DEF Waiting
<1>3. left' = [who \in {"cli", "daemon", "peer"} |->
                IF Waiting[who] /\ left[who] > 0 THEN left[who] - 1 ELSE left[who]]
  BY <1>1 DEF Tick
<1>4. \A who \in {"cli", "daemon", "peer"} :
        Waiting[who] /\ left[who] = 0 => who = "peer" /\ peer = "reading"
  BY <1>1 DEF Tick
<1>5. left \in [{"cli", "daemon", "peer"} -> Nat]
  BY DEF TypeOK
<1>6. left' \in [{"cli", "daemon", "peer"} -> Nat]
  BY <1>3, <1>5
<1>7. ASSUME NEW who \in {"cli", "daemon", "peer"}, Waiting[who], ~(who = "peer" /\ peer = "reading")
      PROVE  left[who] > 0 /\ left'[who] = left[who] - 1
  BY <1>3, <1>4, <1>5, <1>7
<1>. QED BY <1>2, <1>6, <1>7

-----------------------------------------------------------------------------
(* within_deadline: a phase never has more time than the call has left.    *)
WithinDeadline == Calling => left["daemon"] <= budget

(* Starting a phase keeps to the deadline; a phase that cannot start any   *)
(* more is answered with an error.                                         *)
LEMMA PhaseTypes ==
  ASSUME TypeOK, NEW phase \in {"connecting", "opening", "rpc"}, NEW secs \in Nat,
         Phase(phase, secs)
  PROVE  /\ left' \in [{"cli", "daemon", "peer"} -> Nat] /\ budget' \in Nat
         /\ left'["cli"] = left["cli"] /\ left'["peer"] = left["peer"]
         /\ \/ budget > 0 /\ daemon' = phase /\ UNCHANGED <<answer, budget>>
               /\ left'["daemon"] <= budget /\ (secs <= budget => left'["daemon"] = secs)
            \/ budget = 0 /\ daemon' = "writing" /\ answer' = "error" /\ budget' = 0
<1>1. Smaller(secs, budget) \in Nat /\ Smaller(secs, budget) <= budget
      /\ (secs <= budget => Smaller(secs, budget) = secs)
  BY DEF TypeOK, Smaller
<1>2. CASE budget > 0
  BY <1>1, <1>2 DEF TypeOK, Phase
<1>3. CASE ~(budget > 0)
  BY <1>3, SecsTypes DEF TypeOK, Phase, Answer
<1>. QED BY <1>2, <1>3

(* So does an answer, and a reply of the peer's. *)
LEMMA AnswerTypes ==
  ASSUME TypeOK, NEW what, Answer(what)
  PROVE  /\ left' \in [{"cli", "daemon", "peer"} -> Nat] /\ budget' = 0
         /\ left'["cli"] = left["cli"] /\ left'["peer"] = left["peer"]
         /\ daemon' = "writing" /\ answer' = what
BY SecsTypes DEF TypeOK, Answer

(* Init establishes the types. *)
LEMMA TypeInit == Init => TypeOK /\ WithinDeadline
<1>. SUFFICES ASSUME Init PROVE TypeOK /\ WithinDeadline
  OBVIOUS
<1>1. left \in [{"cli", "daemon", "peer"} -> Nat] /\ lag \in [{"near", "far"} -> 0..MarginSecs]
  BY SecsTypes DEF Init
<1>2. again \in BOOLEAN /\ ran \in BOOLEAN
  BY DEF Init
<1>. QED BY <1>1, <1>2 DEF Init, TypeOK, WithinDeadline, Calling

(* Every step keeps the types, and the phases within the deadline. *)
LEMMA TypeStep == TypeOK /\ WithinDeadline /\ [Next]_vars => TypeOK' /\ WithinDeadline'
<1>. SUFFICES ASSUME TypeOK, WithinDeadline, [Next]_vars PROVE TypeOK' /\ WithinDeadline'
  OBVIOUS
<1>. USE SecsTypes DEF client, caller, remote, history, Outcomes, WithinDeadline, Calling
<1>1. CASE Invoke
  <2>1. LocalSecs \in Nat
    OBVIOUS
  <2>2. left' \in [{"cli", "daemon", "peer"} -> Nat] /\ daemon' = "reading"
    BY <1>1, <2>1 DEF TypeOK, Invoke
  <2>. QED BY <1>1, <2>2 DEF TypeOK, Invoke
<1>2. CASE CliGivesUp
  BY <1>2 DEF TypeOK, CliGivesUp, Report, NoReply
<1>3. CASE DaemonGone
  BY <1>3 DEF TypeOK, DaemonGone, Report, NoReply
<1>4. CASE Answered
  BY <1>4 DEF TypeOK, Answered, Report
<1>5. CASE Reject
  BY <1>5, AnswerTypes DEF TypeOK, Reject
<1>6. CASE Forward
  <2>1. Smaller(DialSecs, CallSecs) = DialSecs
    BY DEF Smaller
  <2>. QED BY <1>6, <2>1 DEF TypeOK, Forward
<1>7. CASE Connected
  BY <1>7, PhaseTypes DEF TypeOK, Connected
<1>8. CASE Reconnect
  BY <1>8, PhaseTypes DEF TypeOK, Reconnect
<1>9. CASE Unsubmitted
  BY <1>9, AnswerTypes DEF TypeOK, Unsubmitted
<1>10. CASE Submit
  <2>1. RpcSecs \in Nat
    OBVIOUS
  <2>2. Phase("rpc", RpcSecs) /\ UNCHANGED <<cli, told, again, reply, ran, lag, faults>>
        /\ peer' \in {"none", "reading", "running", "writing", "over"}
    BY <1>10 DEF TypeOK, Submit
  <2>. QED BY <2>1, <2>2, PhaseTypes DEF TypeOK
<1>11. CASE RpcExpired \/ RpcLost
  <2>1. Answer("unknown") /\ UNCHANGED <<cli, told, again, peer, reply, ran, lag>>
        /\ faults' \subseteq {"near", "far"}
    BY <1>11 DEF TypeOK, RpcExpired, RpcLost
  <2>. QED BY <2>1, AnswerTypes DEF TypeOK
<1>12. ASSUME NEW secs \in 1..ExecSecs, Start(secs) PROVE TypeOK' /\ WithinDeadline'
  BY <1>12 DEF TypeOK, Start
<1>13. CASE Busy \/ Executed
  BY <1>13 DEF TypeOK, Busy, Executed, Reply
<1>14. CASE PeerGone
  BY <1>14 DEF TypeOK, PeerGone
<1>15. CASE Replied
  <2>1. left' \in [{"cli", "daemon", "peer"} -> Nat]
        /\ (daemon # "rpc" => left'["daemon"] = left["daemon"])
    <3>1. CASE daemon = "rpc"
      <4>1. left' = [left EXCEPT !["peer"] = 0, !["daemon"] = IoSecs]
        BY <1>15, <3>1 DEF Replied
      <4>2. left \in [{"cli", "daemon", "peer"} -> Nat] /\ IoSecs \in Nat
        BY DEF TypeOK
      <4>. QED BY <3>1, <4>1, <4>2
    <3>2. CASE daemon # "rpc"
      BY <1>15, <3>2 DEF TypeOK, Replied
    <3>. QED BY <3>1, <3>2
  <2>2. CASE daemon = "rpc"
    <3>1. daemon' = "writing" /\ answer' = reply /\ budget' = 0 /\ peer' = "over"
          /\ UNCHANGED <<cli, told, again, reply, ran, lag, faults>>
      BY <1>15, <2>2 DEF Replied
    <3>. QED BY <2>1, <3>1 DEF TypeOK
  <2>3. CASE daemon # "rpc"
    BY <1>15, <2>1, <2>3 DEF TypeOK, Replied
  <2>. QED BY <2>2, <2>3
<1>16. CASE Tick
  <2>1. /\ budget' = IF Calling THEN budget - 1 ELSE budget
        /\ UNCHANGED <<cli, told, daemon, answer, again, peer, reply, ran, faults>>
    BY <1>16 DEF Tick
  <2>2. left' \in [{"cli", "daemon", "peer"} -> Nat]
        /\ (Calling => left["daemon"] > 0 /\ left'["daemon"] = left["daemon"] - 1)
    BY <1>16, TickTimers
  <2>3. left["daemon"] \in Nat /\ budget \in Nat
    BY DEF TypeOK
  <2>4. budget' \in Nat /\ WithinDeadline'
    BY <2>1, <2>2, <2>3
  <2>5. lag' \in [{"near", "far"} -> 0..MarginSecs]
    BY <1>16 DEF TypeOK, Tick, Smaller
  <2>. QED BY <2>1, <2>2, <2>4, <2>5 DEF TypeOK
<1>17. CASE UNCHANGED vars
  BY <1>17 DEF TypeOK, vars
<1>. QED BY <1>1, <1>2, <1>3, <1>4, <1>5, <1>6, <1>7, <1>8, <1>9, <1>10, <1>11, <1>12, <1>13,
            <1>14, <1>15, <1>16, <1>17 DEF Next, Daemon, Peer, Terminated

(* Every participant's state has its type; in particular no phase of a     *)
(* call outlasts its deadline, which would make the budget negative.       *)
THEOREM TypeCorrect == Spec => [](TypeOK /\ WithinDeadline)
BY TypeInit, TypeStep, PTL DEF Spec

-----------------------------------------------------------------------------
(* How far the request got: the inductive invariant of ErrorMeansNotRun.   *)
(* Nothing is at the peer before the daemon submitted it; a refusal and a  *)
(* run exclude each other; and an error is answered only before anything   *)
(* was submitted, or as the peer's own.                                    *)
RequestInv ==
  /\ cli = "start" => daemon = "none"
  /\ peer # "none" => daemon \in {"rpc", "writing", "over"}
  /\ ran => peer \in {"running", "writing", "over"} /\ reply # "error"
  /\ reply # None => peer \in {"writing", "over"}
  /\ answer # None => daemon \in {"writing", "over"}
  /\ answer = "error" => ~ran /\ peer \in {"none", "over"}
  /\ told = "error" => answer = "error" /\ daemon = "over"

(* Every step keeps RequestInv. *)
LEMMA RequestStep == TypeOK /\ RequestInv /\ [Next]_vars => RequestInv'
<1>. SUFFICES ASSUME TypeOK, RequestInv, [Next]_vars PROVE RequestInv'
  OBVIOUS
<1>. USE NoOutcomeAssumption DEF client, caller, remote, history, Outcomes, RequestInv
<1>1. CASE Invoke
  BY <1>1 DEF TypeOK, Invoke
<1>2. CASE CliGivesUp
  BY <1>2 DEF CliGivesUp, Report, NoReply
<1>3. CASE DaemonGone
  BY <1>3 DEF DaemonGone, Report, NoReply
<1>4. CASE Answered
  BY <1>4 DEF Answered, Report
<1>5. CASE Reject \/ Unsubmitted
  BY <1>5, AnswerTypes DEF Reject, Unsubmitted, TypeOK
<1>6. CASE Forward
  BY <1>6 DEF Forward
<1>7. CASE Connected
  BY <1>7, PhaseTypes, SecsTypes DEF Connected, TypeOK
<1>8. CASE Reconnect
  BY <1>8, PhaseTypes, SecsTypes DEF Reconnect, TypeOK
<1>9. CASE Submit
  <2>1. RpcSecs \in Nat
    BY SecsTypes
  <2>2. daemon = "opening" /\ Phase("rpc", RpcSecs) /\ peer' = (IF budget > 0 THEN "reading" ELSE peer)
        /\ UNCHANGED <<cli, told, reply, ran>>
    BY <1>9 DEF Submit
  <2>3. cli # "start" /\ peer = "none" /\ ~ran /\ answer = None /\ told # "error"
    BY <2>2 DEF TypeOK
  <2>4. \/ budget > 0 /\ daemon' = "rpc" /\ answer' = answer
        \/ budget = 0 /\ daemon' = "writing" /\ answer' = "error"
    BY <2>1, <2>2, PhaseTypes
  <2>. QED BY <2>2, <2>3, <2>4
<1>10. CASE RpcExpired \/ RpcLost
  BY <1>10, AnswerTypes DEF RpcExpired, RpcLost, TypeOK
<1>11. ASSUME NEW secs \in 1..ExecSecs, Start(secs) PROVE RequestInv'
  BY <1>11 DEF Start, TypeOK
<1>12. CASE Busy \/ Executed
  BY <1>12 DEF Busy, Executed, Reply, TypeOK
<1>13. CASE PeerGone
  BY <1>13 DEF PeerGone, TypeOK
<1>14. CASE Replied
  BY <1>14 DEF Replied, TypeOK
<1>15. CASE Tick
  BY <1>15 DEF Tick
<1>16. CASE UNCHANGED vars
  BY <1>16 DEF vars
<1>. QED BY <1>1, <1>2, <1>3, <1>4, <1>5, <1>6, <1>7, <1>8, <1>9, <1>10, <1>11, <1>12, <1>13,
            <1>14, <1>15, <1>16 DEF Next, Daemon, Peer, Terminated

(* client.rs, dialer.rs and server.rs together: when the CLI reports an    *)
(* error that is not "unknown", the command has not run at the peer and    *)
(* is not waiting there either, so that it can safely be given again.      *)
THEOREM ErrorIsFinal == Spec => []ErrorMeansNotRun
<1>1. Init => RequestInv
  BY NoOutcomeAssumption DEF Init, RequestInv, Outcomes
<1>2. RequestInv => ErrorMeansNotRun
  BY DEF RequestInv, ErrorMeansNotRun
<1>. QED BY <1>1, <1>2, RequestStep, TypeCorrect, PTL DEF Spec

-----------------------------------------------------------------------------
(* What one second adds to the lag. *)
LEMMA TickLag ==
  ASSUME TypeOK, Tick
  PROVE  /\ lag'["near"] = (IF daemon \in {"reading", "writing"} /\ cli = "waiting"
                            THEN Smaller(lag["near"] + 1, MarginSecs) ELSE lag["near"])
         /\ lag'["far"] = (IF daemon = "rpc" /\ peer \in {"reading", "writing"}
                           THEN Smaller(lag["far"] + 1, MarginSecs) ELSE lag["far"])
BY DEF Tick

(* Where the CLI's time goes: the inductive invariant of                   *)
(* DaemonAnswersInTime.  While it waits, what is left to it exceeds what   *)
(* is left to the call by the margin, less the lag so far.                 *)
CliInv ==
  /\ cli = "start" => daemon = "none"
  /\ cli = "waiting" => daemon \notin {"none", "over"}
  /\ cli = "done" => "near" \in faults \/ lag["near"] = MarginSecs \/ (told = answer /\ daemon = "over")
  /\ ~Calling => budget = 0
  /\ cli = "waiting" /\ lag["near"] # MarginSecs
       => left["cli"] + lag["near"] >= MarginSecs + (IF daemon = "reading" THEN CallSecs ELSE budget)

(* Every step keeps CliInv. *)
LEMMA CliStep == TypeOK /\ WithinDeadline /\ CliInv /\ [Next]_vars => CliInv'
<1>. SUFFICES ASSUME TypeOK, WithinDeadline, CliInv, [Next]_vars PROVE CliInv'
  OBVIOUS
<1>. USE SecsTypes DEF client, caller, remote, history, Calling
<1>0. /\ left["cli"] \in Nat /\ left["daemon"] \in Nat /\ budget \in Nat
      /\ lag["near"] \in 0..MarginSecs
  BY DEF TypeOK
<1>1. CASE Invoke
  <2>1. left'["cli"] = LocalSecs /\ cli' = "waiting" /\ daemon' = "reading"
        /\ UNCHANGED <<budget, lag, faults>>
    BY <1>1 DEF TypeOK, Invoke
  <2>2. budget = 0
    BY <1>1 DEF CliInv, Invoke
  <2>. QED BY <1>0, <2>1, <2>2 DEF CliInv
<1>2. CASE CliGivesUp
  <2>1. cli = "waiting" /\ left["cli"] = 0
    BY <1>2 DEF CliGivesUp
  <2>2. lag["near"] = MarginSecs
    BY <1>0, <2>1 DEF CliInv
  <2>. QED BY <1>2, <2>1, <2>2 DEF CliInv, CliGivesUp, Report
<1>3. CASE DaemonGone
  BY <1>3 DEF CliInv, DaemonGone, Report
<1>4. CASE Answered
  <2>1. budget = 0 /\ cli # "start"
    BY <1>4 DEF CliInv, Answered
  <2>. QED BY <1>4, <2>1 DEF CliInv, TypeOK, Answered, Report
<1>5. ASSUME NEW what, Answer(what), daemon \in {"reading", "connecting", "opening", "rpc"},
             "near" \in faults => "near" \in faults', UNCHANGED <<cli, told, lag>>
      PROVE  CliInv'
  <2>1. daemon' = "writing" /\ budget' = 0 /\ left'["cli"] = left["cli"]
    BY <1>5, AnswerTypes
  <2>. QED BY <1>0, <1>5, <2>1 DEF CliInv
<1>6. CASE Reject \/ Unsubmitted \/ RpcExpired \/ RpcLost
  <2>1. \E what : Answer(what)
    BY <1>6 DEF Reject, Unsubmitted, RpcExpired, RpcLost
  <2>2. daemon \in {"reading", "connecting", "opening", "rpc"} /\ UNCHANGED <<cli, told, lag>>
        /\ ("near" \in faults => "near" \in faults')
    BY <1>6 DEF Reject, Unsubmitted, RpcExpired, RpcLost
  <2>. QED BY <1>5, <2>1, <2>2
<1>7. CASE Forward
  <2>1. daemon = "reading" /\ daemon' = "connecting" /\ budget' = CallSecs /\ left'["cli"] = left["cli"]
        /\ UNCHANGED <<cli, told, answer, lag, faults>>
    BY <1>7 DEF TypeOK, Forward
  <2>. QED BY <1>0, <2>1 DEF CliInv
<1>8. ASSUME NEW phase \in {"connecting", "opening", "rpc"}, NEW secs \in Nat, Phase(phase, secs),
             daemon \in {"connecting", "opening"}, UNCHANGED <<cli, told, lag, faults>>
      PROVE  CliInv'
  <2>1. /\ daemon' \in {"connecting", "opening", "rpc", "writing"} /\ left'["cli"] = left["cli"]
        /\ budget' = budget /\ (daemon' = "writing" => budget = 0)
    BY <1>8, PhaseTypes
  <2>. QED BY <1>0, <1>8, <2>1 DEF CliInv
<1>9. CASE Connected \/ Reconnect \/ Submit
  <2>1. RpcSecs \in Nat /\ DialSecs \in Nat /\ IoSecs \in Nat
    OBVIOUS
  <2>2. \E phase \in {"connecting", "opening", "rpc"}, secs \in Nat : Phase(phase, secs)
    BY <1>9, <2>1 DEF Connected, Reconnect, Submit
  <2>3. daemon \in {"connecting", "opening"} /\ UNCHANGED <<cli, told, lag, faults>>
    BY <1>9 DEF Connected, Reconnect, Submit
  <2>. QED BY <1>8, <2>2, <2>3
<1>10. CASE (\E secs \in 1..ExecSecs : Start(secs)) \/ Busy \/ Executed \/ PeerGone
  <2>1. left'["cli"] = left["cli"] /\ UNCHANGED <<cli, told, daemon, answer, again, budget, lag>>
        /\ ("near" \in faults => "near" \in faults')
    BY <1>10 DEF TypeOK, Start, Busy, Executed, Reply, PeerGone
  <2>. QED BY <2>1 DEF CliInv
<1>11. CASE Replied
  <2>1. left'["cli"] = left["cli"] /\ UNCHANGED <<cli, told, lag, faults>>
    BY <1>11 DEF TypeOK, Replied
  <2>2. CASE daemon = "rpc"
    <3>1. daemon' = "writing" /\ budget' = 0
      BY <1>11, <2>2 DEF Replied
    <3>. QED BY <1>0, <2>1, <2>2, <3>1 DEF CliInv
  <2>3. CASE daemon # "rpc"
    <3>1. UNCHANGED <<daemon, answer, budget>>
      BY <1>11, <2>3 DEF Replied
    <3>. QED BY <2>1, <3>1 DEF CliInv
  <2>. QED BY <2>2, <2>3
<1>12. CASE Tick
  <2>1. /\ budget' = IF Calling THEN budget - 1 ELSE budget
        /\ UNCHANGED <<cli, told, daemon, answer, faults>>
    BY <1>12 DEF Tick
  <2>2. /\ cli = "waiting" => left'["cli"] = left["cli"] - 1
        /\ Calling => left["daemon"] > 0
    BY <1>12, TickTimers
  <2>3. lag'["near"] = (IF daemon \in {"reading", "writing"} /\ cli = "waiting"
                        THEN Smaller(lag["near"] + 1, MarginSecs) ELSE lag["near"])
    BY <1>12, TickLag
  <2>4. lag["near"] = MarginSecs => lag'["near"] = MarginSecs
    BY <2>3 DEF Smaller
  <2>5. ASSUME cli = "waiting", lag'["near"] # MarginSecs
        PROVE  left'["cli"] + lag'["near"] >= MarginSecs + (IF daemon = "reading" THEN CallSecs ELSE budget')
    <3>1. left["cli"] + lag["near"] >= MarginSecs + (IF daemon = "reading" THEN CallSecs ELSE budget)
      BY <2>4, <2>5 DEF CliInv
    <3>2. CASE daemon \in {"reading", "writing"}
      <4>1. lag'["near"] = lag["near"] + 1 /\ budget' = budget
        BY <1>0, <2>1, <2>3, <2>5, <3>2 DEF Smaller
      <4>. QED BY <1>0, <2>2, <2>5, <3>1, <4>1
    <3>3. CASE daemon \in {"connecting", "opening", "rpc"}
      <4>1. lag'["near"] = lag["near"] /\ budget' = budget - 1
        BY <2>1, <2>3, <3>3
      <4>. QED BY <1>0, <2>2, <2>5, <3>1, <3>3, <4>1
    <3>. QED BY <2>5, <3>2, <3>3 DEF CliInv, TypeOK
  <2>. QED BY <2>1, <2>4, <2>5 DEF CliInv
<1>13. CASE UNCHANGED vars
  BY <1>13 DEF CliInv, vars
<1>. QED BY <1>1, <1>2, <1>3, <1>4, <1>6, <1>7, <1>9, <1>10, <1>11, <1>12, <1>13
         DEF Next, Daemon, Peer, Terminated

(* transport.rs, LOCAL_TIMEOUT: for any limits, the CLI reports what its   *)
(* daemon answers unless the daemon is lost or the way to it takes the     *)
(* whole margin; a second connection does not make it wait for less.       *)
THEOREM CliOutwaitsDaemon == Spec => []DaemonAnswersInTime
<1>1. Init => CliInv
  BY DEF Init, CliInv, Calling
<1>2. CliInv => DaemonAnswersInTime
  BY DEF CliInv, DaemonAnswersInTime
<1>. QED BY <1>1, <1>2, CliStep, TypeCorrect, PTL DEF Spec

-----------------------------------------------------------------------------
(* The call goes as transport.rs plans it: on the first connection, with   *)
(* nothing lost and the margin not used up.                                *)
Undisturbed == ~again /\ "far" \notin faults /\ lag["far"] # MarginSecs

(* What the peer may still need before its reply is on the way. *)
Work == CASE peer = "reading" -> ExecSecs
          [] peer = "running" -> left["peer"]
          [] OTHER -> 0

(* Where the call's time goes: the inductive invariant of                  *)
(* PeerAnswersInTime.  Dialing and opening leave the later phases theirs,  *)
(* and the wait for the reply exceeds the peer's work by the margin, less  *)
(* the lag so far.                                                         *)
CallInv ==
  /\ peer # "none" => daemon \in {"rpc", "writing", "over"}
  /\ answer # None => daemon \in {"writing", "over"}
  /\ Undisturbed =>
       /\ answer # "unknown"
       /\ daemon = "connecting" => budget >= left["daemon"] + IoSecs + RpcSecs
       /\ daemon = "opening" => budget >= left["daemon"] + RpcSecs
       /\ daemon = "rpc" => peer \in {"reading", "running", "writing"}
       /\ daemon = "rpc" => left["daemon"] + lag["far"] >= MarginSecs + Work

(* Every step keeps CallInv. *)
LEMMA CallStep == TypeOK /\ WithinDeadline /\ RequestInv /\ CallInv /\ [Next]_vars => CallInv'
<1>. SUFFICES ASSUME TypeOK, WithinDeadline, RequestInv, CallInv, [Next]_vars PROVE CallInv'
  OBVIOUS
<1>. USE SecsTypes, NoOutcomeAssumption DEF client, caller, remote, history, Outcomes
<1>0. /\ left["peer"] \in Nat /\ left["daemon"] \in Nat /\ budget \in Nat
      /\ lag["far"] \in 0..MarginSecs
  BY DEF TypeOK
<1>1. CASE Invoke
  <2>1. cli = "start" /\ daemon' = "reading" /\ UNCHANGED <<answer, again, peer, lag, faults>>
    BY <1>1 DEF Invoke
  <2>2. daemon = "none" /\ peer = "none" /\ answer = None
    BY <2>1 DEF RequestInv
  <2>. QED BY <2>1, <2>2 DEF CallInv
<1>2. CASE CliGivesUp
  BY <1>2 DEF CallInv, Undisturbed, Work, CliGivesUp
<1>3. CASE DaemonGone \/ Answered
  <2>1. daemon' = "over" /\ UNCHANGED <<answer, again, peer, lag>>
        /\ ("far" \in faults => "far" \in faults')
    BY <1>3 DEF DaemonGone, Answered
  <2>. QED BY <2>1 DEF CallInv, Undisturbed
<1>4. CASE Reject \/ Unsubmitted
  <2>1. Answer("error") /\ UNCHANGED <<again, peer, lag, faults>>
    BY <1>4 DEF Reject, Unsubmitted
  <2>. QED BY <2>1, AnswerTypes DEF CallInv, Undisturbed
<1>5. CASE Forward
  <2>1. Smaller(DialSecs, CallSecs) = DialSecs
    BY DEF Smaller
  <2>2. daemon = "reading" /\ daemon' = "connecting" /\ budget' = CallSecs /\ left'["daemon"] = DialSecs
        /\ UNCHANGED <<answer, again, peer, lag, faults>>
    BY <1>5, <2>1 DEF TypeOK, Forward
  <2>. QED BY <2>2 DEF CallInv, Undisturbed
<1>6. CASE Connected
  <2>1. daemon = "connecting" /\ Phase("opening", IoSecs) /\ UNCHANGED <<again, peer, lag, faults>>
    BY <1>6 DEF Connected
  <2>2. \/ budget > 0 /\ daemon' = "opening" /\ UNCHANGED <<answer, budget>>
           /\ (IoSecs <= budget => left'["daemon"] = IoSecs)
        \/ budget = 0 /\ daemon' = "writing" /\ answer' = "error" /\ budget' = 0
    BY <2>1, PhaseTypes
  <2>. QED BY <1>0, <2>1, <2>2 DEF CallInv, Undisturbed
<1>7. CASE Reconnect
  <2>1. daemon = "opening" /\ again' = TRUE /\ Phase("connecting", DialSecs) /\ UNCHANGED <<peer, lag, faults>>
    BY <1>7 DEF Reconnect
  <2>2. \/ daemon' = "connecting" /\ UNCHANGED <<answer, budget>>
        \/ daemon' = "writing" /\ answer' = "error" /\ budget' = 0
    BY <2>1, PhaseTypes
  <2>. QED BY <2>1, <2>2 DEF CallInv, Undisturbed
<1>8. CASE Submit
  <2>1. daemon = "opening" /\ Phase("rpc", RpcSecs) /\ UNCHANGED <<again, lag, faults>>
        /\ peer' = (IF budget > 0 THEN "reading" ELSE peer)
    BY <1>8 DEF Submit
  <2>2. RpcSecs \in Nat
    OBVIOUS
  <2>3. \/ budget > 0 /\ daemon' = "rpc" /\ UNCHANGED <<answer, budget>>
           /\ (RpcSecs <= budget => left'["daemon"] = RpcSecs)
        \/ budget = 0 /\ daemon' = "writing" /\ answer' = "error" /\ budget' = 0
    BY <2>1, <2>2, PhaseTypes
  <2>4. CASE budget > 0
    <3>1. Work' = ExecSecs
      BY <2>1, <2>4 DEF Work
    <3>2. Undisturbed' => left'["daemon"] = RpcSecs
      BY <1>0, <2>1, <2>3, <2>4 DEF CallInv, Undisturbed
    <3>3. answer = None
      BY <2>1 DEF CallInv
    <3>. QED BY <1>0, <2>1, <2>3, <2>4, <3>1, <3>2, <3>3 DEF CallInv, Undisturbed
  <2>5. CASE ~(budget > 0)
    BY <2>1, <2>3, <2>5 DEF CallInv, Undisturbed
  <2>. QED BY <2>4, <2>5
<1>9. CASE RpcExpired
  <2>1. daemon = "rpc" /\ left["daemon"] = 0 /\ Answer("unknown") /\ UNCHANGED <<again, peer, lag, faults>>
    BY <1>9 DEF RpcExpired
  <2>2. Work \in Nat
    BY <1>0 DEF Work
  <2>3. ~Undisturbed
    BY <1>0, <2>1, <2>2 DEF CallInv, Undisturbed
  <2>. QED BY <2>1, <2>3, AnswerTypes DEF CallInv, Undisturbed
<1>10. CASE RpcLost
  <2>1. daemon = "rpc" /\ Answer("unknown") /\ "far" \in faults' /\ UNCHANGED <<again, peer, lag>>
    BY <1>10 DEF RpcLost
  <2>. QED BY <2>1, AnswerTypes DEF CallInv, Undisturbed
<1>11. ASSUME NEW secs \in 1..ExecSecs, Start(secs) PROVE CallInv'
  <2>1. peer = "reading" /\ peer' = "running" /\ left'["peer"] = secs /\ left'["daemon"] = left["daemon"]
        /\ UNCHANGED <<daemon, answer, again, budget, lag, faults>>
    BY <1>11 DEF TypeOK, Start
  <2>2. Work = ExecSecs /\ Work' = secs
    BY <2>1 DEF Work
  <2>. QED BY <1>0, <2>1, <2>2 DEF CallInv, Undisturbed
<1>12. CASE Busy \/ Executed
  <2>1. peer \in {"reading", "running"} /\ peer' = "writing" /\ left'["daemon"] = left["daemon"]
        /\ UNCHANGED <<daemon, answer, again, budget, lag, faults>>
    BY <1>12 DEF TypeOK, Busy, Executed, Reply
  <2>2. Work \in Nat /\ Work' = 0
    BY <1>0, <2>1 DEF Work
  <2>. QED BY <1>0, <2>1, <2>2 DEF CallInv, Undisturbed
<1>13. CASE PeerGone
  <2>1. peer # "none" /\ "far" \in faults' /\ UNCHANGED <<daemon, answer>>
    BY <1>13 DEF PeerGone
  <2>. QED BY <2>1 DEF CallInv, Undisturbed
<1>14. CASE Replied
  <2>1. peer = "writing" /\ peer' = "over" /\ UNCHANGED <<again, lag, faults>>
    BY <1>14 DEF Replied
  <2>2. CASE daemon = "rpc"
    <3>1. daemon' = "writing" /\ answer' = reply
      BY <1>14, <2>2 DEF Replied
    <3>2. reply # "unknown"
      BY DEF TypeOK
    <3>. QED BY <2>1, <3>1, <3>2 DEF CallInv, Undisturbed
  <2>3. CASE daemon # "rpc"
    <3>1. UNCHANGED <<daemon, answer, budget>>
      BY <1>14, <2>3 DEF Replied
    <3>2. daemon \in {"writing", "over"}
      BY <2>1, <2>3 DEF CallInv
    <3>. QED BY <2>1, <3>1, <3>2 DEF CallInv, Undisturbed
  <2>. QED BY <2>2, <2>3
<1>15. CASE Tick
  <2>1. /\ budget' = IF Calling THEN budget - 1 ELSE budget
        /\ UNCHANGED <<daemon, answer, again, peer, faults>>
    BY <1>15 DEF Tick
  <2>2. /\ Calling => left["daemon"] > 0 /\ left'["daemon"] = left["daemon"] - 1
        /\ peer \in {"running", "writing"} => left["peer"] > 0 /\ left'["peer"] = left["peer"] - 1
    BY <1>15, TickTimers DEF Calling
  <2>3. lag'["far"] = (IF daemon = "rpc" /\ peer \in {"reading", "writing"}
                       THEN Smaller(lag["far"] + 1, MarginSecs) ELSE lag["far"])
    BY <1>15, TickLag
  <2>4. lag["far"] = MarginSecs => lag'["far"] = MarginSecs
    BY <2>3 DEF Smaller
  <2>5. Undisturbed' => Undisturbed
    BY <2>1, <2>4 DEF Undisturbed
  <2>6. CASE daemon = "rpc" /\ Undisturbed'
    <3>1. left["daemon"] + lag["far"] >= MarginSecs + Work /\ peer \in {"reading", "running", "writing"}
      BY <2>5, <2>6 DEF CallInv
    <3>2. CASE peer = "running"
      <4>1. Work = left["peer"] /\ Work' = left["peer"] - 1 /\ lag'["far"] = lag["far"]
        BY <2>1, <2>2, <2>3, <3>2 DEF Work
      <4>. QED BY <1>0, <2>1, <2>2, <2>5, <2>6, <3>1, <4>1 DEF CallInv, Calling
    <3>3. CASE peer \in {"reading", "writing"}
      <4>1. Work' = Work /\ Work \in Nat
        BY <1>0, <2>1, <3>3 DEF Work
      <4>2. lag'["far"] = lag["far"] + 1
        BY <1>0, <2>3, <2>6, <3>3 DEF Smaller, Undisturbed
      <4>. QED BY <1>0, <2>1, <2>2, <2>5, <2>6, <3>1, <4>1, <4>2 DEF CallInv, Calling
    <3>. QED BY <3>1, <3>2, <3>3
  <2>7. CASE ~(daemon = "rpc" /\ Undisturbed')
    BY <1>0, <2>1, <2>2, <2>5, <2>7 DEF CallInv, Calling
  <2>. QED BY <2>6, <2>7
<1>16. CASE UNCHANGED vars
  BY <1>16 DEF CallInv, Undisturbed, Work, vars
<1>. QED BY <1>1, <1>2, <1>3, <1>4, <1>5, <1>6, <1>7, <1>8, <1>9, <1>10, <1>11, <1>12, <1>13,
            <1>14, <1>15, <1>16 DEF Next, Daemon, Peer, Terminated

(* transport.rs, RPC_TIMEOUT and CALL_TIMEOUT: for any limits, an exec on  *)
(* the first connection is "unknown" only if the peer or the connection    *)
(* was lost or the way took the whole margin, however long the queue, the  *)
(* dial, the opening and the command took.                                 *)
THEOREM CallOutwaitsPeer == Spec => []PeerAnswersInTime
<1>1. Init => RequestInv
  BY NoOutcomeAssumption DEF Init, RequestInv, Outcomes
<1>2. Init => CallInv
  BY NoOutcomeAssumption DEF Init, CallInv, Outcomes
<1>3. CallInv => PeerAnswersInTime
  BY DEF CallInv, Undisturbed, PeerAnswersInTime
<1>. QED BY <1>1, <1>2, <1>3, RequestStep, CallStep, TypeCorrect, PTL DEF Spec

=============================================================================
