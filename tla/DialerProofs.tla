---------------------------- MODULE DialerProofs ----------------------------
(* Theorems about Dialer, for any callers, peers and timeouts.             *)
EXTENDS Dialer, TLAPS

(* A connection's name is not None, and a call can name its own.           *)
LEMMA ConnNames ==
  /\ None \notin Conns
  /\ \A c \in Callers : \A a \in Attempts : <<c, a>> \in Conns
BY NoConnAssumption DEF Conns, Attempts

(* A close reason is reported as some failure kind. *)
LEMMA KindType == \A reason : connection_kind(reason) \in Kinds
BY DEF connection_kind, Kinds

(* The failures that are recorded. *)
Failures == [submitted : BOOLEAN, kind : Kinds, dead : BOOLEAN]

(* Records built by Begin, Fail and Return are failures. *)
LEMMA FailureTypes ==
  /\ NotFailed \in Failures
  /\ [NotFailed EXCEPT !.kind = "timeout"] \in Failures
  /\ \A b, d \in BOOLEAN, k \in Kinds : [submitted |-> b, kind |-> k, dead |-> d] \in Failures
BY DEF NotFailed, Failures, Kinds

(* The limits and the sum of them are positive numbers. *)
LEMMA LimitTypes ==
  /\ DialLimit \in Nat /\ IoLimit \in Nat /\ RpcLimit \in Nat /\ CallLimit \in Nat
  /\ DialLimit > 0 /\ IoLimit > 0 /\ RpcLimit > 0
  /\ DialLimit <= CallLimit
BY LimitsAssumption DEF CallLimit

(* What letting go of a connection and ending a call leave behind.         *)
LEMMA LetGoType ==
  ASSUME TypeOK, NEW c \in Callers, LetGo(c)
  PROVE  conn' \in [Conns -> {"none", "open"} \cup CloseReasons]
BY DEF TypeOK, LetGo

(* The same for the whole of what a call holds. *)
LEMMA DropTypes ==
  ASSUME TypeOK, NEW c \in Callers, Drop(c)
  PROVE  /\ left' \in [Callers -> Nat]
         /\ budget' \in [Callers -> Int]
         /\ spent' \in [Callers -> Nat]
         /\ attempt' \in [Callers -> Attempts]
         /\ via' \in [Callers -> Conns \cup {None}]
         /\ \A d \in Callers : d # c => via'[d] = via[d]
         /\ reused' \in [Callers -> BOOLEAN]
         /\ failed' \in [Callers -> [submitted : BOOLEAN, kind : Kinds, dead : BOOLEAN]]
         /\ conn' \in [Conns -> {"none", "open"} \cup CloseReasons]
<1>1. conn' \in [Conns -> {"none", "open"} \cup CloseReasons]
  BY LetGoType DEF Drop
<1>. QED BY <1>1, FailureTypes DEF TypeOK, Drop, Failures, Attempts

(* So ending a call keeps the types. *)
LEMMA EndType ==
  ASSUME TypeOK, NEW c \in Callers, Drop(c), NEW s \in {"done", "gone"},
         pc' = [pc EXCEPT ![c] = s],
         \/ result' = result
         \/ \E r \in {"ok", "busy", "err", "unknown"} : result' = [result EXCEPT ![c] = r],
         UNCHANGED <<req, peer, cached, remote>>
  PROVE  TypeOK'
<1>1. pc' \in [Callers -> {"idle", "queue", "dial", "open", "rpc", "failed", "done", "gone"}]
  BY DEF TypeOK
<1>2. \A d \in Callers : /\ Active(d)' => peer'[d] \in Peers
                         /\ pc'[d] \in {"open", "rpc"} => via'[d] # None
  BY DropTypes DEF TypeOK, Active
<1>3. result' \in [Callers -> {"ok", "busy", "err", "unknown", None}]
  BY DEF TypeOK
<1>4. UNCHANGED <<req, peer, cached, remote>>
  OBVIOUS
<1>5. TypeOK
  OBVIOUS
<1>. QED BY <1>1, <1>2, <1>3, <1>4, <1>5, DropTypes DEF TypeOK, Active

-----------------------------------------------------------------------------
(* Init establishes the types. *)
LEMMA TypeInit == Init => TypeOK
BY FailureTypes, ConnNames
DEF Init, TypeOK, Failures, Kinds, Attempts, Active, Conns, Earlier

(* Every step keeps the types. *)
LEMMA TypeStep == TypeOK /\ [Next]_vars => TypeOK'
<1>. SUFFICES ASSUME TypeOK, [Next]_vars PROVE TypeOK'
  OBVIOUS
<1>. USE ConnNames, LimitTypes, NamesAssumption DEF Active, Attempts, call, route, net
<1>1. ASSUME NEW c \in Callers, NEW r \in {"exec", "query"}, NEW p \in Peers \cup {Stranger},
             Call(c, r, p)
      PROVE  TypeOK'
  <2>1. CASE p \in Peers
    <3>1. /\ pc' = [pc EXCEPT ![c] = "queue"]
          /\ req' = [req EXCEPT ![c] = r] /\ peer' = [peer EXCEPT ![c] = p]
          /\ budget' = [budget EXCEPT ![c] = CallLimit]
          /\ left' = [left EXCEPT ![c] = Smaller(DialLimit, CallLimit)]
          /\ UNCHANGED <<attempt, spent, via, reused, failed, result, conn, cached, remote>>
      BY <1>1, <2>1 DEF Call
    <3>2. Smaller(DialLimit, CallLimit) \in Nat
      BY DEF Smaller
    <3>. QED BY <2>1, <3>1, <3>2 DEF TypeOK
  <2>2. CASE p \notin Peers
    <3>1. /\ Drop(c) /\ pc' = [pc EXCEPT ![c] = "done"]
          /\ req' = [req EXCEPT ![c] = r] /\ peer' = [peer EXCEPT ![c] = p]
          /\ result' = [result EXCEPT ![c] = "err"] /\ UNCHANGED <<cached, remote>>
      BY <1>1, <2>2 DEF TypeOK, Call, Return
    <3>. QED BY <3>1, DropTypes DEF TypeOK
  <2>. QED BY <2>1, <2>2
<1>2. ASSUME NEW c \in Callers, Step(c) PROVE TypeOK'
  <2>1. CASE Reuse(c)
    BY <2>1, FailureTypes DEF TypeOK, Reuse, Reusable, Begin, Phase, Smaller, Failures
  <2>2. CASE Dial(c)
    BY <2>2 DEF TypeOK, Dial
  <2>3. CASE Connected(c)
    <3>1. <<c, attempt[c]>> \in Conns /\ peer[c] \in Peers
      BY <2>3 DEF TypeOK, Connected
    <3>2. /\ left' \in [Callers -> Nat]
          /\ failed' \in [Callers -> [submitted : BOOLEAN, kind : Kinds, dead : BOOLEAN]]
          /\ pc' = [pc EXCEPT ![c] = IF budget[c] > 0 THEN "open" ELSE "failed"]
      BY <2>3, FailureTypes DEF TypeOK, Connected, Begin, Phase, Smaller, Failures
    <3>. QED BY <2>3, <3>1, <3>2 DEF TypeOK, Connected
  <2>4. CASE ConnectFailed(c) \/ NotConnected(c)
    BY <2>4, EndType DEF ConnectFailed, NotConnected, Return
  <2>5. CASE Submit(c)
    BY <2>5, FailureTypes DEF TypeOK, Submit, Begin, Phase, Smaller, Failures
  <2>6. CASE ConnectionDied(c)
    BY <2>6, FailureTypes, KindType DEF TypeOK, ConnectionDied, Fail, Failures
  <2>7. CASE Expired(c)
    BY <2>7, FailureTypes DEF TypeOK, Expired, Fail, Failures, Kinds
  <2>8. CASE Respond(c)
    BY <2>8, EndType DEF Respond, Return
  <2>9. ASSUME NEW kind \in {"connection_lost", "other"}, StreamFailed(c, kind) PROVE TypeOK'
    BY <2>9, FailureTypes DEF TypeOK, StreamFailed, Fail, Failures, Kinds
  <2>10. CASE Retry(c)
    BY <2>10, FailureTypes, LetGoType DEF TypeOK, Retry, Begin, Phase, Smaller, Failures
  <2>11. CASE GiveUp(c)
    BY <2>11, EndType DEF GiveUp, Reported, Return
  <2>. QED
    BY <1>2, <2>1, <2>2, <2>3, <2>4, <2>5, <2>6, <2>7, <2>8, <2>9, <2>10, <2>11 DEF Step
<1>3. ASSUME NEW c \in Callers, Cancel(c) PROVE TypeOK'
  BY <1>3, EndType DEF Cancel
<1>4. CASE Environment
  <2>1. ASSUME NEW c \in Callers, NEW a \in Attempts, PeerRuns(c, a) \/ PeerBusy(c, a)
        PROVE  TypeOK'
    <3>1. remote' \in [Callers -> [Attempts -> {"none", "sent", "ran", "busy"}]]
      <4>1. CASE PeerRuns(c, a)
        BY <4>1 DEF TypeOK, PeerRuns
      <4>2. CASE PeerBusy(c, a)
        BY <4>2 DEF TypeOK, PeerBusy
      <4>. QED BY <2>1, <4>1, <4>2
    <3>. QED BY <2>1, <3>1 DEF TypeOK, PeerRuns, PeerBusy
  <2>2. ASSUME NEW i \in Conns, NEW reason \in CloseReasons, ConnectionCloses(i, reason)
        PROVE  TypeOK'
    BY <2>2 DEF TypeOK, ConnectionCloses
  <2>. QED BY <1>4, <2>1, <2>2 DEF Environment
<1>5. CASE Tick
  BY <1>5 DEF TypeOK, Tick
<1>6. CASE Terminated \/ UNCHANGED vars
  BY <1>6 DEF TypeOK, Terminated, vars
<1>. QED
  BY <1>1, <1>2, <1>3, <1>4, <1>5, <1>6 DEF Next

(* Every variable keeps its type, in every reachable state. *)
THEOREM TypeCorrect == Spec => []TypeOK
BY TypeInit, TypeStep, PTL DEF Spec

-----------------------------------------------------------------------------
(* Within a call, what is left of the deadline and what was spent add up,  *)
(* and no timer reaches past the deadline.  ReturnsByDeadline alone does   *)
(* not tell Phase how much of the deadline is left.                        *)
DeadlineInv ==
  \A c \in Callers :
    /\ Active(c) => /\ budget[c] >= 0
                    /\ budget[c] + spent[c] = CallLimit
                    /\ left[c] <= budget[c]
    /\ ~Active(c) => spent[c] = 0

(* Every step keeps the accounts of time. *)
LEMMA DeadlineStep == TypeOK /\ DeadlineInv /\ [Next]_vars => DeadlineInv'
<1>. SUFFICES ASSUME TypeOK, DeadlineInv, [Next]_vars PROVE DeadlineInv'
  OBVIOUS
<1>. /\ pc \in [Callers -> {"idle", "queue", "dial", "open", "rpc", "failed", "done", "gone"}]
     /\ budget \in [Callers -> Int] /\ left \in [Callers -> Nat] /\ spent \in [Callers -> Nat]
  BY DEF TypeOK
<1>. USE LimitTypes DEF DeadlineInv, Active, call, route, net
<1>1. ASSUME NEW c \in Callers, NEW r \in {"exec", "query"}, NEW p \in Peers \cup {Stranger},
             Call(c, r, p)
      PROVE  DeadlineInv'
  BY <1>1 DEF Call, Return, Drop, Smaller
<1>2. ASSUME NEW c \in Callers, Step(c) PROVE DeadlineInv'
  <2>1. CASE Reuse(c)
    BY <2>1 DEF Reuse, Begin, Phase, Smaller
  <2>7. CASE Connected(c)
    BY <2>7 DEF Connected, Begin, Phase, Smaller
  <2>8. CASE Submit(c)
    BY <2>8 DEF Submit, Begin, Phase, Smaller
  <2>2. CASE Dial(c)
    BY <2>2 DEF Dial
  <2>3. CASE ConnectFailed(c) \/ NotConnected(c) \/ Respond(c) \/ GiveUp(c)
    <3>1. Drop(c) /\ pc' = [pc EXCEPT ![c] = "done"]
      BY <2>3 DEF ConnectFailed, NotConnected, Respond, GiveUp, Return
    <3>. QED BY <3>1 DEF Drop
  <2>4. CASE ConnectionDied(c) \/ Expired(c)
    BY <2>4 DEF ConnectionDied, Expired, Fail
  <2>5. ASSUME NEW kind \in {"connection_lost", "other"}, StreamFailed(c, kind)
        PROVE  DeadlineInv'
    BY <2>5 DEF StreamFailed, Fail
  <2>6. CASE Retry(c)
    BY <2>6 DEF Retry, Begin, Phase, Smaller
  <2>. QED BY <1>2, <2>1, <2>2, <2>3, <2>4, <2>5, <2>6, <2>7, <2>8 DEF Step
<1>3. ASSUME NEW c \in Callers, Cancel(c) PROVE DeadlineInv'
  BY <1>3 DEF Cancel, Drop
<1>4. CASE Environment
  BY <1>4 DEF Environment, PeerRuns, PeerBusy, ConnectionCloses
<1>5. CASE Tick
  BY <1>5 DEF Tick
<1>6. CASE Terminated \/ UNCHANGED vars
  BY <1>6 DEF Terminated, vars
<1>. QED
  BY <1>1, <1>2, <1>3, <1>4, <1>5, <1>6 DEF Next

(* No call takes longer than its deadline, for any limits: queueing,       *)
(* dialing, opening, waiting and a retry all draw on one budget.           *)
THEOREM ReturnsByDeadlineHolds == Spec => []ReturnsByDeadline
<1>1. Init => DeadlineInv
  BY LimitTypes DEF Init, DeadlineInv, Active
<1>2. TypeOK /\ DeadlineInv => ReturnsByDeadline
  <2>. SUFFICES ASSUME TypeOK, DeadlineInv PROVE ReturnsByDeadline
    OBVIOUS
  <2>1. budget \in [Callers -> Int] /\ left \in [Callers -> Nat] /\ spent \in [Callers -> Nat]
    BY DEF TypeOK
  <2>2. ASSUME NEW c \in Callers
        PROVE  spent[c] <= CallLimit /\ (Active(c) => left[c] <= CallLimit - spent[c])
    BY <2>1, LimitTypes DEF DeadlineInv
  <2>. QED BY <2>2 DEF ReturnsByDeadline
<1>. QED
  BY <1>1, <1>2, DeadlineStep, TypeInit, TypeStep, PTL DEF Spec

-----------------------------------------------------------------------------
(* Where an exec can be when its call is where it is.  Before the RPC      *)
(* phase nothing was sent, on the second attempt neither; in it, and after *)
(* it failed, only the current attempt was, and Failed says so; what the   *)
(* caller was told is what the peer did.                                   *)
Silent(c) == \A a \in Attempts : remote[c][a] = "none"
AtMostOneSent(c) ==
  \A a, b \in Attempts : remote[c][a] # "none" /\ remote[c][b] # "none" => a = b
ExecState(c) ==
  /\ req[c] # "exec" => Silent(c)
  /\ AtMostOneSent(c)
  /\ pc[c] = "idle" => req[c] = None /\ result[c] = None
  /\ pc[c] # "idle" => req[c] # None
  /\ pc[c] = "done" <=> result[c] # None
  /\ pc[c] \in {"queue", "dial", "open"} => Silent(c)
  /\ pc[c] = "rpc" /\ req[c] = "exec" => remote[c][attempt[c]] # "none"
  /\ pc[c] = "failed" /\ req[c] = "exec" =>
       IF failed[c].submitted THEN remote[c][attempt[c]] # "none" ELSE Silent(c)
  /\ pc[c] = "done" /\ req[c] = "exec" =>
       /\ result[c] = "err" => Silent(c)
       /\ result[c] = "ok" => \E a \in Attempts : remote[c][a] = "ran"
       /\ result[c] = "busy" => \E a \in Attempts : remote[c][a] = "busy"
       /\ result[c] = "unknown" => ~Silent(c)

ExecInv == \A c \in Callers : ExecState(c)

(* A step that leaves a call alone leaves its exec alone. *)
LEMMA ExecFrame ==
  ASSUME NEW c \in Callers, ExecState(c),
         pc'[c] = pc[c], req'[c] = req[c], attempt'[c] = attempt[c],
         failed'[c] = failed[c], result'[c] = result[c], remote'[c] = remote[c]
  PROVE  ExecState(c)'
BY DEF ExecState, Silent, AtMostOneSent

(* Every step keeps execs and calls together. *)
LEMMA ExecStep == TypeOK /\ ExecInv /\ [Next]_vars => ExecInv'
<1>. SUFFICES ASSUME TypeOK, ExecInv, [Next]_vars, NEW e \in Callers PROVE ExecState(e)'
  BY DEF ExecInv
<1>. ExecState(e)
  BY DEF ExecInv
<1>. USE NoneAssumption DEF call, route, net
<1>1. ASSUME NEW c \in Callers, NEW r \in {"exec", "query"}, NEW p \in Peers \cup {Stranger},
             Call(c, r, p)
      PROVE  ExecState(e)'
  <2>1. CASE e # c
    BY <1>1, <2>1, ExecFrame DEF Call, Return, Drop, TypeOK
  <2>2. CASE e = c
    BY <1>1, <2>2 DEF Call, Return, Drop, TypeOK, ExecState, Silent, AtMostOneSent
  <2>. QED BY <2>1, <2>2
<1>2. ASSUME NEW c \in Callers, Step(c), e # c PROVE ExecState(e)'
  <2>1. CASE Reuse(c) \/ Connected(c) \/ Submit(c) \/ Dial(c) \/ Retry(c)
    BY <1>2, <2>1, ExecFrame DEF Reuse, Connected, Submit, Dial, Retry, Begin, TypeOK
  <2>2. CASE ConnectFailed(c) \/ NotConnected(c) \/ Respond(c) \/ GiveUp(c)
    BY <1>2, <2>2, ExecFrame
    DEF ConnectFailed, NotConnected, Respond, GiveUp, Return, Drop, TypeOK
  <2>3. CASE \/ ConnectionDied(c) \/ Expired(c)
             \/ \E kind \in {"connection_lost", "other"} : StreamFailed(c, kind)
    BY <1>2, <2>3, ExecFrame DEF ConnectionDied, Expired, StreamFailed, Fail, TypeOK
  <2>. QED BY <1>2, <2>1, <2>2, <2>3 DEF Step
<1>3. ASSUME Step(e) PROVE ExecState(e)'
  <2>. USE DEF ExecState, Silent, AtMostOneSent, TypeOK, Attempts
  <2>1. CASE Reuse(e)
    BY <2>1 DEF Reuse, Begin, NotFailed
  <2>2. CASE Dial(e)
    BY <2>2 DEF Dial
  <2>3. CASE Connected(e)
    BY <2>3 DEF Connected, Begin, NotFailed
  <2>4. CASE ConnectFailed(e) \/ NotConnected(e)
    BY <2>4 DEF ConnectFailed, NotConnected, Return, Drop
  <2>5. CASE Submit(e)
    BY <2>5 DEF Submit, Begin, NotFailed
  <2>6. CASE ConnectionDied(e) \/ Expired(e)
    <3>1. /\ pc' = [pc EXCEPT ![e] = "failed"]
          /\ failed'[e].submitted = (pc[e] = "rpc")
          /\ pc[e] \in {"open", "rpc"}
          /\ UNCHANGED <<req, attempt, result, remote>>
      BY <2>6 DEF ConnectionDied, Expired, Fail
    <3>2. CASE pc[e] = "rpc"
      BY <3>1, <3>2
    <3>3. CASE pc[e] = "open"
      BY <3>1, <3>3
    <3>. QED BY <3>1, <3>2, <3>3
  <2>7. ASSUME NEW kind \in {"connection_lost", "other"}, StreamFailed(e, kind)
        PROVE  ExecState(e)'
    BY <2>7 DEF StreamFailed, Fail
  <2>8. CASE Respond(e)
    BY <2>8 DEF Respond, Return, Drop
  <2>9. CASE Retry(e)
    BY <2>9 DEF Retry, Retryable, Begin, NotFailed
  <2>10. CASE GiveUp(e)
    BY <2>10 DEF GiveUp, Reported, Return, Drop
  <2>. QED
    BY <1>3, <2>1, <2>2, <2>3, <2>4, <2>5, <2>6, <2>7, <2>8, <2>9, <2>10 DEF Step
<1>4. ASSUME NEW c \in Callers, Cancel(c) PROVE ExecState(e)'
  <2>1. CASE e # c
    BY <1>4, <2>1, ExecFrame DEF Cancel, Drop, TypeOK
  <2>2. CASE e = c
    BY <1>4, <2>2 DEF Cancel, Drop, TypeOK, ExecState, Silent, AtMostOneSent
  <2>. QED BY <2>1, <2>2
<1>5. CASE Environment
  <2>1. ASSUME NEW c \in Callers, NEW a \in Attempts, PeerRuns(c, a) \/ PeerBusy(c, a)
        PROVE  ExecState(e)'
    <3>1. CASE e # c
      BY <2>1, <3>1, ExecFrame DEF PeerRuns, PeerBusy, TypeOK
    <3>2. CASE e = c /\ PeerRuns(c, a)
      BY <3>2 DEF PeerRuns, TypeOK, ExecState, Silent, AtMostOneSent
    <3>3. CASE e = c /\ PeerBusy(c, a)
      BY <3>3 DEF PeerBusy, TypeOK, ExecState, Silent, AtMostOneSent
    <3>. QED BY <2>1, <3>1, <3>2, <3>3
  <2>2. ASSUME NEW i \in Conns, NEW reason \in CloseReasons, ConnectionCloses(i, reason)
        PROVE  ExecState(e)'
    BY <2>2, ExecFrame DEF ConnectionCloses
  <2>. QED BY <1>5, <2>1, <2>2 DEF Environment
<1>6. CASE Tick
  BY <1>6, ExecFrame DEF Tick
<1>7. CASE Terminated \/ UNCHANGED vars
  BY <1>7, ExecFrame DEF Terminated, vars
<1>. QED
  BY <1>1, <1>2, <1>3, <1>4, <1>5, <1>6, <1>7 DEF Next

(* Nothing has been sent at first. *)
LEMMA ExecInit == Init => ExecInv
<1>. SUFFICES ASSUME Init, NEW c \in Callers PROVE ExecState(c)
  BY DEF ExecInv
<1>1. pc[c] = "idle" /\ req[c] = None /\ result[c] = None /\ Silent(c)
  BY DEF Init, Silent
<1>. QED BY <1>1, NoneAssumption DEF ExecState, Silent, AtMostOneSent

(* No exec runs twice, and what its caller is told is true and stays true. *)
THEOREM ExecSafe == Spec => [](ExecAtMostOnce /\ ToldTheTruth)
<1>1. TypeOK /\ ExecInv => ExecAtMostOnce /\ ToldTheTruth
  <2>. SUFFICES ASSUME TypeOK, ExecInv PROVE ExecAtMostOnce /\ ToldTheTruth
    OBVIOUS
  <2>1. ExecAtMostOnce
    BY DEF ExecInv, ExecState, AtMostOneSent, ExecAtMostOnce
  <2>2. ToldTheTruth
    BY NoneAssumption
    DEF ExecInv, ExecState, AtMostOneSent, Silent, ToldTheTruth, TypeOK, Attempts
  <2>. QED BY <2>1, <2>2
<1>. QED
  BY <1>1, ExecInit, ExecStep, TypeInit, TypeStep, PTL DEF Spec

-----------------------------------------------------------------------------
(* The initial states are initial states of ExecOutcome. *)
LEMMA RefinesInit == Init => Abstract!Init
<1>. SUFFICES ASSUME Init PROVE Abstract!Init
  OBVIOUS
<1>1. ASSUME NEW c \in Callers
      PROVE  OutcomeOf(c) = "pending" /\ SubmittedOf(c) = FALSE /\ RanOf(c) = FALSE
  BY <1>1, NoneAssumption DEF Init, OutcomeOf, SubmittedOf, RanOf
<1>. QED BY <1>1 DEF Abstract!Init, outcomeBar, submittedBar, ranBar

(* What ExecOutcome sees of a call only changes with these variables.      *)
Same(c) == /\ OutcomeOf(c)' = OutcomeOf(c)
           /\ SubmittedOf(c)' = SubmittedOf(c)
           /\ RanOf(c)' = RanOf(c)

(* A call that a step leaves alone looks the same. *)
LEMMA SameFrame ==
  ASSUME NEW c \in Callers, req'[c] = req[c], result'[c] = result[c], remote'[c] = remote[c],
         pc'[c] = pc[c] \/ {pc[c], pc'[c]} \cap {"done", "gone"} = {}
  PROVE  Same(c)
BY DEF Same, OutcomeOf, SubmittedOf, RanOf

(* A step after which every call looks the same is a stutter. *)
LEMMA SameStutters ==
  ASSUME \A c \in Callers : Same(c)
  PROVE  UNCHANGED Abstract!evars
<1>1. outcomeBar' = outcomeBar
  BY DEF Same, outcomeBar
<1>2. submittedBar' = submittedBar
  BY DEF Same, submittedBar
<1>3. ranBar' = ranBar
  BY DEF Same, ranBar
<1>. QED BY <1>1, <1>2, <1>3 DEF Abstract!evars

(* One call is told something that is true. *)
LEMMA TellStep ==
  ASSUME NEW c \in Callers, \A d \in Callers \ {c} : Same(d),
         SubmittedOf(c)' = SubmittedOf(c), RanOf(c)' = RanOf(c),
         OutcomeOf(c) = "pending",
         NEW o \in {"ok", "busy", "err", "unknown", "gone"}, OutcomeOf(c)' = o,
         o = "ok" => RanOf(c),
         o = "busy" => SubmittedOf(c) /\ ~RanOf(c),
         o = "err" => ~SubmittedOf(c),
         o = "unknown" => SubmittedOf(c)
  PROVE  Abstract!Next
<1>1. outcomeBar' = [outcomeBar EXCEPT ![c] = o]
  BY DEF Same, outcomeBar
<1>2. submittedBar' = submittedBar
  BY DEF Same, submittedBar
<1>3. ranBar' = ranBar
  BY DEF Same, ranBar
<1>4. outcomeBar[c] = "pending" /\ submittedBar[c] = SubmittedOf(c) /\ ranBar[c] = RanOf(c)
  BY DEF outcomeBar, submittedBar, ranBar
<1>5. Abstract!Tell(c)
  BY <1>1, <1>2, <1>3, <1>4 DEF Abstract!Tell
<1>. QED BY <1>5 DEF Abstract!Next

(* Every step is a step of ExecOutcome or a stutter. *)
LEMMA RefinesStep ==
  TypeOK /\ ExecInv /\ [Next]_vars => [Abstract!Next]_(Abstract!evars)
<1>. SUFFICES ASSUME TypeOK, ExecInv, [Next]_vars
              PROVE  Abstract!Next \/ UNCHANGED Abstract!evars
  OBVIOUS
<1>. USE NoneAssumption DEF call, route, net
<1>1. ASSUME NEW c \in Callers, NEW r \in {"exec", "query"}, NEW p \in Peers \cup {Stranger},
             Call(c, r, p)
      PROVE  Abstract!Next \/ UNCHANGED Abstract!evars
  <2>1. \A d \in Callers \ {c} : Same(d)
    BY <1>1, SameFrame DEF Call, Return, Drop, TypeOK
  <2>2. /\ OutcomeOf(c) = "pending" /\ ~SubmittedOf(c)
        /\ SubmittedOf(c)' = SubmittedOf(c) /\ RanOf(c)' = RanOf(c)
    BY <1>1 DEF Call, ExecInv, ExecState, Silent, OutcomeOf, SubmittedOf, RanOf
  <2>3. CASE r = "exec" /\ p \notin Peers
    <3>1. OutcomeOf(c)' = "err"
      BY <1>1, <2>3 DEF Call, Return, OutcomeOf, TypeOK
    <3>. QED BY <2>1, <2>2, <3>1, TellStep
  <2>4. CASE ~(r = "exec" /\ p \notin Peers)
    <3>1. OutcomeOf(c)' = "pending"
      BY <1>1, <2>4 DEF Call, Return, OutcomeOf, TypeOK
    <3>. QED BY <2>1, <2>2, <3>1, SameStutters DEF Same
  <2>. QED BY <2>3, <2>4
<1>2. ASSUME NEW c \in Callers, Step(c)
      PROVE  Abstract!Next \/ UNCHANGED Abstract!evars
  <2>1. CASE Reuse(c) \/ Connected(c) \/ Dial(c) \/ Retry(c)
    <3>1. \A d \in Callers : Same(d)
      BY <2>1, SameFrame DEF Reuse, Connected, Dial, Retry, Begin, TypeOK
    <3>. QED BY <3>1, SameStutters
  <2>2. CASE \/ ConnectionDied(c) \/ Expired(c)
             \/ \E kind \in {"connection_lost", "other"} : StreamFailed(c, kind)
    <3>1. \A d \in Callers : Same(d)
      BY <2>2, SameFrame DEF ConnectionDied, Expired, StreamFailed, Fail, TypeOK
    <3>. QED BY <3>1, SameStutters
  <2>3. CASE Submit(c)
    <3>1. \A d \in Callers \ {c} : Same(d)
      BY <2>3, SameFrame DEF Submit, Begin, TypeOK
    <3>2. OutcomeOf(c)' = OutcomeOf(c)
      BY <2>3 DEF Submit, Begin, TypeOK, OutcomeOf
    <3>3. CASE budget[c] > 0 /\ req[c] = "exec"
      <4>1. remote' = [remote EXCEPT ![c][attempt[c]] = "sent"] /\ Silent(c)
        BY <2>3, <3>3 DEF Submit, ExecInv, ExecState
      <4>2. /\ SubmittedOf(c) = FALSE /\ SubmittedOf(c)' = TRUE
            /\ RanOf(c)' = RanOf(c) /\ OutcomeOf(c) = "pending"
        BY <2>3, <4>1 DEF Submit, TypeOK, Silent, SubmittedOf, RanOf, OutcomeOf
      <4>3. outcomeBar' = outcomeBar /\ ranBar' = ranBar
        BY <3>1, <3>2, <4>2 DEF Same, outcomeBar, ranBar
      <4>4. submittedBar' = [submittedBar EXCEPT ![c] = TRUE]
        BY <3>1, <4>2 DEF Same, submittedBar
      <4>5. outcomeBar[c] = "pending" /\ submittedBar[c] = FALSE
        BY <4>2 DEF outcomeBar, submittedBar
      <4>. QED BY <4>3, <4>4, <4>5 DEF Abstract!Next, Abstract!Submit
    <3>4. CASE ~(budget[c] > 0 /\ req[c] = "exec")
      <4>1. remote' = remote
        BY <2>3, <3>4 DEF Submit
      <4>2. Same(c)
        BY <3>2, <4>1 DEF Same, SubmittedOf, RanOf
      <4>. QED BY <3>1, <4>2, SameStutters
    <3>. QED BY <3>3, <3>4
  <2>4. CASE ConnectFailed(c) \/ NotConnected(c) \/ Respond(c) \/ GiveUp(c)
    <3>1. PICK o \in {"ok", "busy", "err", "unknown"} :
            /\ Return(c, o)
            /\ o \in {"ok", "busy"} => Respond(c)
            /\ o = "ok" /\ req[c] = "exec" => remote[c][attempt[c]] = "ran"
            /\ o = "busy" /\ req[c] = "exec" => remote[c][attempt[c]] = "busy"
            /\ o = "err" => \/ pc[c] \in {"queue", "dial"}
                            \/ pc[c] = "failed" /\ (req[c] = "exec" => ~failed[c].submitted)
            /\ o = "unknown" => pc[c] = "failed" /\ failed[c].submitted
      <4>1. CASE ConnectFailed(c) \/ NotConnected(c)
        <5>1. Return(c, "err") /\ pc[c] \in {"queue", "dial"}
          BY <4>1 DEF ConnectFailed, NotConnected
        <5>. QED BY <5>1
      <4>2. CASE Respond(c)
        BY <4>2 DEF Respond
      <4>3. CASE GiveUp(c)
        <5>1. CASE Reported(c) = "unknown"
          BY <4>3, <5>1 DEF GiveUp, Reported
        <5>2. CASE Reported(c) = "err"
          BY <4>3, <5>2 DEF GiveUp, Reported
        <5>. QED BY <5>1, <5>2 DEF Reported
      <4>. QED BY <2>4, <4>1, <4>2, <4>3
    <3>2. /\ UNCHANGED <<req, remote>> /\ pc[c] \notin {"done", "gone"}
          /\ pc' = [pc EXCEPT ![c] = "done"] /\ result' = [result EXCEPT ![c] = o]
      BY <2>4, <3>1 DEF ConnectFailed, NotConnected, Respond, GiveUp, Return
    <3>3. \A d \in Callers \ {c} : Same(d)
      BY <3>2, SameFrame DEF TypeOK
    <3>4. SubmittedOf(c)' = SubmittedOf(c) /\ RanOf(c)' = RanOf(c) /\ OutcomeOf(c) = "pending"
      BY <3>2 DEF SubmittedOf, RanOf, OutcomeOf
    <3>5. CASE req[c] # "exec"
      <4>1. OutcomeOf(c)' = "pending"
        BY <3>2, <3>5 DEF OutcomeOf
      <4>. QED BY <3>3, <3>4, <4>1, SameStutters DEF Same
    <3>6. CASE req[c] = "exec"
      <4>1. OutcomeOf(c)' = o
        BY <3>2, <3>6 DEF OutcomeOf, TypeOK
      <4>2. attempt[c] \in Attempts /\ AtMostOneSent(c)
        BY DEF TypeOK, ExecInv, ExecState
      <4>3. o = "ok" => RanOf(c)
        BY <3>1, <3>6, <4>2 DEF RanOf
      <4>4. o = "busy" => SubmittedOf(c) /\ ~RanOf(c)
        BY <3>1, <3>6, <4>2 DEF RanOf, SubmittedOf, AtMostOneSent
      <4>5. o = "err" => ~SubmittedOf(c)
        BY <3>1, <3>6 DEF ExecInv, ExecState, Silent, SubmittedOf
      <4>6. o = "unknown" => SubmittedOf(c)
        BY <3>1, <3>6, <4>2 DEF ExecInv, ExecState, Silent, SubmittedOf
      <4>. QED BY <3>3, <3>4, <4>1, <4>3, <4>4, <4>5, <4>6, TellStep
    <3>. QED BY <3>5, <3>6
  <2>. QED BY <1>2, <2>1, <2>2, <2>3, <2>4 DEF Step
<1>3. ASSUME NEW c \in Callers, Cancel(c)
      PROVE  Abstract!Next \/ UNCHANGED Abstract!evars
  <2>1. /\ UNCHANGED <<req, remote, result>> /\ pc[c] \notin {"done", "gone"}
        /\ pc' = [pc EXCEPT ![c] = "gone"]
    BY <1>3 DEF Cancel
  <2>2. \A d \in Callers \ {c} : Same(d)
    BY <2>1, SameFrame DEF TypeOK
  <2>3. SubmittedOf(c)' = SubmittedOf(c) /\ RanOf(c)' = RanOf(c) /\ OutcomeOf(c) = "pending"
    BY <2>1 DEF SubmittedOf, RanOf, OutcomeOf
  <2>4. OutcomeOf(c)' = IF req[c] = "exec" THEN "gone" ELSE "pending"
    BY <2>1 DEF OutcomeOf, TypeOK
  <2>5. CASE req[c] = "exec"
    BY <2>2, <2>3, <2>4, <2>5, TellStep
  <2>6. CASE req[c] # "exec"
    BY <2>2, <2>3, <2>4, <2>6, SameStutters DEF Same
  <2>. QED BY <2>5, <2>6
<1>4. ASSUME NEW c \in Callers, NEW a \in Attempts, PeerRuns(c, a)
      PROVE  Abstract!Next \/ UNCHANGED Abstract!evars
  <2>1. /\ remote' = [remote EXCEPT ![c][a] = "ran"] /\ remote[c][a] = "sent"
        /\ UNCHANGED <<pc, req, result>>
    BY <1>4 DEF PeerRuns
  <2>2. \A d \in Callers \ {c} : Same(d)
    BY <2>1, SameFrame DEF TypeOK
  <2>3. /\ SubmittedOf(c) = TRUE /\ SubmittedOf(c)' = TRUE
        /\ RanOf(c) = FALSE /\ RanOf(c)' = TRUE
    <3>1. AtMostOneSent(c)
      BY DEF ExecInv, ExecState
    <3>2. remote'[c][a] = "ran"
      BY <2>1 DEF TypeOK
    <3>3. RanOf(c) = FALSE
      BY <2>1, <3>1 DEF RanOf, AtMostOneSent
    <3>. QED BY <2>1, <3>2, <3>3 DEF SubmittedOf, RanOf
  <2>4. OutcomeOf(c)' = OutcomeOf(c) /\ OutcomeOf(c) \notin {"ok", "busy", "err"}
    BY <2>1 DEF OutcomeOf, ExecInv, ExecState, AtMostOneSent, Silent
  <2>5. outcomeBar' = outcomeBar /\ submittedBar' = submittedBar
    BY <2>2, <2>3, <2>4 DEF Same, outcomeBar, submittedBar
  <2>6. ranBar' = [ranBar EXCEPT ![c] = TRUE]
    BY <2>2, <2>3 DEF Same, ranBar
  <2>7. outcomeBar[c] = OutcomeOf(c) /\ submittedBar[c] = TRUE /\ ranBar[c] = FALSE
    BY <2>3 DEF outcomeBar, submittedBar, ranBar
  <2>. QED BY <2>4, <2>5, <2>6, <2>7 DEF Abstract!Next, Abstract!Run
<1>5. ASSUME NEW c \in Callers, NEW a \in Attempts, PeerBusy(c, a)
      PROVE  UNCHANGED Abstract!evars
  <2>1. /\ remote' = [remote EXCEPT ![c][a] = "busy"] /\ remote[c][a] = "sent"
        /\ UNCHANGED <<pc, req, result>>
    BY <1>5 DEF PeerBusy
  <2>2. \A d \in Callers \ {c} : Same(d)
    BY <2>1, SameFrame DEF TypeOK
  <2>3. Same(c)
    BY <2>1 DEF Same, OutcomeOf, SubmittedOf, RanOf, TypeOK
  <2>. QED BY <2>2, <2>3, SameStutters
<1>6. ASSUME NEW i \in Conns, NEW reason \in CloseReasons, ConnectionCloses(i, reason)
      PROVE  UNCHANGED Abstract!evars
  BY <1>6, SameFrame, SameStutters DEF ConnectionCloses
<1>7. CASE Tick
  BY <1>7, SameFrame, SameStutters DEF Tick
<1>8. CASE Terminated \/ UNCHANGED vars
  BY <1>8, SameFrame, SameStutters DEF Terminated, vars
<1>. QED
  BY <1>1, <1>2, <1>3, <1>4, <1>5, <1>6, <1>7, <1>8 DEF Next, Environment

(* Dialer implements ExecOutcome: at most one run and truthful answers for *)
(* every exec, however calls, closures, timers and the peer interleave.    *)
THEOREM DialerImplementsExecOutcome == Spec => ImplementsExecOutcome
<1>. QED
  BY RefinesInit, RefinesStep, ExecInit, ExecStep, TypeInit, TypeStep, PTL
  DEF Spec, ImplementsExecOutcome, Abstract!Spec

-----------------------------------------------------------------------------
(* The slots, the lock and the names of connections.  A dialing call has   *)
(* the lock and nothing reusable behind it; a slot only holds connections  *)
(* to its own peer, and none of a call that has not begun.                 *)
DialerAlone ==
  \A c, d \in Callers : pc[c] = "dial" /\ pc[d] = "dial" /\ peer[c] = peer[d] => c = d
NothingToReuse == \A c \in Callers : pc[c] = "dial" => ~Reusable(peer[c])
SlotOfPeer == \A p \in Peers : cached[p] # None => ConnPeer(cached[p]) = p
NoNamesakes ==
  \A c \in Callers, a \in Attempts : pc[c] = "idle" =>
    conn[<<c, a>>] # "open" /\ \A p \in Peers : cached[p] # <<c, a>>

ConnInv == OneConnection /\ DialerAlone /\ NothingToReuse /\ SlotOfPeer /\ NoNamesakes

(* Whose connection a name stands for. *)
LEMMA PeerOfName ==
  /\ \A c \in Callers, a \in Attempts : ConnPeer(<<c, a>>) = peer[c]
  /\ \A p \in Peers : ConnPeer(Earlier(p)) = p
BY CallersAssumption DEF ConnPeer, Earlier

(* At first a slot is empty or holds an earlier connection to its peer.    *)
LEMMA ConnInit == Init => ConnInv
<1>. SUFFICES ASSUME Init PROVE ConnInv
  OBVIOUS
<1>1. \A p \in Peers : cached[p] # None => cached[p] = Earlier(p)
  BY DEF Init
<1>2. OneConnection
  <2>. SUFFICES ASSUME NEW i \in Conns, conn[i] = "open" PROVE cached[ConnPeer(i)] = i
    BY DEF OneConnection
  <2>1. PICK p \in Peers : cached[p] = i
    BY DEF Init
  <2>2. i = Earlier(p)
    BY <1>1, <2>1, ConnNames
  <2>. QED BY <2>1, <2>2, PeerOfName
<1>3. DialerAlone /\ NothingToReuse
  BY DEF Init, DialerAlone, NothingToReuse
<1>4. SlotOfPeer
  BY <1>1, PeerOfName DEF SlotOfPeer
<1>5. NoNamesakes
  <2>. SUFFICES ASSUME NEW c \in Callers, NEW a \in Attempts
                PROVE  conn[<<c, a>>] # "open" /\ \A p \in Peers : cached[p] # <<c, a>>
    BY DEF NoNamesakes
  <2>1. \A p \in Peers : cached[p] # <<c, a>>
    BY <1>1, CallersAssumption, ConnNames DEF Earlier
  <2>. QED BY <2>1, ConnNames DEF Init
<1>. QED BY <1>2, <1>3, <1>4, <1>5 DEF ConnInv

(* A step that opens nothing, fills no slot, starts no dial and no call.   *)
LEMMA ConnFrame ==
  ASSUME TypeOK, ConnInv, peer' = peer, cached' = cached,
         \A i \in Conns : conn'[i] = "open" => conn[i] = "open",
         \A c \in Callers : /\ pc'[c] = "dial" => pc[c] = "dial"
                            /\ pc'[c] = "idle" => pc[c] = "idle"
  PROVE  ConnInv'
<1>1. OneConnection'
  BY DEF ConnInv, OneConnection, ConnPeer
<1>2. DialerAlone'
  BY DEF ConnInv, DialerAlone
<1>3. NothingToReuse'
  <2>. SUFFICES ASSUME NEW c \in Callers, pc'[c] = "dial", Reusable(peer[c])' PROVE FALSE
    BY DEF NothingToReuse
  <2>1. pc[c] = "dial" /\ peer[c] \in Peers
    BY DEF TypeOK, Active
  <2>2. Reusable(peer[c])
    BY <2>1 DEF Reusable, TypeOK
  <2>. QED BY <2>1, <2>2 DEF ConnInv, NothingToReuse
<1>4. SlotOfPeer'
  BY DEF ConnInv, SlotOfPeer, ConnPeer
<1>5. NoNamesakes'
  BY ConnNames DEF ConnInv, NoNamesakes
<1>. QED BY <1>1, <1>2, <1>3, <1>4, <1>5 DEF ConnInv

(* Ending a call opens no connection. *)
LEMMA LetGoOpensNothing ==
  ASSUME NEW c \in Callers, LetGo(c)
  PROVE  \A i \in Conns : conn'[i] = "open" => conn[i] = "open"
BY DEF LetGo

(* Every step keeps the slots and the lock in order. *)
LEMMA ConnStep == TypeOK /\ ConnInv /\ [Next]_vars => ConnInv'
<1>. SUFFICES ASSUME TypeOK, ConnInv, [Next]_vars PROVE ConnInv'
  OBVIOUS
<1>. USE DEF call, route, net
<1>1. ASSUME NEW c \in Callers, NEW r \in {"exec", "query"}, NEW p \in Peers \cup {Stranger},
             Call(c, r, p)
      PROVE  ConnInv'
  <2>1. /\ pc[c] = "idle" /\ pc' \in {[pc EXCEPT ![c] = "queue"], [pc EXCEPT ![c] = "done"]}
        /\ peer' = [peer EXCEPT ![c] = p] /\ cached' = cached
        /\ \A i \in Conns : conn'[i] = "open" => conn[i] = "open"
    BY <1>1, LetGoOpensNothing DEF Call, Return, Drop
  <2>2. \A d \in Callers : /\ pc'[d] = "dial" => pc[d] = "dial" /\ d # c
                           /\ pc'[d] = "idle" => pc[d] = "idle" /\ d # c
                           /\ d # c => peer'[d] = peer[d]
    BY <2>1 DEF TypeOK
  <2>3. \A i \in Conns : /\ conn[i] = "open" => ConnPeer(i)' = ConnPeer(i)
                         /\ \A q \in Peers : cached[q] = i => ConnPeer(i)' = ConnPeer(i)
    <3>. SUFFICES ASSUME NEW i \in Conns, conn[i] = "open" \/ \E q \in Peers : cached[q] = i
                  PROVE  ConnPeer(i)' = ConnPeer(i)
      OBVIOUS
    <3>1. CASE \E d \in Callers, a \in Attempts : i = <<d, a>>
      <4>1. PICK d \in Callers, a \in Attempts : i = <<d, a>>
        BY <3>1
      <4>2. d # c
        BY <2>1, <4>1 DEF ConnInv, NoNamesakes
      <4>. QED BY <2>2, <4>1, <4>2 DEF ConnPeer
    <3>2. CASE \E q \in Peers : i = <<q, 0>>
      BY <3>2 DEF ConnPeer
    <3>. QED BY <3>1, <3>2 DEF Conns
  <2>4. OneConnection'
    BY <2>1, <2>3 DEF ConnInv, OneConnection
  <2>5. DialerAlone'
    BY <2>2 DEF ConnInv, DialerAlone
  <2>6. NothingToReuse'
    <3>. SUFFICES ASSUME NEW d \in Callers, pc'[d] = "dial", Reusable(peer[d])' PROVE FALSE
      BY DEF NothingToReuse
    <3>1. pc[d] = "dial" /\ peer[d] \in Peers /\ peer'[d] = peer[d]
      BY <2>2 DEF TypeOK, Active
    <3>2. Reusable(peer[d])
      BY <2>1, <3>1 DEF Reusable, TypeOK
    <3>. QED BY <3>1, <3>2 DEF ConnInv, NothingToReuse
  <2>7. SlotOfPeer'
    BY <2>1, <2>3 DEF ConnInv, SlotOfPeer, TypeOK
  <2>8. NoNamesakes'
    BY <2>1, <2>2, ConnNames DEF ConnInv, NoNamesakes
  <2>. QED BY <2>4, <2>5, <2>6, <2>7, <2>8 DEF ConnInv
<1>2. ASSUME NEW c \in Callers, Step(c) PROVE ConnInv'
  <2>1. CASE Reuse(c) \/ Submit(c)
    BY <2>1, ConnFrame DEF Reuse, Submit, Begin, TypeOK
  <2>2. CASE Dial(c)
    <3>1. /\ pc' = [pc EXCEPT ![c] = "dial"] /\ UNCHANGED <<peer, conn, cached>>
          /\ ~Locked(peer[c]) /\ ~Reusable(peer[c])
      BY <2>2 DEF Dial
    <3>2. OneConnection' /\ SlotOfPeer'
      BY <3>1 DEF ConnInv, OneConnection, SlotOfPeer, ConnPeer
    <3>3. DialerAlone'
      BY <3>1 DEF ConnInv, DialerAlone, Locked, TypeOK
    <3>4. NothingToReuse'
      BY <3>1 DEF ConnInv, NothingToReuse, Reusable, TypeOK
    <3>5. NoNamesakes'
      BY <3>1 DEF ConnInv, NoNamesakes, TypeOK
    <3>. QED BY <3>2, <3>3, <3>4, <3>5 DEF ConnInv
  <2>3. CASE Connected(c)
    <3>. DEFINE i == <<c, attempt[c]>>
                p == peer[c]
    <3>1. /\ pc[c] = "dial" /\ p \in Peers /\ i \in Conns /\ ConnPeer(i) = p /\ i # None
          /\ pc'[c] \notin {"dial", "idle"}
          /\ \A d \in Callers : d # c => pc'[d] = pc[d]
          /\ conn' = [conn EXCEPT ![i] = "open"] /\ cached' = [cached EXCEPT ![p] = i]
          /\ peer' = peer
      BY <2>3, ConnNames, PeerOfName DEF Connected, Begin, TypeOK, Active
    <3>2. ~Reusable(p)
      BY <3>1 DEF ConnInv, NothingToReuse
    <3>3. \A j \in Conns : conn[j] = "open" => ConnPeer(j) # p
      BY <3>2, ConnNames DEF ConnInv, OneConnection, Reusable
    <3>4. \A j \in Conns : ConnPeer(j)' = ConnPeer(j)
      BY <3>1 DEF ConnPeer
    <3>. HIDE DEF i, p
    <3>5. OneConnection'
      BY <3>1, <3>3, <3>4 DEF ConnInv, OneConnection, TypeOK
    <3>6. DialerAlone'
      BY <3>1 DEF ConnInv, DialerAlone
    <3>7. SlotOfPeer'
      BY <3>1, <3>4 DEF ConnInv, SlotOfPeer, TypeOK
    <3>8. NothingToReuse'
      <4>. SUFFICES ASSUME NEW d \in Callers, pc'[d] = "dial", Reusable(peer[d])' PROVE FALSE
        BY DEF NothingToReuse
      <4>1. d # c /\ pc[d] = "dial" /\ peer[d] \in Peers
        BY <3>1 DEF TypeOK, Active
      <4>2. peer[d] # p
        BY <3>1, <4>1 DEF ConnInv, DialerAlone, p
      <4>3. cached'[peer[d]] = cached[peer[d]] /\ cached[peer[d]] # None
        BY <3>1, <4>1, <4>2 DEF Reusable, TypeOK
      <4>4. cached[peer[d]] \in Conns /\ cached[peer[d]] # i
        BY <3>1, <4>1, <4>2, <4>3 DEF ConnInv, SlotOfPeer, TypeOK
      <4>5. Reusable(peer[d])
        BY <3>1, <4>1, <4>3, <4>4 DEF Reusable, TypeOK
      <4>. QED BY <4>1, <4>5 DEF ConnInv, NothingToReuse
    <3>9. NoNamesakes'
      <4>. SUFFICES ASSUME NEW d \in Callers, NEW a \in Attempts, pc'[d] = "idle"
                    PROVE  conn'[<<d, a>>] # "open" /\ \A q \in Peers : cached'[q] # <<d, a>>
        BY DEF NoNamesakes
      <4>1. d # c /\ pc[d] = "idle"
        BY <3>1
      <4>2. <<d, a>> # i /\ <<d, a>> \in Conns
        BY <4>1, ConnNames DEF i
      <4>. QED BY <3>1, <4>1, <4>2 DEF ConnInv, NoNamesakes, TypeOK
    <3>. QED BY <3>5, <3>6, <3>7, <3>8, <3>9 DEF ConnInv
  <2>4. CASE ConnectFailed(c) \/ NotConnected(c) \/ Respond(c) \/ GiveUp(c)
    <3>1. LetGo(c) /\ pc' = [pc EXCEPT ![c] = "done"] /\ UNCHANGED <<peer, cached>>
      BY <2>4 DEF ConnectFailed, NotConnected, Respond, GiveUp, Return, Drop
    <3>. QED BY <3>1, ConnFrame, LetGoOpensNothing DEF TypeOK
  <2>5. CASE \/ ConnectionDied(c) \/ Expired(c)
             \/ \E kind \in {"connection_lost", "other"} : StreamFailed(c, kind)
    BY <2>5, ConnFrame DEF ConnectionDied, Expired, StreamFailed, Fail, TypeOK
  <2>6. CASE Retry(c)
    <3>1. LetGo(c) /\ UNCHANGED <<peer, cached>>
          /\ pc' \in {[pc EXCEPT ![c] = "queue"], [pc EXCEPT ![c] = "failed"]}
      BY <2>6 DEF Retry, Begin
    <3>. QED BY <3>1, ConnFrame, LetGoOpensNothing DEF TypeOK
  <2>. QED BY <1>2, <2>1, <2>2, <2>3, <2>4, <2>5, <2>6 DEF Step
<1>3. ASSUME NEW c \in Callers, Cancel(c) PROVE ConnInv'
  <2>1. LetGo(c) /\ pc' = [pc EXCEPT ![c] = "gone"] /\ UNCHANGED <<peer, cached>>
    BY <1>3 DEF Cancel, Drop
  <2>. QED BY <2>1, ConnFrame, LetGoOpensNothing DEF TypeOK
<1>4. ASSUME NEW i \in Conns, NEW reason \in CloseReasons, ConnectionCloses(i, reason)
      PROVE  ConnInv'
  <2>1. \A j \in Conns : conn'[j] = "open" => conn[j] = "open"
    BY <1>4 DEF ConnectionCloses, TypeOK
  <2>. QED BY <1>4, <2>1, ConnFrame DEF ConnectionCloses
<1>5. ASSUME NEW c \in Callers, NEW a \in Attempts, PeerRuns(c, a) \/ PeerBusy(c, a)
      PROVE  ConnInv'
  BY <1>5, ConnFrame DEF PeerRuns, PeerBusy
<1>6. CASE Tick
  BY <1>6, ConnFrame DEF Tick
<1>7. CASE Terminated \/ UNCHANGED vars
  BY <1>7, ConnFrame DEF Terminated, vars
<1>. QED
  BY <1>1, <1>2, <1>3, <1>4, <1>5, <1>6, <1>7 DEF Next, Environment

(* At most one connection to a peer is open, the one in its slot, for any  *)
(* number of calls that queue, dial, fail and start over.                  *)
THEOREM OneConnectionHolds == Spec => []OneConnection
<1>1. ConnInv => OneConnection
  BY DEF ConnInv
<1>. QED
  BY <1>1, ConnInit, ConnStep, TypeInit, TypeStep, PTL DEF Spec
=============================================================================
