---------------------------- MODULE DaemonProofs ----------------------------
(* Theorems about Daemon, for any connections, requests and limits; the    *)
(* sets of connections and requests need not be finite.                    *)
EXTENDS Daemon, FiniteSetTheorems, TLAPS

(* The four semaphores. *)
Semaphores == {"conn", "localconn", "peer", "local"}

LEMMA LimitTypes ==
  /\ DOMAIN Limit = Semaphores
  /\ Limit \in [Semaphores -> Nat]
  /\ Limit["conn"] = MaxConnections /\ Limit["localconn"] = 2 * MaxConcurrent
  /\ Limit["peer"] = MaxConcurrent /\ Limit["local"] = MaxConcurrent
  /\ \A r \in Reqs : Permits(r) \in {"peer", "local"}
BY DaemonLimitsAssumption DEF Limit, Semaphores, Permits, Source

(* Taking a permit that is free, giving one back, and giving back those of *)
(* a task that is aborted.                                                 *)
LEMMA PermitTypes ==
  ASSUME free \in [Semaphores -> Nat], NEW s \in Semaphores
  PROVE  /\ free[s] > 0 /\ Acquire(s) =>
              /\ free' \in [Semaphores -> Nat] /\ free'[s] = free[s] - 1
              /\ \A t \in Semaphores \ {s} : free'[t] = free[t]
         /\ Release(s) =>
              /\ free' \in [Semaphores -> Nat] /\ free'[s] = free[s] + 1
              /\ \A t \in Semaphores \ {s} : free'[t] = free[t]
BY DEF Acquire, Release

LEMMA AbortPermits ==
  ASSUME free \in [Semaphores -> Nat], NEW s \in Semaphores, NEW t \in Semaphores, s # t,
         NEW n \in Nat, free' = [free EXCEPT ![s] = @ + 1, ![t] = @ + n]
  PROVE  /\ free' \in [Semaphores -> Nat]
         /\ free'[s] = free[s] + 1 /\ free'[t] = free[t] + n
         /\ \A u \in Semaphores \ {s, t} : free'[u] = free[u]
OBVIOUS

(* What is left of requests that are over. *)
LEMMA ForgetFacts ==
  ASSUME TypeOK, NEW over \in SUBSET Reqs, Forget(over)
  PROVE  /\ req' \in [Reqs -> {"idle", "dropped", "reading", "running", "replying", "over"}]
         /\ on' \in [PeerReqs -> Conns \cup {None}]
         /\ answer' \in [Reqs -> {"result", "busy", None}]
         /\ \A r \in Reqs : IF r \in over THEN req'[r] = "over" /\ answer'[r] = None
                            ELSE req'[r] = req[r] /\ answer'[r] = answer[r]
         /\ \A r \in PeerReqs : r \notin over => on'[r] = on[r]
BY DEF TypeOK, Forget, Reqs

-----------------------------------------------------------------------------
(* Which connections have requests in flight: the ones being served or     *)
(* drained, and those are from trusted peers.                              *)
ServeInv ==
  /\ \A c \in Conns : conn[c] \in {"serving", "draining"} => c \in Trusted
  /\ \A r \in PeerReqs : Open(r) => on[r] \in Conns /\ conn[on[r]] \in {"serving", "draining"}

(* Init establishes the types. *)
LEMMA TypeInit == Init => TypeOK /\ ServeInv
<1>. SUFFICES ASSUME Init PROVE TypeOK /\ ServeInv
  OBVIOUS
<1>1. free \in [DOMAIN Limit -> Nat]
  BY LimitTypes DEF Init
<1>. QED BY <1>1 DEF Init, TypeOK, ServeInv, Open, Reqs

(* The types follow from those of the parts: a task that is in flight on a *)
(* connection keeps its slot.                                              *)
LEMMA InFlight ==
  ASSUME ServeInv, NEW r \in PeerReqs, Open(r)
  PROVE  on[r] \in Trusted /\ HoldsSlot(on[r])
BY DEF ServeInv, HoldsSlot

(* Every step keeps the types. *)
LEMMA TypeStep ==
  TypeOK /\ ServeInv /\ IsFiniteSet(Running("peer")) /\ [Next]_vars => TypeOK' /\ ServeInv'
<1>. SUFFICES ASSUME TypeOK, ServeInv, IsFiniteSet(Running("peer")), [Next]_vars
              PROVE  TypeOK' /\ ServeInv'
  OBVIOUS
<1>. USE ConnsAssumption DEF Reqs
<1>0. free \in [Semaphores -> Nat] /\ DOMAIN Limit = Semaphores
  BY LimitTypes DEF TypeOK
<1>1. ASSUME NEW c \in Conns, Incoming(c) PROVE TypeOK' /\ ServeInv'
  <2>1. free' \in [Semaphores -> Nat]
    BY <1>0, <1>1, PermitTypes DEF Incoming, Semaphores
  <2>2. conn' \in [Conns -> {"none", "refused", "handshake", "serving", "draining", "ended"}]
        /\ ServeInv' /\ (\A r \in PeerReqs : Open(r)' => on'[r] \in Trusted /\ HoldsSlot(on[r])')
    BY <1>1 DEF TypeOK, Incoming, ServeInv, Open, HoldsSlot
  <2>. QED BY <1>0, <1>1, <2>1, <2>2 DEF TypeOK, Incoming
<1>2. ASSUME NEW c \in Conns, EndConn(c), \A r \in PeerReqs : Open(r) => on[r] # c
      PROVE  TypeOK' /\ ServeInv'
  <2>1. free' \in [Semaphores -> Nat]
    BY <1>0, <1>2, PermitTypes DEF EndConn, Semaphores
  <2>2. conn' \in [Conns -> {"none", "refused", "handshake", "serving", "draining", "ended"}]
        /\ ServeInv' /\ (\A r \in PeerReqs : Open(r)' => on'[r] \in Trusted /\ HoldsSlot(on[r])')
    BY <1>2 DEF TypeOK, EndConn, ServeInv, Open, HoldsSlot
  <2>. QED BY <1>0, <1>2, <2>1, <2>2 DEF TypeOK, EndConn
<1>3. ASSUME NEW c \in Conns, conn[c] = "handshake", EndConn(c) PROVE TypeOK' /\ ServeInv'
  <2>1. \A r \in PeerReqs : Open(r) => on[r] # c
    BY <1>3 DEF ServeInv
  <2>. QED BY <1>2, <1>3, <2>1
<1>4. ASSUME NEW c \in Conns, Handshaken(c) PROVE TypeOK' /\ ServeInv'
  <2>1. CASE c \in Trusted /\ conn' = [conn EXCEPT ![c] = "serving"]
             /\ UNCHANGED <<daemon, req, on, answer, child, free>>
    BY <1>4, <2>1 DEF TypeOK, ServeInv, Open, HoldsSlot
  <2>. QED BY <1>3, <1>4, <2>1 DEF Handshaken
<1>5. ASSUME NEW c \in Conns, HandshakeFails(c) PROVE TypeOK' /\ ServeInv'
  BY <1>3, <1>5 DEF HandshakeFails
<1>6. ASSUME NEW c \in Conns, Closes(c) PROVE TypeOK' /\ ServeInv'
  BY <1>6 DEF TypeOK, Closes, ServeInv, Open, HoldsSlot
<1>7. ASSUME NEW c \in Conns, Drained(c) PROVE TypeOK' /\ ServeInv'
  BY <1>2, <1>7 DEF Drained
<1>8. ASSUME NEW r \in PeerReqs, NEW c \in Conns, OpenStream(r, c) PROVE TypeOK' /\ ServeInv'
  BY <1>8 DEF TypeOK, OpenStream, ServeInv, Open, HoldsSlot
<1>9. ASSUME NEW r \in LocalReqs, AcceptLocal(r) PROVE TypeOK' /\ ServeInv'
  <2>1. free' \in [Semaphores -> Nat]
    BY <1>0, <1>9, PermitTypes DEF AcceptLocal, Semaphores
  <2>2. req' \in [Reqs -> {"idle", "dropped", "reading", "running", "replying", "over"}]
        /\ \A q \in PeerReqs : req'[q] = req[q]
    BY <1>9, ReqsAssumption DEF TypeOK, AcceptLocal
  <2>. QED BY <1>0, <1>9, <2>1, <2>2 DEF TypeOK, AcceptLocal, ServeInv, Open, HoldsSlot
<1>10. ASSUME NEW r \in Reqs, NEW next \in {"running", "replying"},
              req[r] \in {"reading", "running"}, req' = [req EXCEPT ![r] = next],
              answer' \in [Reqs -> {"result", "busy", None}],
              child' \in [Reqs -> {"none", "alive", "lingering"}],
              free' \in [Semaphores -> Nat], UNCHANGED <<daemon, conn, on>>
       PROVE  TypeOK' /\ ServeInv'
  <2>1. req' \in [Reqs -> {"idle", "dropped", "reading", "running", "replying", "over"}]
    BY <1>10 DEF TypeOK
  <2>2. \A q \in Reqs : Open(q)' <=> Open(q)
    BY <1>10 DEF TypeOK, Open
  <2>. QED BY <1>0, <1>10, <2>1, <2>2 DEF TypeOK, ServeInv, HoldsSlot
<1>11. ASSUME NEW r \in Reqs, NEW spawns \in BOOLEAN, Admit(r, spawns) PROVE TypeOK' /\ ServeInv'
  <2>1. free' \in [Semaphores -> Nat]
    BY <1>0, <1>11, PermitTypes, LimitTypes DEF Admit, Semaphores
  <2>2. child' \in [Reqs -> {"none", "alive", "lingering"}]
    BY <1>11 DEF TypeOK, Admit
  <2>. QED BY <1>10, <1>11, <2>1, <2>2 DEF TypeOK, Admit
<1>12. ASSUME NEW r \in Reqs, Refuse(r) PROVE TypeOK' /\ ServeInv'
  <2>1. answer' \in [Reqs -> {"result", "busy", None}]
    BY <1>12 DEF TypeOK, Refuse
  <2>. QED BY <1>0, <1>10, <1>12, <2>1 DEF TypeOK, Refuse
<1>13. ASSUME NEW r \in Reqs, Finish(r) PROVE TypeOK' /\ ServeInv'
  <2>1. free' \in [Semaphores -> Nat]
    BY <1>0, <1>13, PermitTypes, LimitTypes DEF Finish, Semaphores
  <2>2. answer' \in [Reqs -> {"result", "busy", None}]
        /\ child' \in [Reqs -> {"none", "alive", "lingering"}]
    BY <1>13 DEF TypeOK, Finish, Reap
  <2>. QED BY <1>10, <1>13, <2>1, <2>2 DEF Finish
<1>14. ASSUME NEW over \in SUBSET Reqs, Forget(over),
              conn' \in [Conns -> {"none", "refused", "handshake", "serving", "draining", "ended"}],
              \A r \in PeerReqs : Open(r) /\ r \notin over => conn'[on[r]] = conn[on[r]],
              \A c \in Conns : conn'[c] \in {conn[c], "ended"},
              child' \in [Reqs -> {"none", "alive", "lingering"}],
              free' \in [Semaphores -> Nat], UNCHANGED daemon
       PROVE  TypeOK' /\ ServeInv'
  <2>1. \A r \in PeerReqs : Open(r)' => Open(r) /\ r \notin over /\ on'[r] = on[r]
    BY <1>14, ForgetFacts DEF TypeOK, Open
  <2>2. ServeInv'
    BY <1>14, <2>1 DEF ServeInv
  <2>3. \A r \in PeerReqs : Open(r)' => on'[r] \in Trusted /\ HoldsSlot(on[r])'
    BY <2>2 DEF ServeInv, HoldsSlot
  <2>. QED BY <1>0, <1>14, <2>2, <2>3, ForgetFacts DEF TypeOK
<1>15. ASSUME NEW r \in Reqs, EndReq(r) PROVE TypeOK' /\ ServeInv'
  <2>1. free' \in [Semaphores -> Nat]
    BY <1>0, <1>15, PermitTypes DEF EndReq, Semaphores
  <2>. QED BY <1>14, <1>15, <2>1 DEF TypeOK, EndReq
<1>16. ASSUME NEW r \in Reqs, NEW rest \in {"lingering", "none"}, ChildExits(r, rest)
       PROVE  TypeOK' /\ ServeInv'
  BY <1>16 DEF TypeOK, ChildExits, ServeInv, Open, HoldsSlot
<1>17. ASSUME NEW c \in Conns, AbortConn(c) PROVE TypeOK' /\ ServeInv'
  <2>. DEFINE mine == {r \in PeerReqs : on[r] = c /\ Open(r)}
  <2>1. /\ conn' = [conn EXCEPT ![c] = "ended"] /\ Forget(mine) /\ UNCHANGED daemon
        /\ child' = [r \in Reqs |-> IF r \in mine THEN "none" ELSE child[r]]
        /\ free' = [free EXCEPT !["conn"] = @ + 1,
                       !["peer"] = @ + Cardinality({r \in mine : req[r] = "running"})]
    BY <1>17 DEF AbortConn
  <2>2. {r \in mine : req[r] = "running"} \subseteq Running("peer")
    BY DEF Running, Source
  <2>3. Cardinality({r \in mine : req[r] = "running"}) \in Nat
    BY <2>2, FS_Subset, FS_CardinalityType
  <2>4. free' \in [Semaphores -> Nat]
    BY <1>0, <2>1, <2>3, AbortPermits DEF Semaphores
  <2>5. child' \in [Reqs -> {"none", "alive", "lingering"}]
    BY <2>1 DEF TypeOK
  <2>6. conn' \in [Conns -> {"none", "refused", "handshake", "serving", "draining", "ended"}]
        /\ \A d \in Conns : conn'[d] \in {conn[d], "ended"} /\ (d # c => conn'[d] = conn[d])
    BY <2>1 DEF TypeOK
  <2>7. \A r \in PeerReqs : Open(r) /\ r \notin mine => conn'[on[r]] = conn[on[r]]
    BY <2>6 DEF ServeInv
  <2>8. mine \in SUBSET Reqs
    OBVIOUS
  <2>. QED BY <1>14, <2>1, <2>4, <2>5, <2>6, <2>7, <2>8
<1>18. ASSUME NEW r \in LocalReqs, AbortLocal(r) PROVE TypeOK' /\ ServeInv'
  <2>1. free' \in [Semaphores -> Nat]
    <3>. DEFINE n == IF req[r] = "running" THEN 1 ELSE 0
    <3>1. free' = [free EXCEPT !["localconn"] = @ + 1, !["local"] = @ + n] /\ n \in Nat
      BY <1>18 DEF AbortLocal
    <3>. HIDE DEF n
    <3>. QED BY <1>0, <3>1, AbortPermits DEF Semaphores
  <2>2. child' \in [Reqs -> {"none", "alive", "lingering"}]
    BY <1>18 DEF TypeOK, AbortLocal, Reap
  <2>3. {r} \in SUBSET Reqs /\ Forget({r}) /\ UNCHANGED <<daemon, conn>>
    BY <1>18 DEF AbortLocal
  <2>. QED BY <1>14, <2>1, <2>2, <2>3 DEF TypeOK
<1>19. CASE Stop \/ Down \/ UNCHANGED vars
  BY <1>19 DEF TypeOK, ServeInv, Stop, Down, Open, HoldsSlot, vars
<1>20. ASSUME NEW r \in Reqs, ReqStep(r) PROVE TypeOK' /\ ServeInv'
  BY <1>11, <1>12, <1>13, <1>15, <1>16, <1>20 DEF ReqStep, ReadFails, Reply
<1>21. ASSUME NEW c \in Conns, ConnStep(c) PROVE TypeOK' /\ ServeInv'
  BY <1>1, <1>4, <1>5, <1>6, <1>7, <1>21 DEF ConnStep
<1>. QED BY <1>8, <1>9, <1>17, <1>18, <1>19, <1>20, <1>21 DEF Next, Terminated

-----------------------------------------------------------------------------
(* Who holds a permit of each semaphore. *)
Holders(s) == CASE s = "conn" -> {c \in Conns : HoldsSlot(c)}
                [] s = "localconn" -> {r \in LocalReqs : Open(r)}
                [] OTHER -> Running(s)

(* A semaphore's account: its holders, finitely many, and its free permits *)
(* add up to its limit.                                                    *)
Balanced(s) == IsFiniteSet(Holders(s)) /\ free[s] = Limit[s] - Cardinality(Holders(s))

(* PermitsAccounted with the finiteness that makes it inductive. *)
SlotsInv == \A s \in Semaphores : Balanced(s)

(* The accounts after a step that leaves a semaphore and its holders as    *)
(* they are, adds a holder, or removes some.                               *)
LEMMA Same ==
  ASSUME NEW s, Balanced(s), Holders(s)' = Holders(s), free'[s] = free[s]
  PROVE  Balanced(s)'
BY DEF Balanced

LEMMA OneMore ==
  ASSUME NEW s \in Semaphores, Balanced(s), NEW x, x \notin Holders(s),
         Holders(s)' = Holders(s) \cup {x}, free'[s] = free[s] - 1
  PROVE  Balanced(s)'
<1>1. Limit[s] \in Nat
  BY LimitTypes
<1>2. IsFiniteSet(Holders(s)) /\ free[s] = Limit[s] - Cardinality(Holders(s))
      /\ Cardinality(Holders(s)) \in Nat
  BY FS_CardinalityType DEF Balanced
<1>3. IsFiniteSet(Holders(s)') /\ Cardinality(Holders(s)') = Cardinality(Holders(s)) + 1
  BY <1>2, FS_AddElement
<1>. QED BY <1>1, <1>2, <1>3 DEF Balanced

LEMMA SomeLess ==
  ASSUME NEW s \in Semaphores, Balanced(s), NEW X, X \subseteq Holders(s),
         Holders(s)' = Holders(s) \ X, free'[s] = free[s] + Cardinality(X)
  PROVE  Balanced(s)'
<1>. DEFINE S == Holders(s)
<1>1. Limit[s] \in Nat /\ IsFiniteSet(S) /\ free[s] = Limit[s] - Cardinality(S)
  BY LimitTypes DEF Balanced
<1>2. IsFiniteSet(X) /\ IsFiniteSet(S \ X)
  BY <1>1, FS_Subset
<1>3. (S \ X) \cup X = S /\ (S \ X) \cap X = {}
  OBVIOUS
<1>4. Cardinality(S) = Cardinality(S \ X) + Cardinality(X) - Cardinality({})
  <2>. HIDE DEF S
  <2>. QED BY <1>2, <1>3, FS_Union
<1>5. Cardinality({}) = 0 /\ Cardinality(S) \in Nat /\ Cardinality(X) \in Nat /\ Cardinality(S \ X) \in Nat
  BY <1>1, <1>2, FS_EmptySet, FS_CardinalityType
<1>6. free'[s] = Limit[s] - Cardinality(S \ X)
  <2>. HIDE DEF S
  <2>. QED BY <1>1, <1>4, <1>5
<1>. QED BY <1>2, <1>6 DEF Balanced

LEMMA OneLess ==
  ASSUME NEW s \in Semaphores, Balanced(s), NEW x \in Holders(s),
         Holders(s)' = Holders(s) \ {x}, free'[s] = free[s] + 1
  PROVE  Balanced(s)'
<1>1. Cardinality({x}) = 1 /\ {x} \subseteq Holders(s)
  BY FS_Singleton
<1>. QED BY <1>1, SomeLess

(* The holders, semaphore by semaphore, before and after a step. *)
HoldersAre ==
  /\ Holders("conn") = {c \in Conns : HoldsSlot(c)}
  /\ Holders("localconn") = {r \in LocalReqs : Open(r)}
  /\ Holders("peer") = {r \in PeerReqs : req[r] = "running"}
  /\ Holders("local") = {r \in LocalReqs : req[r] = "running"}

LEMMA HolderSets == HoldersAre /\ HoldersAre'
<1>1. Running("peer") = {r \in PeerReqs : req[r] = "running"}
  BY DEF Running, Source, Reqs
<1>2. Running("local") = {r \in LocalReqs : req[r] = "running"}
  BY ReqsAssumption DEF Running, Source, Reqs
<1>3. HoldersAre
  BY <1>1, <1>2 DEF Holders, HoldersAre
<1>. QED BY <1>3, PTL

(* Init: nobody holds anything. *)
LEMMA SlotsInit == Init => SlotsInv
<1>. SUFFICES ASSUME Init, NEW s \in Semaphores PROVE Balanced(s)
  BY DEF SlotsInv
<1>1. Holders(s) = {}
  BY HolderSets DEF HoldersAre, Init, Semaphores, HoldsSlot, Open, Reqs
<1>2. free[s] = Limit[s] /\ Limit[s] \in Nat
  BY LimitTypes DEF Init
<1>. QED BY <1>1, <1>2, FS_EmptySet DEF Balanced

(* Every step keeps the accounts balanced. *)
LEMMA SlotsStep == TypeOK /\ ServeInv /\ SlotsInv /\ [Next]_vars => SlotsInv'
<1>. SUFFICES ASSUME TypeOK, ServeInv, SlotsInv, [Next]_vars PROVE SlotsInv'
  OBVIOUS
<1>. USE DEF Reqs
<1>0. free \in [Semaphores -> Nat]
  BY LimitTypes DEF TypeOK
<1>1. Balanced("conn") /\ Balanced("localconn") /\ Balanced("peer") /\ Balanced("local")
  BY DEF SlotsInv, Semaphores
<1>2. ASSUME Balanced("conn")', Balanced("localconn")', Balanced("peer")', Balanced("local")'
      PROVE  SlotsInv'
  BY <1>2 DEF SlotsInv, Semaphores
<1>3. ASSUME conn' = conn PROVE Holders("conn")' = Holders("conn")
  BY <1>3, HolderSets DEF HoldersAre, HoldsSlot
<1>4. ASSUME req' = req
      PROVE  /\ Holders("localconn")' = Holders("localconn")
             /\ Holders("peer")' = Holders("peer") /\ Holders("local")' = Holders("local")
  BY <1>4, HolderSets DEF HoldersAre, Open
(* Connections. *)
<1>5. ASSUME NEW c \in Conns, req' = req,
             \/ HoldsSlot(c)' = HoldsSlot(c) /\ free' = free
             \/ ~HoldsSlot(c) /\ HoldsSlot(c)' /\ free["conn"] > 0 /\ Acquire("conn")
             \/ HoldsSlot(c) /\ ~HoldsSlot(c)' /\ Release("conn"),
             \E to \in {"refused", "handshake", "serving", "draining", "ended"} :
               conn' = [conn EXCEPT ![c] = to]
      PROVE  SlotsInv'
  <2>1. \A s \in Semaphores \ {"conn"} : free'[s] = free[s]
    BY <1>0, <1>5, PermitTypes DEF Semaphores
  <2>2. Balanced("localconn")' /\ Balanced("peer")' /\ Balanced("local")'
    BY <1>1, <1>4, <1>5, <2>1, Same DEF Semaphores
  <2>3. \A d \in Conns \ {c} : HoldsSlot(d)' <=> HoldsSlot(d)
    BY <1>5 DEF TypeOK, HoldsSlot
  <2>4. CASE HoldsSlot(c)' = HoldsSlot(c) /\ free' = free
    <3>1. Holders("conn")' = Holders("conn")
      BY <2>3, <2>4, HolderSets DEF HoldersAre
    <3>. QED BY <1>1, <1>2, <2>2, <2>4, <3>1, Same
  <2>5. CASE ~HoldsSlot(c) /\ HoldsSlot(c)' /\ free["conn"] > 0 /\ Acquire("conn")
    <3>1. Holders("conn")' = Holders("conn") \cup {c} /\ c \notin Holders("conn")
      BY <2>3, <2>5, HolderSets DEF HoldersAre
    <3>2. free'["conn"] = free["conn"] - 1
      BY <1>0, <2>5, PermitTypes DEF Semaphores
    <3>. QED BY <1>1, <1>2, <2>2, <3>1, <3>2, OneMore DEF Semaphores
  <2>6. CASE HoldsSlot(c) /\ ~HoldsSlot(c)' /\ Release("conn")
    <3>1. Holders("conn")' = Holders("conn") \ {c} /\ c \in Holders("conn")
      BY <2>3, <2>6, HolderSets DEF HoldersAre
    <3>2. free'["conn"] = free["conn"] + 1
      BY <1>0, <2>6, PermitTypes DEF Semaphores
    <3>. QED BY <1>1, <1>2, <2>2, <3>1, <3>2, OneLess DEF Semaphores
  <2>. QED BY <1>5, <2>4, <2>5, <2>6
<1>6. ASSUME NEW c \in Conns, EndConn(c), HoldsSlot(c) PROVE SlotsInv'
  <2>1. ~HoldsSlot(c)'
    BY <1>6 DEF TypeOK, EndConn, HoldsSlot
  <2>. QED BY <1>5, <1>6, <2>1 DEF EndConn
<1>7. ASSUME NEW c \in Conns, ConnStep(c) PROVE SlotsInv'
  <2>1. CASE Incoming(c)
    <3>1. CASE Acquire("conn") /\ conn' = [conn EXCEPT ![c] = "handshake"]
      <4>1. ~HoldsSlot(c) /\ HoldsSlot(c)' /\ free["conn"] > 0
        BY <2>1, <3>1 DEF TypeOK, Incoming, HoldsSlot
      <4>. QED BY <1>5, <2>1, <3>1, <4>1 DEF Incoming
    <3>2. CASE UNCHANGED free /\ conn' = [conn EXCEPT ![c] = "refused"]
      <4>1. HoldsSlot(c)' = HoldsSlot(c)
        BY <2>1, <3>2 DEF TypeOK, Incoming, HoldsSlot
      <4>. QED BY <1>5, <2>1, <3>2, <4>1 DEF Incoming
    <3>. QED BY <2>1, <3>1, <3>2 DEF Incoming
  <2>2. CASE Handshaken(c)
    <3>1. CASE EndConn(c)
      BY <1>6, <2>2, <3>1 DEF Handshaken, HoldsSlot
    <3>2. CASE conn' = [conn EXCEPT ![c] = "serving"] /\ UNCHANGED <<req, free>>
      <4>1. HoldsSlot(c)' = HoldsSlot(c)
        BY <2>2, <3>2 DEF TypeOK, Handshaken, HoldsSlot
      <4>. QED BY <1>5, <3>2, <4>1
    <3>. QED BY <2>2, <3>1, <3>2 DEF Handshaken
  <2>3. CASE HandshakeFails(c) \/ Drained(c)
    BY <1>6, <2>3 DEF HandshakeFails, Drained, HoldsSlot
  <2>4. CASE Closes(c)
    <3>1. HoldsSlot(c)' = HoldsSlot(c)
      BY <2>4 DEF TypeOK, Closes, HoldsSlot
    <3>. QED BY <1>5, <2>4, <3>1 DEF Closes
  <2>. QED BY <1>7, <2>1, <2>2, <2>3, <2>4 DEF ConnStep
(* Requests: one that changes neither runs nor is open more or less than   *)
(* before, and one that starts or ends.                                    *)
<1>8. ASSUME NEW r \in Reqs, conn' = conn, free' = free, \A q \in Reqs \ {r} : req'[q] = req[q],
             r \in PeerReqs \/ Open(r)' = Open(r), req[r] # "running", req'[r] # "running"
      PROVE  SlotsInv'
  <2>1. r \in LocalReqs => Open(r)' = Open(r)
    BY <1>8, ReqsAssumption
  <2>2. Holders("localconn")' = Holders("localconn")
    BY <1>8, <2>1, HolderSets DEF HoldersAre, Open
  <2>3. Holders("peer")' = Holders("peer") /\ Holders("local")' = Holders("local")
    BY <1>8, HolderSets DEF HoldersAre
  <2>. QED BY <1>1, <1>2, <1>3, <1>8, <2>2, <2>3, Same
<1>9. ASSUME NEW r \in PeerReqs, NEW c \in Conns, OpenStream(r, c) PROVE SlotsInv'
  <2>1. req[r] # "running" /\ req'[r] # "running" /\ \A q \in Reqs \ {r} : req'[q] = req[q]
    BY <1>9 DEF TypeOK, OpenStream
  <2>. QED BY <1>8, <1>9, <2>1 DEF OpenStream
<1>10. ASSUME NEW r \in LocalReqs, AcceptLocal(r) PROVE SlotsInv'
  <2>1. /\ req[r] = "idle" /\ conn' = conn /\ req'[r] \in {"reading", "dropped"}
        /\ \A q \in Reqs \ {r} : req'[q] = req[q]
    BY <1>10 DEF TypeOK, AcceptLocal
  <2>2. CASE req'[r] = "dropped"
    <3>1. free' = free
      BY <1>10, <2>1, <2>2 DEF TypeOK, AcceptLocal
    <3>2. Open(r)' = Open(r)
      BY <2>1, <2>2 DEF Open
    <3>. QED BY <1>8, <2>1, <2>2, <3>1, <3>2
  <2>3. CASE req'[r] = "reading"
    <3>1. free["localconn"] > 0 /\ Acquire("localconn")
      BY <1>10, <2>1, <2>3 DEF TypeOK, AcceptLocal
    <3>2. free'["localconn"] = free["localconn"] - 1
          /\ \A t \in Semaphores \ {"localconn"} : free'[t] = free[t]
      BY <1>0, <3>1, PermitTypes DEF Semaphores
    <3>3. Holders("localconn")' = Holders("localconn") \cup {r} /\ r \notin Holders("localconn")
      BY <2>1, <2>3, HolderSets DEF HoldersAre, Open
    <3>4. Holders("peer")' = Holders("peer") /\ Holders("local")' = Holders("local")
      BY <2>1, <2>3, HolderSets DEF HoldersAre
    <3>5. Balanced("localconn")'
      BY <1>1, <3>2, <3>3, OneMore DEF Semaphores
    <3>6. Balanced("conn")' /\ Balanced("peer")' /\ Balanced("local")'
      BY <1>1, <1>3, <2>1, <3>2, <3>4, Same DEF Semaphores
    <3>. QED BY <1>2, <3>5, <3>6
  <2>. QED BY <2>1, <2>2, <2>3
<1>11. ASSUME NEW r \in Reqs, NEW spawns \in BOOLEAN, Admit(r, spawns) PROVE SlotsInv'
  <2>1. /\ req[r] = "reading" /\ req'[r] = "running" /\ conn' = conn
        /\ \A q \in Reqs \ {r} : req'[q] = req[q]
        /\ free[Source(r)] > 0 /\ Acquire(Source(r)) /\ Source(r) \in Semaphores
    BY <1>11 DEF TypeOK, Admit, Permits, Source, Semaphores
  <2>2. free'[Source(r)] = free[Source(r)] - 1 /\ \A t \in Semaphores \ {Source(r)} : free'[t] = free[t]
    BY <1>0, <2>1, PermitTypes
  <2>3. Holders("localconn")' = Holders("localconn")
    BY <2>1, HolderSets DEF HoldersAre, Open
  <2>4. CASE r \in PeerReqs
    <3>1. Source(r) = "peer" /\ r \notin LocalReqs
      BY <2>4, ReqsAssumption DEF Source
    <3>2. Holders("peer")' = Holders("peer") \cup {r} /\ r \notin Holders("peer")
          /\ Holders("local")' = Holders("local")
      BY <2>1, <2>4, <3>1, HolderSets DEF HoldersAre
    <3>. QED BY <1>1, <1>2, <1>3, <2>1, <2>2, <2>3, <3>1, <3>2, Same, OneMore DEF Semaphores
  <2>5. CASE r \notin PeerReqs
    <3>1. Source(r) = "local" /\ r \in LocalReqs
      BY <2>5 DEF Source
    <3>2. Holders("local")' = Holders("local") \cup {r} /\ r \notin Holders("local")
          /\ Holders("peer")' = Holders("peer")
      BY <2>1, <2>5, <3>1, HolderSets DEF HoldersAre
    <3>. QED BY <1>1, <1>2, <1>3, <2>1, <2>2, <2>3, <3>1, <3>2, Same, OneMore DEF Semaphores
  <2>. QED BY <2>4, <2>5
<1>12. ASSUME NEW r \in Reqs, Refuse(r) PROVE SlotsInv'
  <2>1. /\ req[r] = "reading" /\ req'[r] = "replying" /\ conn' = conn /\ free' = free
        /\ \A q \in Reqs \ {r} : req'[q] = req[q]
    BY <1>12 DEF TypeOK, Refuse
  <2>2. Open(r)' = Open(r)
    BY <2>1 DEF Open
  <2>. QED BY <1>8, <2>1, <2>2
<1>13. ASSUME NEW r \in Reqs, Finish(r) PROVE SlotsInv'
  <2>1. /\ req[r] = "running" /\ req'[r] = "replying" /\ conn' = conn
        /\ \A q \in Reqs \ {r} : req'[q] = req[q]
        /\ Release(Source(r)) /\ Source(r) \in Semaphores
    BY <1>13 DEF TypeOK, Finish, Permits, Source, Semaphores
  <2>2. free'[Source(r)] = free[Source(r)] + 1 /\ \A t \in Semaphores \ {Source(r)} : free'[t] = free[t]
    BY <1>0, <2>1, PermitTypes
  <2>3. Holders("localconn")' = Holders("localconn")
    BY <2>1, HolderSets DEF HoldersAre, Open
  <2>4. CASE r \in PeerReqs
    <3>1. Source(r) = "peer" /\ r \notin LocalReqs
      BY <2>4, ReqsAssumption DEF Source
    <3>2. Holders("peer")' = Holders("peer") \ {r} /\ r \in Holders("peer")
          /\ Holders("local")' = Holders("local")
      BY <2>1, <2>4, <3>1, HolderSets DEF HoldersAre
    <3>. QED BY <1>1, <1>2, <1>3, <2>1, <2>2, <2>3, <3>1, <3>2, Same, OneLess DEF Semaphores
  <2>5. CASE r \notin PeerReqs
    <3>1. Source(r) = "local" /\ r \in LocalReqs
      BY <2>5 DEF Source
    <3>2. Holders("local")' = Holders("local") \ {r} /\ r \in Holders("local")
          /\ Holders("peer")' = Holders("peer")
      BY <2>1, <2>5, <3>1, HolderSets DEF HoldersAre
    <3>. QED BY <1>1, <1>2, <1>3, <2>1, <2>2, <2>3, <3>1, <3>2, Same, OneLess DEF Semaphores
  <2>. QED BY <2>4, <2>5
<1>14. ASSUME NEW r \in Reqs, req[r] \in {"reading", "replying"}, EndReq(r) PROVE SlotsInv'
  <2>1. /\ req'[r] = "over" /\ conn' = conn /\ \A q \in Reqs \ {r} : req'[q] = req[q]
    BY <1>14, ForgetFacts DEF EndReq
  <2>2. CASE r \notin LocalReqs
    <3>1. free' = free
      BY <1>14, <2>2 DEF EndReq
    <3>. QED BY <1>8, <1>14, <2>1, <2>2, <3>1
  <2>3. CASE r \in LocalReqs
    <3>1. free'["localconn"] = free["localconn"] + 1
          /\ \A t \in Semaphores \ {"localconn"} : free'[t] = free[t]
      BY <1>0, <1>14, <2>3, PermitTypes DEF EndReq, Semaphores
    <3>2. Holders("localconn")' = Holders("localconn") \ {r} /\ r \in Holders("localconn")
      BY <1>14, <2>1, <2>3, HolderSets DEF HoldersAre, Open
    <3>3. Holders("peer")' = Holders("peer") /\ Holders("local")' = Holders("local")
      BY <1>14, <2>1, HolderSets DEF HoldersAre
    <3>4. Balanced("localconn")'
      BY <1>1, <3>1, <3>2, OneLess DEF Semaphores
    <3>5. Balanced("conn")' /\ Balanced("peer")' /\ Balanced("local")'
      BY <1>1, <1>3, <2>1, <3>1, <3>3, Same DEF Semaphores
    <3>. QED BY <1>2, <3>4, <3>5
  <2>. QED BY <2>2, <2>3
<1>15. CASE \/ \E r \in Reqs, rest \in {"lingering", "none"} : ChildExits(r, rest)
            \/ Stop \/ Down \/ UNCHANGED vars
  <2>1. UNCHANGED <<conn, req, free>>
    BY <1>15 DEF ChildExits, Stop, Down, vars
  <2>. QED BY <1>1, <1>2, <1>3, <1>4, <2>1, Same
<1>16. ASSUME NEW r \in Reqs, ReqStep(r) PROVE SlotsInv'
  BY <1>11, <1>12, <1>13, <1>14, <1>15, <1>16 DEF ReqStep, ReadFails, Reply
(* Aborted tasks give back whatever they hold. *)
<1>17. ASSUME NEW c \in Conns, AbortConn(c) PROVE SlotsInv'
  <2>. DEFINE mine == {r \in PeerReqs : on[r] = c /\ Open(r)}
              runs == {r \in mine : req[r] = "running"}
  <2>1. /\ conn' = [conn EXCEPT ![c] = "ended"] /\ Forget(mine) /\ HoldsSlot(c)
        /\ free' = [free EXCEPT !["conn"] = @ + 1, !["peer"] = @ + Cardinality(runs)]
    BY <1>17 DEF AbortConn
  <2>2. runs \subseteq Holders("peer")
    BY HolderSets DEF HoldersAre
  <2>3. Cardinality(runs) \in Nat
    BY <1>1, <2>2, FS_Subset, FS_CardinalityType DEF Balanced
  <2>4. /\ free'["conn"] = free["conn"] + 1 /\ free'["peer"] = free["peer"] + Cardinality(runs)
        /\ free'["localconn"] = free["localconn"] /\ free'["local"] = free["local"]
    <3>. HIDE DEF runs
    <3>. QED BY <1>0, <2>1, <2>3, AbortPermits DEF Semaphores
  <2>5. \A r \in Reqs : IF r \in mine THEN req'[r] = "over" ELSE req'[r] = req[r]
    BY <2>1, ForgetFacts
  <2>6. Holders("conn")' = Holders("conn") \ {c} /\ c \in Holders("conn")
    BY <2>1, HolderSets DEF HoldersAre, TypeOK, HoldsSlot
  <2>7. Holders("peer")' = Holders("peer") \ runs
    BY <2>5, HolderSets DEF HoldersAre, Open
  <2>8. Holders("localconn")' = Holders("localconn") /\ Holders("local")' = Holders("local")
    BY <2>5, HolderSets, ReqsAssumption DEF HoldersAre, Open
  <2>9. Balanced("conn")'
    BY <1>1, <2>4, <2>6, OneLess DEF Semaphores
  <2>10. Balanced("peer")'
    <3>. HIDE DEF runs
    <3>. QED BY <1>1, <2>2, <2>4, <2>7, SomeLess DEF Semaphores
  <2>. QED BY <1>1, <1>2, <2>4, <2>8, <2>9, <2>10, Same
<1>18. ASSUME NEW r \in LocalReqs, AbortLocal(r) PROVE SlotsInv'
  <2>. DEFINE n == IF req[r] = "running" THEN 1 ELSE 0
  <2>1. /\ Forget({r}) /\ Open(r) /\ conn' = conn /\ n \in Nat
        /\ free' = [free EXCEPT !["localconn"] = @ + 1, !["local"] = @ + n]
    BY <1>18 DEF AbortLocal
  <2>2. /\ free'["localconn"] = free["localconn"] + 1 /\ free'["local"] = free["local"] + n
        /\ free'["conn"] = free["conn"] /\ free'["peer"] = free["peer"]
    <3>. HIDE DEF n
    <3>. QED BY <1>0, <2>1, AbortPermits DEF Semaphores
  <2>3. req'[r] = "over" /\ \A q \in Reqs \ {r} : req'[q] = req[q]
    BY <2>1, ForgetFacts
  <2>4. Holders("localconn")' = Holders("localconn") \ {r} /\ r \in Holders("localconn")
    BY <2>1, <2>3, HolderSets DEF HoldersAre, Open
  <2>5. Holders("peer")' = Holders("peer")
    BY <2>3, HolderSets, ReqsAssumption DEF HoldersAre
  <2>6. Balanced("local")'
    <3>1. CASE req[r] = "running"
      <4>1. Holders("local")' = Holders("local") \ {r} /\ r \in Holders("local")
        BY <2>3, <3>1, HolderSets DEF HoldersAre
      <4>. QED BY <1>1, <2>2, <3>1, <4>1, OneLess DEF Semaphores
    <3>2. CASE req[r] # "running"
      <4>1. Holders("local")' = Holders("local")
        BY <2>3, <3>2, HolderSets DEF HoldersAre
      <4>2. free'["local"] = free["local"]
        BY <1>0, <2>2, <3>2 DEF Semaphores
      <4>. QED BY <1>1, <4>1, <4>2, Same
    <3>. QED BY <3>1, <3>2
  <2>7. Balanced("localconn")'
    BY <1>1, <2>2, <2>4, OneLess DEF Semaphores
  <2>. QED BY <1>1, <1>2, <1>3, <2>1, <2>2, <2>5, <2>6, <2>7, Same
<1>. QED BY <1>7, <1>9, <1>10, <1>15, <1>16, <1>17, <1>18 DEF Next, Terminated

(* The whole of it, as one inductive invariant. *)
DaemonInv == TypeOK /\ ServeInv /\ SlotsInv

LEMMA InvHolds == Spec => []DaemonInv
<1>1. Init => DaemonInv
  BY TypeInit, SlotsInit DEF DaemonInv
<1>2. DaemonInv /\ [Next]_vars => DaemonInv'
  <2>1. SlotsInv => IsFiniteSet(Running("peer"))
    BY DEF SlotsInv, Balanced, Holders, Semaphores
  <2>. QED BY <2>1, TypeStep, SlotsStep DEF DaemonInv
<1>. QED BY <1>1, <1>2, PTL DEF Spec

(* Types; and a request in flight on a connection keeps that connection's  *)
(* task and slot, and came from a trusted peer.                            *)
THEOREM TypeCorrect == Spec => []TypeOK
<1>1. DaemonInv => TypeOK
  BY DEF DaemonInv
<1>. QED BY <1>1, InvHolds, PTL

(* daemon.rs and server.rs: of each of the four semaphores, the free       *)
(* permits and the tasks that hold one add up to its limit at all times,   *)
(* whatever way tasks end; so none is lost, none is given back twice, and  *)
(* no limit is exceeded.                                                   *)
THEOREM NoPermitLost == Spec => []PermitsAccounted
<1>1. DaemonInv => PermitsAccounted
  <2>. SUFFICES ASSUME DaemonInv PROVE PermitsAccounted
    OBVIOUS
  <2>1. \A s \in Semaphores : free[s] = Limit[s] - Cardinality(Holders(s))
    BY DEF DaemonInv, SlotsInv, Balanced
  <2>2. /\ free["conn"] = Limit["conn"] - Cardinality(Holders("conn"))
        /\ free["localconn"] = Limit["localconn"] - Cardinality(Holders("localconn"))
        /\ free["peer"] = Limit["peer"] - Cardinality(Holders("peer"))
        /\ free["local"] = Limit["local"] - Cardinality(Holders("local"))
    BY <2>1 DEF Semaphores
  <2>3. /\ Holders("conn") = {c \in Conns : HoldsSlot(c)}
        /\ Holders("localconn") = {r \in LocalReqs : Open(r)}
        /\ Holders("peer") = Running("peer") /\ Holders("local") = Running("local")
    BY DEF Holders
  <2>. QED BY <2>2, <2>3, LimitTypes DEF PermitsAccounted
<1>. QED BY <1>1, InvHolds, PTL

-----------------------------------------------------------------------------
(* The inductive invariant of NoOrphans: a process group belongs to a      *)
(* running request, and when daemon() has returned no task is left whose   *)
(* request could run.                                                      *)
OrphanInv ==
  /\ \A r \in Reqs : Living(r) => req[r] = "running"
  /\ daemon = "down" => /\ \A c \in Conns : ~HoldsSlot(c)
                        /\ \A r \in LocalReqs : ~Open(r)

(* Every step keeps OrphanInv. *)
LEMMA OrphanStep == TypeOK /\ ServeInv /\ OrphanInv /\ [Next]_vars => OrphanInv'
<1>. SUFFICES ASSUME TypeOK, ServeInv, OrphanInv, [Next]_vars PROVE OrphanInv'
  OBVIOUS
<1>. USE DEF Reqs
<1>1. ASSUME NEW c \in Conns, EndConn(c) PROVE OrphanInv'
  BY <1>1 DEF OrphanInv, TypeOK, EndConn, Living, HoldsSlot, Open
<1>2. ASSUME NEW c \in Conns, ConnStep(c) PROVE OrphanInv'
  <2>1. CASE EndConn(c)
    BY <1>1, <2>1
  <2>2. CASE Incoming(c)
    BY <2>2 DEF OrphanInv, TypeOK, Incoming, Living, HoldsSlot, Open
  <2>3. CASE Handshaken(c) /\ ~EndConn(c)
    BY <2>3 DEF OrphanInv, TypeOK, Handshaken, Living, HoldsSlot, Open
  <2>4. CASE Closes(c)
    BY <2>4 DEF OrphanInv, TypeOK, Closes, Living, HoldsSlot, Open
  <2>. QED BY <1>2, <2>1, <2>2, <2>3, <2>4 DEF ConnStep, HandshakeFails, Drained
<1>3. ASSUME NEW r \in PeerReqs, NEW c \in Conns, OpenStream(r, c) PROVE OrphanInv'
  <2>1. daemon # "down"
    BY <1>3 DEF OrphanInv, OpenStream, HoldsSlot
  <2>. QED BY <1>3, <2>1 DEF OrphanInv, TypeOK, OpenStream, Living
<1>4. ASSUME NEW r \in LocalReqs, AcceptLocal(r) PROVE OrphanInv'
  BY <1>4 DEF OrphanInv, TypeOK, AcceptLocal, Living
(* No request of a daemon that is down can still be open. *)
<1>5. ASSUME NEW r \in Reqs, Open(r) PROVE daemon # "down"
  BY <1>5, InFlight, ConnsAssumption DEF OrphanInv
<1>6. ASSUME NEW r \in Reqs, ReqStep(r) PROVE OrphanInv'
  <2>1. CASE \E spawns \in BOOLEAN : Admit(r, spawns)
    <3>1. daemon # "down"
      BY <1>5, <2>1 DEF Admit, Open
    <3>. QED BY <2>1, <3>1 DEF OrphanInv, TypeOK, Admit, Living
  <2>2. CASE Refuse(r)
    <3>1. daemon # "down"
      BY <1>5, <2>2 DEF Refuse, Open
    <3>. QED BY <2>2, <3>1 DEF OrphanInv, TypeOK, Refuse, Living
  <2>3. CASE Finish(r)
    <3>1. daemon # "down"
      BY <1>5, <2>3 DEF Finish, Open
    <3>. QED BY <2>3, <3>1 DEF OrphanInv, TypeOK, Finish, Reap, Living
  <2>4. CASE ReadFails(r) \/ Reply(r)
    <3>1. Open(r) /\ req[r] # "running" /\ EndReq(r)
      BY <2>4 DEF ReadFails, Reply, Open
    <3>2. daemon # "down" /\ ~Living(r)
      BY <1>5, <3>1 DEF OrphanInv
    <3>3. \A q \in Reqs \ {r} : req'[q] = req[q]
      BY <3>1, ForgetFacts DEF EndReq
    <3>. QED BY <3>1, <3>2, <3>3 DEF OrphanInv, EndReq, Living
  <2>5. CASE \E rest \in {"lingering", "none"} : ChildExits(r, rest)
    BY <2>5 DEF OrphanInv, TypeOK, ChildExits, Living, HoldsSlot, Open
  <2>. QED BY <1>6, <2>1, <2>2, <2>3, <2>4, <2>5 DEF ReqStep
<1>7. ASSUME NEW c \in Conns, AbortConn(c) PROVE OrphanInv'
  <2>. DEFINE mine == {r \in PeerReqs : on[r] = c /\ Open(r)}
  <2>1. /\ daemon = "stopping" /\ daemon' = daemon /\ Forget(mine)
        /\ child' = [r \in Reqs |-> IF r \in mine THEN "none" ELSE child[r]]
    BY <1>7 DEF AbortConn
  <2>2. \A r \in Reqs : r \notin mine => req'[r] = req[r]
    BY <2>1, ForgetFacts
  <2>. QED BY <2>1, <2>2 DEF OrphanInv, Living
<1>8. ASSUME NEW r \in LocalReqs, AbortLocal(r) PROVE OrphanInv'
  <2>1. daemon = "stopping" /\ daemon' = daemon /\ Forget({r}) /\ Reap(r)
    BY <1>8 DEF AbortLocal
  <2>2. \A q \in Reqs \ {r} : req'[q] = req[q]
    BY <2>1, ForgetFacts
  <2>. QED BY <2>1, <2>2 DEF OrphanInv, TypeOK, Reap, Living
<1>9. CASE Stop \/ Down \/ UNCHANGED vars
  BY <1>9 DEF OrphanInv, Stop, Down, vars, Living, HoldsSlot, Open
<1>. QED BY <1>2, <1>3, <1>4, <1>6, <1>7, <1>8, <1>9 DEF Next, Terminated

(* exec.rs and daemon.rs together: no process of a command, not even one   *)
(* it left in the background, outlives its request or the daemon,          *)
(* whichever way the request ends.                                         *)
THEOREM OrphanFree == Spec => []NoOrphans
<1>1. Init => OrphanInv
  BY DEF Init, OrphanInv, Living, HoldsSlot, Open, Reqs
<1>2. DaemonInv /\ OrphanInv => NoOrphans
  BY InFlight, ConnsAssumption DEF DaemonInv, OrphanInv, NoOrphans, Open, Reqs
<1>3. DaemonInv /\ OrphanInv /\ [Next]_vars => OrphanInv'
  BY OrphanStep DEF DaemonInv
<1>. QED BY <1>1, <1>2, <1>3, InvHolds, PTL DEF Spec

-----------------------------------------------------------------------------
(* server.rs, BUSY: a request is refused only while max_concurrent         *)
(* requests of its own source are running.                                 *)
THEOREM BusyIsOwnFault == Spec => BusyOnlyByOwnSource
<1>1. DaemonInv /\ [Next]_vars =>
        [\A r \in Reqs : answer[r] = None /\ answer'[r] = "busy" =>
                           Cardinality(Running(Source(r))) = MaxConcurrent]_vars
  <2>. SUFFICES ASSUME DaemonInv, [Next]_vars, NEW r \in Reqs, answer[r] = None, answer'[r] = "busy"
                PROVE  Cardinality(Running(Source(r))) = MaxConcurrent
    OBVIOUS
  <2>. USE ConnsAssumption
  <2>0. TypeOK
    BY DEF DaemonInv
  <2>1. ASSUME answer' = answer PROVE FALSE
    BY <2>1
  <2>2. ASSUME NEW over \in SUBSET Reqs, Forget(over) PROVE FALSE
    BY <2>0, <2>2, ForgetFacts
  <2>3. ASSUME NEW q \in Reqs, Finish(q) PROVE FALSE
    BY <2>0, <2>3 DEF Finish, TypeOK
  <2>4. ASSUME NEW c \in Conns, ConnStep(c) PROVE FALSE
    BY <2>1, <2>4 DEF ConnStep, Incoming, Handshaken, HandshakeFails, EndConn, Closes, Drained
  <2>5. ASSUME NEW c \in Conns, AbortConn(c) PROVE FALSE
    <3>1. {q \in PeerReqs : on[q] = c /\ Open(q)} \in SUBSET Reqs
      BY DEF Reqs
    <3>. QED BY <2>2, <2>5, <3>1 DEF AbortConn
  <2>6. ASSUME NEW q \in LocalReqs, AbortLocal(q) \/ AcceptLocal(q) PROVE FALSE
    BY <2>1, <2>2, <2>6 DEF AbortLocal, AcceptLocal, Reqs
  <2>7. ASSUME NEW q \in PeerReqs, NEW c \in Conns, OpenStream(q, c) PROVE FALSE
    BY <2>1, <2>7 DEF OpenStream
  <2>8. ASSUME Stop \/ Down \/ UNCHANGED vars PROVE FALSE
    BY <2>1, <2>8 DEF Stop, Down, vars
  <2>9. ASSUME NEW q \in Reqs, ReqStep(q) PROVE q = r /\ Refuse(r)
    <3>1. CASE Refuse(q)
      BY <2>0, <3>1 DEF Refuse, TypeOK
    <3>2. CASE ReadFails(q) \/ Reply(q)
      BY <2>2, <3>2 DEF ReadFails, Reply, EndReq
    <3>3. CASE \/ \E spawns \in BOOLEAN : Admit(q, spawns)
               \/ \E rest \in {"lingering", "none"} : ChildExits(q, rest)
      BY <2>1, <3>3 DEF Admit, ChildExits
    <3>. QED BY <2>3, <2>9, <3>1, <3>2, <3>3 DEF ReqStep
  <2>10. Refuse(r)
    BY <2>4, <2>5, <2>6, <2>7, <2>8, <2>9 DEF Next, Terminated
  <2>11. Source(r) \in {"peer", "local"} /\ free[Source(r)] = 0
    BY <2>10 DEF Refuse, Permits, Source
  <2>12. Holders(Source(r)) = Running(Source(r)) /\ Limit[Source(r)] = MaxConcurrent
    BY <2>11, LimitTypes DEF Holders
  <2>13. free[Source(r)] = MaxConcurrent - Cardinality(Running(Source(r)))
         /\ IsFiniteSet(Running(Source(r)))
    BY <2>11, <2>12 DEF DaemonInv, SlotsInv, Balanced, Semaphores
  <2>14. Cardinality(Running(Source(r))) \in Nat /\ MaxConcurrent \in Nat
    BY <2>13, FS_CardinalityType, DaemonLimitsAssumption
  <2>. QED BY <2>11, <2>13, <2>14
<1>. QED BY <1>1, InvHolds, PTL DEF Spec, BusyOnlyByOwnSource

(* server.rs line 49: while the daemon is up, a request that runs is left  *)
(* only with its result on the way, although its connection may be gone.   *)
THEOREM ReceivedComplete == Spec => ReceivedStillCompletes
<1>1. TypeOK /\ [Next]_vars =>
        [\A r \in Reqs : daemon = "up" /\ req[r] = "running" /\ req'[r] # "running" =>
                           req'[r] = "replying" /\ answer'[r] = "result"]_vars
  <2>. SUFFICES ASSUME TypeOK, [Next]_vars, NEW r \in Reqs, daemon = "up", req[r] = "running",
                       req'[r] # "running"
                PROVE  req'[r] = "replying" /\ answer'[r] = "result"
    OBVIOUS
  <2>1. ASSUME req' = req PROVE FALSE
    BY <2>1
  <2>2. ASSUME NEW q \in Reqs, req[q] # "running", \A o \in Reqs \ {q} : req'[o] = req[o] PROVE FALSE
    BY <2>2
  <2>3. ASSUME NEW q \in Reqs, EndReq(q), req[q] # "running" PROVE FALSE
    <3>1. \A o \in Reqs \ {q} : req'[o] = req[o]
      BY <2>3, ForgetFacts DEF EndReq
    <3>. QED BY <2>2, <2>3, <3>1
  <2>4. ASSUME NEW c \in Conns, ConnStep(c) \/ AbortConn(c) PROVE FALSE
    BY <2>1, <2>4 DEF ConnStep, Incoming, Handshaken, HandshakeFails, EndConn, Closes, Drained,
                      AbortConn
  <2>5. ASSUME NEW q \in LocalReqs, AbortLocal(q) \/ AcceptLocal(q) PROVE FALSE
    <3>1. q \in Reqs
      BY DEF Reqs
    <3>. QED BY <2>2, <2>5, <3>1 DEF AbortLocal, AcceptLocal, TypeOK
  <2>6. ASSUME NEW q \in PeerReqs, NEW c \in Conns, OpenStream(q, c) PROVE FALSE
    <3>1. q \in Reqs
      BY DEF Reqs
    <3>. QED BY <2>2, <2>6, <3>1 DEF OpenStream, TypeOK
  <2>7. ASSUME Stop \/ Down \/ UNCHANGED vars PROVE FALSE
    BY <2>1, <2>7 DEF Stop, Down, vars
  <2>8. ASSUME NEW q \in Reqs, ReqStep(q) PROVE q = r /\ Finish(r)
    <3>1. CASE (\E spawns \in BOOLEAN : Admit(q, spawns)) \/ Refuse(q)
      BY <2>2, <3>1 DEF Admit, Refuse, TypeOK
    <3>2. CASE ReadFails(q) \/ Reply(q)
      BY <2>3, <3>2 DEF ReadFails, Reply
    <3>3. CASE \E rest \in {"lingering", "none"} : ChildExits(q, rest)
      BY <2>1, <3>3 DEF ChildExits
    <3>4. CASE Finish(q)
      BY <3>4 DEF Finish, TypeOK
    <3>. QED BY <2>8, <3>1, <3>2, <3>3, <3>4 DEF ReqStep
  <2>9. Finish(r)
    BY <2>4, <2>5, <2>6, <2>7, <2>8 DEF Next, Terminated
  <2>. QED BY <2>9 DEF Finish, TypeOK
<1>. QED BY <1>1, TypeCorrect, PTL DEF Spec, ReceivedStillCompletes

=============================================================================
