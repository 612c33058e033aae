---------------------------- MODULE ExecOutcome -----------------------------
(***************************************************************************)
(* What a caller of a remote exec is promised: the command runs at most    *)
(* once, and an answer other than "the outcome is unknown" is the truth,   *)
(* now and for good.  Dialer implements this for every exec it carries.    *)
(***************************************************************************)
CONSTANT Callers

VARIABLES outcome,    \* what the caller was told, "pending" until then
          submitted,  \* the request may have left for the peer
          ran         \* the peer started the command

evars == <<outcome, submitted, ran>>

Init == /\ outcome = [c \in Callers |-> "pending"]
        /\ submitted = [c \in Callers |-> FALSE]
        /\ ran = [c \in Callers |-> FALSE]

(* The one submission of the request. *)
Submit(c) == /\ outcome[c] = "pending" /\ ~submitted[c]
             /\ submitted' = [submitted EXCEPT ![c] = TRUE]
             /\ UNCHANGED <<outcome, ran>>

(* The peer runs it, perhaps long after the caller has given up, but never *)
(* twice and never once the caller was told that it was refused.           *)
Run(c) == /\ submitted[c] /\ ~ran[c]
          /\ outcome[c] \notin {"ok", "busy", "err"}
          /\ ran' = [ran EXCEPT ![c] = TRUE]
          /\ UNCHANGED <<outcome, submitted>>

(* "gone" is a caller that was dropped before it was told anything.        *)
Tell(c) == /\ outcome[c] = "pending"
           /\ \E o \in {"ok", "busy", "err", "unknown", "gone"} :
                /\ o = "ok" => ran[c]
                /\ o = "busy" => submitted[c] /\ ~ran[c]
                /\ o = "err" => ~submitted[c]
                /\ o = "unknown" => submitted[c]
                /\ outcome' = [outcome EXCEPT ![c] = o]
           /\ UNCHANGED <<submitted, ran>>

Next == \E c \in Callers : Submit(c) \/ Run(c) \/ Tell(c)

Spec == Init /\ [][Next]_evars
=============================================================================
