------------------------------ MODULE Lockstep ------------------------------
(***************************************************************************)
(* What the message rounds promise, without messages: the servers go       *)
(* through the same numbered rounds, and a server finishes a round only    *)
(* when every server has entered it, so all of them contributed to it.  A  *)
(* server may leave at any point and then never moves again.               *)
(***************************************************************************)
EXTENDS Integers

CONSTANTS Parties, LastRound

VARIABLES
    entered,    \* the last round each server has entered
    finished,   \* the last round each server has finished
    gone        \* the servers that have returned or died

lvars == <<entered, finished, gone>>

LockstepTypeOK ==
    /\ entered \in [Parties -> 0..LastRound]
    /\ finished \in [Parties -> 0..LastRound]
    /\ gone \subseteq Parties

LockstepInit ==
    /\ entered = [p \in Parties |-> 0]
    /\ finished = [p \in Parties |-> 0]
    /\ gone = {p \in Parties : LastRound = 0}

Enter(p) ==
    /\ p \notin gone
    /\ entered[p] = finished[p]
    /\ entered[p] < LastRound
    /\ entered' = [entered EXCEPT ![p] = @ + 1]
    /\ UNCHANGED <<finished, gone>>

Finish(p) ==
    /\ p \notin gone
    /\ entered[p] = finished[p] + 1
    /\ \A q \in Parties : entered[q] >= entered[p]
    /\ finished' = [finished EXCEPT ![p] = @ + 1]
    /\ gone' = IF entered[p] = LastRound THEN gone \cup {p} ELSE gone
    /\ UNCHANGED entered

Leave(p) ==
    /\ p \notin gone
    /\ gone' = gone \cup {p}
    /\ UNCHANGED <<entered, finished>>

LockstepNext == \E p \in Parties : Enter(p) \/ Finish(p) \/ Leave(p)

LockstepSpec == LockstepInit /\ [][LockstepNext]_lvars
=============================================================================
