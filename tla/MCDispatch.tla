------------------------------ MODULE MCDispatch ------------------------------
(***************************************************************************)
(* What stands between a request and a running unit, and what is recorded  *)
(* of it: the gate that admits units, the order of the governor's rows,    *)
(* what a row must pass before it is spawned and to be closed, and the     *)
(* decisions, reports and checks around them.  They are models without     *)
(* common state; scene says of which the behaviour is, and the others stay *)
(* where they begin.                                                       *)
(***************************************************************************)
EXTENDS DispatchCore, QueueOrder, DispatchEvidence, PmDecisions,
        TerminalGate

VARIABLE scene

Scenes == {"gate", "order", "evidence", "decisions", "closing"}

dispatchvars == <<scene, vars, qovars, evvars, decvars, endvars>>

DispatchTypeOK ==
    /\ scene \in Scenes
    /\ scene = "gate" => TypeOK
    /\ scene = "order" => OrderTypeOK
    /\ scene = "evidence" => EvidenceTypeOK
    /\ scene = "decisions" => DecisionsTypeOK
    /\ scene = "closing" => TerminalTypeOK

DispatchInit ==
    /\ scene \in Scenes
    /\ Init
    /\ OrderInit
    /\ EvidenceInit
    /\ DecisionsInit
    /\ TerminalInit /\ (scene # "closing" => onDisk = FALSE /\ docsOnly = FALSE)

DispatchNext ==
    \/ /\ scene = "gate" /\ Next
       /\ UNCHANGED <<scene, qovars, evvars, decvars, endvars>>
    \/ /\ scene = "order" /\ OrderNext
       /\ UNCHANGED <<scene, vars, evvars, decvars, endvars>>
    \/ /\ scene = "evidence" /\ EvidenceNext
       /\ UNCHANGED <<scene, vars, qovars, decvars, endvars>>
    \/ /\ scene = "decisions" /\ DecisionsNext
       /\ UNCHANGED <<scene, vars, qovars, evvars, endvars>>
    \/ /\ scene = "closing" /\ TerminalNext
       /\ UNCHANGED <<scene, vars, qovars, evvars, decvars>>

\* What fairness is assumed of the order stays disabled in the other scenes.
DispatchSpec == DispatchInit /\ [][DispatchNext]_dispatchvars /\ OrderFairness
=============================================================================
