------------------------------ MODULE MCOffice ------------------------------
(***************************************************************************)
(* The components that share no state, one behaviour of one component at a *)
(* time: scene says of which, and the others stay where they begin.        *)
(***************************************************************************)
EXTENDS ExternalAgents, QueueTick, ResumeTick, OcidRegistry,
        OwnerPhases, DeadZone, PmCycle, CreditLedger, EmergencyCascade,
        TaskFiles, TaskGateway, OwnerReconcile, TLC

VARIABLE scene

Scenes == {"external", "queue", "resume", "ocid", "life", "phases", "zone",
           "pm", "credit", "cascade", "files", "gateway", "reconcile"}

officevars == <<scene, xvars, qvars, rvars, ovars, lifevars, pvars, zvars,
                pmvars, cvars, evars, filevars, gatevars, recvars>>

OfficeTypeOK ==
    /\ scene \in Scenes
    /\ scene = "external" => ExtTypeOK
    /\ scene = "queue" => QueueTypeOK
    /\ scene = "resume" => ResumeTypeOK
    /\ scene = "ocid" => OcidTypeOK
    /\ scene = "life" => LifeTypeOK
    /\ scene = "phases" => PhaseTypeOK
    /\ scene = "zone" => ZoneTypeOK
    /\ scene = "pm" => PmTypeOK
    /\ scene = "credit" => CreditTypeOK
    /\ scene = "cascade" => CascadeTypeOK
    /\ scene = "files" => FilesTypeOK
    /\ scene = "gateway" => GateTypeOK
    /\ scene = "reconcile" => ReconcileTypeOK

OfficeInit ==
    /\ scene \in Scenes
    /\ ExtInit
    /\ QueueInit
    /\ ResumeInit
    /\ OcidInit
    /\ LifeInit
    /\ PhaseInit
    /\ ZoneInit
    /\ PmInit
    /\ CreditInit
    /\ CascadeInit
    /\ FilesInit
    /\ GateInit
    /\ ReconcileInit
    /\ scene # "ocid" => \A o, p \in Ocids : ocid[o] = ocid[p] /\ ~ocid[o].claim

OfficeNext ==
    \/ /\ scene = "external" /\ ExtNext
       /\ UNCHANGED <<scene, qvars, rvars, ovars, lifevars, pvars, zvars, pmvars,
                      cvars, evars, filevars, gatevars, recvars>>
    \/ /\ scene = "queue" /\ QueueNext
       /\ UNCHANGED <<scene, xvars, rvars, ovars, lifevars, pvars, zvars, pmvars,
                      cvars, evars, filevars, gatevars, recvars>>
    \/ /\ scene = "resume" /\ ResumeNext
       /\ UNCHANGED <<scene, xvars, qvars, ovars, lifevars, pvars, zvars, pmvars,
                      cvars, evars, filevars, gatevars, recvars>>
    \/ /\ scene = "ocid" /\ OcidNext
       /\ UNCHANGED <<scene, xvars, qvars, rvars, lifevars, pvars, zvars, pmvars,
                      cvars, evars, filevars, gatevars, recvars>>
    \/ /\ scene = "life" /\ LifeNext
       /\ UNCHANGED <<scene, xvars, qvars, rvars, ovars, pvars, zvars, pmvars, cvars,
                      evars, filevars, gatevars, recvars>>
    \/ /\ scene = "phases" /\ PhaseNext
       /\ UNCHANGED <<scene, xvars, qvars, rvars, ovars, lifevars, zvars, pmvars,
                      cvars, evars, filevars, gatevars, recvars>>
    \/ /\ scene = "zone" /\ ZoneNext
       /\ UNCHANGED <<scene, xvars, qvars, rvars, ovars, lifevars, pvars, pmvars,
                      cvars, evars, filevars, gatevars, recvars>>
    \/ /\ scene = "pm" /\ PmNext
       /\ UNCHANGED <<scene, xvars, qvars, rvars, ovars, lifevars, pvars, zvars,
                      cvars, evars, filevars, gatevars, recvars>>
    \/ /\ scene = "credit" /\ CreditNext
       /\ UNCHANGED <<scene, xvars, qvars, rvars, ovars, lifevars, pvars, zvars,
                      pmvars, evars, filevars, gatevars, recvars>>
    \/ /\ scene = "cascade" /\ CascadeNext
       /\ UNCHANGED <<scene, xvars, qvars, rvars, ovars, lifevars, pvars, zvars,
                      pmvars, cvars, filevars, gatevars, recvars>>
    \/ /\ scene = "files" /\ FilesNext
       /\ UNCHANGED <<scene, xvars, qvars, rvars, ovars, lifevars, pvars, zvars,
                      pmvars, cvars, evars, gatevars, recvars>>
    \/ /\ scene = "gateway" /\ GateNext
       /\ UNCHANGED <<scene, xvars, qvars, rvars, ovars, lifevars, pvars, zvars,
                      pmvars, cvars, evars, filevars, recvars>>
    \/ /\ scene = "reconcile" /\ ReconcileNext
       /\ UNCHANGED <<scene, xvars, qvars, rvars, ovars, lifevars, pvars, zvars,
                      pmvars, cvars, evars, filevars, gatevars>>

OfficeSpec == OfficeInit /\ [][OfficeNext]_officevars

-----------------------------------------------------------------------------
\* The second module item depends on the first.
OfficeDeps == [i \in ModuleItems |-> IF i = "m2" THEN {"m1"} ELSE {}]

\* One row belongs to two phases, in the last of which it is alone.
OfficeMembers == <<{1}, {2, 3}, {3}>>

\* The processes and the tasks of the task files are told apart by nothing.
OfficeSymmetry == Permutations(TaskIds) \cup Permutations(Callers)

-----------------------------------------------------------------------------
(* Properties that join those of two components *)

\* What is recorded of an OCID happened: the certification of a plan stands on real
\* merges and audits (PmCycle), and its lifecycle leaves out no stage (OcidRegistry).
OcidsProven == CertifiedIsReal /\ NoStageSkipped

\* No task is made twice under one title (TaskGateway), and what a call saved of a
\* task stays in its file (TaskFiles).
TasksKept == OneTaskPerTitle /\ NothingLost
=============================================================================
