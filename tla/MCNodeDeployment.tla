--------------------------- MODULE MCNodeDeployment ---------------------------
(***************************************************************************)
(* The two kinds of job the panel runs on a host over SSH, checked side by *)
(* side: a behaviour is one of the deployments of the host or one of the   *)
(* archives of its node, and the other stays as it began.  What they share *)
(* is the host's lock and the panel's death, which both modules have.      *)
(***************************************************************************)
EXTENDS NodeArchives

CONSTANTS MaxDeploys, MaxFaults

ASSUME BoundAssumption == MaxDeploys \in Nat \ {0} /\ MaxFaults \in Nat

VARIABLES part, mode, row, trust, cur, pc, told, net, tx, phase, intent, pki, staged, units,
          loaded, hooks, legacy, native, vpn, pinned, op, at, faults

archives   == vars
deployment == <<mode, row, trust, cur, pc, told, net, tx, phase, intent, pki, staged, units,
                loaded, hooks, legacy, native, vpn, pinned, op, at, faults>>

Deployments == INSTANCE NodeDeployment

Begins ==
    /\ Init /\ Deployments!Init
    /\ part \in {"deployment", "archives"}
    /\ part = "archives" => mode = "fresh"

DeploymentSteps == part = "deployment" /\ Deployments!Next /\ UNCHANGED <<part, archives>>
ArchivesSteps   == part = "archives" /\ Next /\ UNCHANGED <<part, deployment>>

\* Nothing the fairness of NodeDeployment is about is enabled before a job is
\* started, so it asks nothing of the archives.
HostJobs ==
    /\ Begins
    /\ [][DeploymentSteps \/ ArchivesSteps]_<<part, deployment, archives>>
    /\ Deployments!Fairness

(* NodeDeployment: whatever fails, a registered node is not rolled back.      *)
RegisteredServed == Deployments!RegisteredServed
(* NodeDeployment: panel and hooks find the agent they go to.                 *)
AgentBehindRow   == Deployments!AgentBehindRow
(* NodeDeployment: what is begun is finalized, rolled back or barred.         *)
TransactionsEnd  == Deployments!TransactionsEnd
================================================================================
