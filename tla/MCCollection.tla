----------------------------- MODULE MCCollection -----------------------------
(* What the collector runtime promises, component by component.  In a behaviour  *)
(* one component acts, the one `acting` names: the others do not move, so the   *)
(* states add up instead of multiplying.                                        *)
EXTENDS GraphWriter, OrganizationRun, Collection, IamCollection, FindingSweep,
        IncrementalBatch, TLC

\* Two accounts in a small organization, two workers.
OrgHome  == "a1" :> "ou" @@ "a2" :> "other"
OrgAbove == "root" :> "root" @@ "ou" :> "root" @@ "other" :> "other"
OrgParents == <<"root", "ou">>
OrgRegions == <<"ra", "rb">>
ASSUME OrganizationParameters == Organized

\* Four stages, two at once, and both capped lists.
AccountStages == <<"ec2-instances", "s3", "subnets", "internet-gateways">>
StageResources == {<<"s3", "bucket">>, <<"subnets", "subnet">>,
                   <<"internet-gateways", "gateway">>, <<"ec2-instances", "instance">>}

\* Two accounts that share an AWS-managed policy; one has a policy of its own.
IamKinds == <<"user", "role">>
Principal(n, a, k) == [name |-> n, account |-> a, kind |-> k]
IamPrincipals == {Principal("u", "a", "user"), Principal("r", "a", "role"), Principal("u", "b", "user")}
IamAttachments == {<<p, "M">> : p \in IamPrincipals} \cup {<<Principal("u", "a", "user"), "L">>}
IamOwners == "L" :> "a"
IamWalks == "a" :> 2 @@ "b" :> 1

\* Two Regions, three findings on two resources.
GuardDutyRegions == <<"r1", "r2">>
FindingRegion == "f1" :> "r1" @@ "f2" :> "r1" @@ "g" :> "r2"
FindingTarget == "f1" :> "x" @@ "f2" :> "y" @@ "g" :> "x"

\* Four events of two accounts: the first always fails, the last changes nothing.
EventOrder == <<"a", "a", "b", "b">>

VARIABLE acting

AllInit ==
  /\ acting \in {"writer", "organization", "account", "iam", "stages", "findings", "events"}
  /\ Init
  /\ OrganizationInit
  /\ AccountInit
  /\ IamInit
  /\ StagesInit /\ (acting = "stages" \/ service = "s3")
  /\ SweepInit /\ (acting = "findings" \/ unarchived = {})
  /\ BatchInit

WriterActs ==
  /\ acting = "writer" /\ Next
  /\ UNCHANGED <<acting, organizationRunVars, collectionVars, iamCollectionVars, stageVars,
                 findingSweepVars, batchVars>>
OrganizationActs ==
  /\ acting = "organization" /\ OrganizationNext
  /\ UNCHANGED <<acting, writerServiceVars, collectionVars, iamCollectionVars, stageVars,
                 findingSweepVars, batchVars>>
AccountActs ==
  /\ acting = "account" /\ AccountNext
  /\ UNCHANGED <<acting, writerServiceVars, organizationRunVars, iamCollectionVars,
                 stageVars, findingSweepVars, batchVars>>
IamActs ==
  /\ acting = "iam" /\ IamNext
  /\ UNCHANGED <<acting, writerServiceVars, organizationRunVars, collectionVars, stageVars,
                 findingSweepVars, batchVars>>
StageActs ==
  /\ acting = "stages" /\ StagesNext
  /\ UNCHANGED <<acting, writerServiceVars, organizationRunVars, collectionVars,
                 iamCollectionVars, findingSweepVars, batchVars>>
GuardActs ==
  /\ acting = "findings" /\ SweepNext
  /\ UNCHANGED <<acting, writerServiceVars, organizationRunVars, collectionVars,
                 iamCollectionVars, stageVars, batchVars>>
BatchActs ==
  /\ acting = "events" /\ BatchNext
  /\ UNCHANGED <<acting, writerServiceVars, organizationRunVars, collectionVars,
                 iamCollectionVars, stageVars, findingSweepVars>>

AllNext == WriterActs \/ OrganizationActs \/ AccountActs \/ IamActs \/ StageActs \/
  GuardActs \/ BatchActs
allVars == <<acting, writerServiceVars, organizationRunVars, collectionVars,
            iamCollectionVars, stageVars, findingSweepVars, batchVars>>
AllSpec == AllInit /\ [][AllNext]_allVars
===============================================================================
