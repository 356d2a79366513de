------------------------------- MODULE MCStore -------------------------------
\* What happens to the database of the coordinator: its history of requests
\* across restarts, a deployment with its migration, and the consolidation of
\* the legacy accounts, one or the other: the focus is chosen at the start.
EXTENDS RequestOutcomes, Deployment, Consolidation

VARIABLE focus
mcVars == <<vars, deploymentVars, consolidationVars, focus>>

\* One initial state of a part that is not in focus
DeploymentRests == /\ before = [cols |-> AllColumns, route |-> TRUE, production |-> TRUE]
                   /\ \A c \in Credentials : db.principal[c] = "absent"
                   /\ db.anon /\ db.key = "none"
ConsolidationRests == /\ book.tokens = [s \in Stable |-> IF s = CHOOSE c \in Stable : TRUE
                                                         THEN "active" ELSE "none"]
                      /\ unexplained = {} /\ Booked(book) = {}

\* Ids are interchangeable: the first ones are given out first
FirstPrincipal == CHOOSE f \in [Credentials -> PrincipalIds] :
                      \A a, b \in Credentials : f[a] = f[b] => a = b
FirstIdsFirst == /\ \A c \in Credentials : db.principal[c] \in {"absent", "unset", FirstPrincipal[c]}
                 /\ db.key \in {"none", CHOOSE k \in KeyIds : TRUE}

MCInit ==
    /\ focus \in {"outcomes", "deployment", "consolidation"}
    /\ Init
    /\ DeploymentInit
    /\ IF focus = "deployment"
       THEN /\ FirstIdsFirst
            /\ Cardinality(before.cols) # 3
            /\ db.key # "none" => db.anon
            /\ before.production => db.anon /\ db.key = "none"
       ELSE DeploymentRests
    /\ ConsolidationInit
    /\ focus = "consolidation" \/ ConsolidationRests

\* A request that has started and is not recorded is not seen by the others: one at a time
OneStarts == Cardinality({r \in Requests : stage'[r] = "started"}) <= 1

MCNext ==
    \/ focus = "outcomes" /\ Next /\ OneStarts /\ UNCHANGED <<deploymentVars, consolidationVars, focus>>
    \/ focus = "deployment" /\ DeploymentNext /\ UNCHANGED <<vars, consolidationVars, focus>>
    \/ focus = "consolidation" /\ ConsolidationNext /\ UNCHANGED <<vars, deploymentVars, focus>>

\* What is fair of a part that is not in focus is disabled
MCSpec == /\ MCInit /\ [][MCNext]_mcVars
          /\ WF_vars(Prune) /\ WF_vars(Complete)
          /\ DeploymentFairness

\* Rows that are too old leave although no request comes (outcome_cleanup_loop), and
\* the coordinator serves in the end whatever became of a deployment (launchd).
StoreProgresses == OldRowsLeave /\ ServiceComesUp
=============================================================================
