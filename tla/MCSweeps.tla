------------------------------- MODULE MCSweeps -------------------------------
(* A small instance of Sweeps.                                                *)
EXTENDS Sweeps, TLC

CONSTANTS w1, w2, w3, i1, i2, c1, s1, q1, q2, x1, x2, b1, b2, d1, d2, v1, v2

MCTrigger == (w1 :> "MESSAGE_MATCHES") @@ (w2 :> "SCHEDULE") @@ (w3 :> "WEBHOOK_RECEIVED")
MCActions == <<"POST_MESSAGE", "HTTP_CALL">>
MCSymmetry == Permutations(Instances)

\* While another service runs, one of the initial states of WorkflowRuns is enough.
MCInit == SweepsInit /\ (about # "runs" => workflows[w3].live)
MCSpec == MCInit /\ [][SweepsNext]_sweepsVars
================================================================================
