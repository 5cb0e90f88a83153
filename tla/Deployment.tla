------------------------------ MODULE Deployment ------------------------------
(***************************************************************************)
(* The API runs as any number of identical processes on one database; each *)
(* of them runs every sweep on a timer of its own.                         *)
(***************************************************************************)
CONSTANTS
    Instances   \* API processes
================================================================================
