------------------------------- MODULE MCLog -------------------------------
(***************************************************************************)
(* The append-only log with its syncs and rewrites (AppendOnly), and the   *)
(* flags that keep writes and the copy that a rewrite takes of the state   *)
(* apart (StateCopy), for TLC.  The model of each has what it needs of the *)
(* other; in a behaviour one of them moves, and the other stays as it      *)
(* started.                                                                *)
(***************************************************************************)
EXTENDS StateCopy, AppendOnly

VARIABLE part   \* the part that moves

mcVars == <<gateVars, logVars, part>>

mcInit ==
    /\ GateInit /\ LogInit
    /\ part \in {"gate", "log"}
    /\ part # "log" => strategy = CHOOSE s \in Strategy : TRUE

mcNext ==
    /\ \/ part = "gate" /\ GateNext /\ UNCHANGED logVars
       \/ part = "log" /\ LogNext /\ UNCHANGED gateVars
    /\ UNCHANGED part

(* The part that does not move owes nothing: no step that it would have to *)
(* take is enabled in its initial state.                                   *)
mcSpec == mcInit /\ [][mcNext]_mcVars /\ GateFairness /\ LogFairness
=============================================================================
