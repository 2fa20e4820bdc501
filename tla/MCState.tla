------------------------------ MODULE MCState ------------------------------
(***************************************************************************)
(* The state that a server keeps, for TLC: its keys under the generic      *)
(* commands (CommandProperties), the values of the data types (DataTypes), *)
(* its users (AccessControl) and its snapshots (Snapshot).  Each is        *)
(* checked by itself, for safety: in a behaviour one part moves, and the   *)
(* others stay as they started.                                            *)
(***************************************************************************)
EXTENDS MCCommands, MCAccessControl, Snapshot

CONSTANTS
    k3, NoCall, Member, Inf, Weight, MaxCount, Element, Field, ListItem,
    MaxLength, Digit, MaxString

VARIABLES
    family, values, shared, call,   \* the variables of DataTypes
    part                            \* the part that moves

-----------------------------------------------------------------------------
(* Three keys for the sets, which share objects, two where two keys meet.  *)
mcKey == {k1, k2, k3}
mcKeysOf == [zset |-> {k1, k2}, set |-> mcKey, hash |-> {k1},
             list |-> {k1, k2}, string |-> {k1}]
mcScore == 0..1
mcScalar == [is : {"int", "float"}, val : 1..2] \cup {[is |-> "string", val |-> "s"]}
mcNumber == 0..3
mcChar == {"1", "a"}

D == INSTANCE DataTypes WITH
        store <- values, Key <- mcKey, KeysOf <- mcKeysOf,
        Score <- mcScore, Scalar <- mcScalar, Number <- mcNumber,
        Item <- ListItem, Char <- mcChar

(* The hypothesis of the theorems about DataTypes, for this instance.      *)
ASSUME DataTypesAssumption == D!Inputs

(* See DataTypes: every command leaves well-formed values, ...             *)
ValuesConsistent == D!ValuesConsistent

(* ... ZUNION and ZINTER compute what a flat fold does, ...                *)
AggregatesMatchReference == D!AggregatesMatchReference

(* ... commands have the effects that they are registered with, ...        *)
EffectsDeclared == D!EffectsDeclared

(* ... and none but ErrorsChangeNothing names when they fail, ...          *)
ErrorsChangeNothing == D!ErrorsChangeNothing

(* ... and what was stored before is there, unless a command removes it.   *)
ElementsKept == D!ElementsKept

-----------------------------------------------------------------------------
dataVars == <<family, values, shared, call>>

mcVars == <<cvars, dataVars, accessVars, snapshotVars, part>>

mcInit ==
    /\ CommandsInit /\ D!Init /\ AccessInit /\ SnapshotInit
    /\ part \in {"commands", "data", "access", "snapshot"}
    /\ part # "data" => family = "set"
    /\ part # "access" => file = <<>>

mcNext ==
    /\ \/ /\ part = "commands" /\ CommandsNext
          /\ UNCHANGED <<dataVars, accessVars, snapshotVars>>
       \/ /\ part = "data" /\ D!Next
          /\ UNCHANGED <<cvars, accessVars, snapshotVars>>
       \/ /\ part = "access" /\ AccessNext
          /\ UNCHANGED <<cvars, dataVars, snapshotVars>>
       \/ /\ part = "snapshot" /\ SnapshotNext
          /\ UNCHANGED <<cvars, dataVars, accessVars>>
    /\ UNCHANGED part

mcSpec == mcInit /\ [][mcNext]_mcVars

(* A server whose snapshots have lost their guarantees is not followed:    *)
(* exposed is never lowered again, and the properties of snapshots hold in *)
(* every state in which it is raised.                                      *)
mcGuaranteed == ~exposed
=============================================================================
