------------------------------ MODULE StateCopy ------------------------------
(***************************************************************************)
(* How handleCommand (sugardb/modules.go) and getState                     *)
(* (sugardb/keyspace.go) keep a copy of the store, made for a snapshot or  *)
(* an AOF preamble, apart from the write commands: two atomic Booleans,    *)
(* each loaded, tested and stored in separate steps.  The copy itself does *)
(* not take storeLock.                                                     *)
(*                                                                         *)
(* The handlers are abstracted to the time they run and to whether they    *)
(* return an error; their reads and writes are in GenericCommands and the   *)
(* modules of the data types.                                              *)
(***************************************************************************)
EXTENDS Naturals

CONSTANTS
    Client,      \* connections that issue commands
    Copier,      \* goroutines that call getState
    Kind,        \* the kinds of command issued: "read", "write"
    Outcome,     \* how handlers end: "ok", "error"
    MaxOps,      \* bound: commands per client
    MaxCopies    \* bound: copies per copier

ASSUME StateCopyAssumption ==
    /\ Client \cap Copier = {}
    /\ Kind \subseteq {"read", "write"}
    /\ Outcome \subseteq {"ok", "error"}
    /\ MaxOps \in Nat /\ MaxCopies \in Nat

VARIABLES
    stateCopyInProgress,
    stateMutationInProgress,
    at,      \* at[p]: the next step of client or copier p
    kind,    \* kind[c]: the kind of the command that client c runs
    count,   \* count[p]: the commands or copies p has begun
    failed   \* not in the code: the clients whose write returned an error
             \* since stateMutationInProgress was last set to false

gateVars == <<stateCopyInProgress, stateMutationInProgress, at, kind, count, failed>>

GateInit ==
    /\ stateCopyInProgress = FALSE
    /\ stateMutationInProgress = FALSE
    /\ at = [p \in Client \cup Copier |-> "idle"]
    /\ kind = [c \in Client |-> "read"]
    /\ count = [p \in Client \cup Copier |-> 0]
    /\ failed = {}

Goto(p, next) == at' = [at EXCEPT ![p] = next]

flags == <<stateCopyInProgress, stateMutationInProgress>>

-----------------------------------------------------------------------------
(* handleCommand.  A command arrives; only writes go through the gate.     *)
Receive(c, k) ==
    /\ at[c] = "idle"
    /\ count[c] < MaxOps
    /\ count' = [count EXCEPT ![c] = @ + 1]
    /\ kind' = [kind EXCEPT ![c] = k]
    /\ Goto(c, IF k = "write" THEN "gate" ELSE "run")
    /\ UNCHANGED <<flags, failed>>

(* A write spins until it loads FALSE.                                     *)
Gate(c) ==
    /\ at[c] = "gate"
    /\ ~stateCopyInProgress
    /\ Goto(c, "raise")
    /\ UNCHANGED <<flags, kind, count, failed>>

Raise(c) ==
    /\ at[c] = "raise"
    /\ stateMutationInProgress' = TRUE
    /\ Goto(c, "run")
    /\ UNCHANGED <<stateCopyInProgress, kind, count, failed>>

RunNeverLowers(c) ==
    /\ at[c] = "run"
    /\ Goto(c, "idle")
    /\ UNCHANGED <<flags, kind, count, failed>>

(* The handler returns; an error is returned at once, with the flag as it  *)
(* is.  (A successful write is logged before the flag is lowered.)         *)
Run(c) ==
    /\ at[c] = "run"
    /\ \/ "ok" \in Outcome /\ Goto(c, "lower") /\ UNCHANGED failed
       \/ /\ "error" \in Outcome
          /\ Goto(c, "idle")
          /\ failed' = IF kind[c] = "write" THEN failed \cup {c} ELSE failed
    /\ UNCHANGED <<flags, kind, count>>

(* The flag is lowered after any successful command, a read too.           *)
Lower(c) ==
    /\ at[c] = "lower"
    /\ stateMutationInProgress' = FALSE
    /\ failed' = {}
    /\ Goto(c, "idle")
    /\ UNCHANGED <<stateCopyInProgress, kind, count>>

-----------------------------------------------------------------------------
(* getState.  Its loop loads one flag, then the other.                     *)
Ask(p) ==
    /\ at[p] = "idle"
    /\ count[p] < MaxCopies
    /\ count' = [count EXCEPT ![p] = @ + 1]
    /\ Goto(p, "load copy")
    /\ UNCHANGED <<flags, kind, failed>>

LoadCopy(p) ==
    /\ at[p] = "load copy"
    /\ ~stateCopyInProgress
    /\ Goto(p, "load mutation")
    /\ UNCHANGED <<flags, kind, count, failed>>

LoadMutation(p) ==
    /\ at[p] = "load mutation"
    /\ Goto(p, IF stateMutationInProgress THEN "load copy" ELSE "claim")
    /\ UNCHANGED <<flags, kind, count, failed>>

Claim(p) ==
    /\ at[p] = "claim"
    /\ stateCopyInProgress' = TRUE
    /\ Goto(p, "copy")
    /\ UNCHANGED <<stateMutationInProgress, kind, count, failed>>

FinishKeepsFlag(p) ==
    /\ at[p] = "copy"
    /\ Goto(p, "idle")
    /\ UNCHANGED <<flags, kind, count, failed>>

(* The copy is complete.                                                   *)
Finish(p) ==
    /\ at[p] = "copy"
    /\ stateCopyInProgress' = FALSE
    /\ Goto(p, "idle")
    /\ UNCHANGED <<stateMutationInProgress, kind, count, failed>>

-----------------------------------------------------------------------------
handleCommand(c) ==
    Gate(c) \/ Raise(c) \/ Run(c) \/ Lower(c)

getState(p) ==
    LoadCopy(p) \/ LoadMutation(p) \/ Claim(p) \/ Finish(p)

GateNext ==
    \/ \E c \in Client : handleCommand(c) \/ \E k \in Kind : Receive(c, k)
    \/ \E p \in Copier : getState(p) \/ Ask(p)

GateSpec == GateInit /\ [][GateNext]_gateVars

(* Every goroutine that can run is run.  Whether commands or copies are    *)
(* asked for is up to the clients.                                         *)
GateFairness ==
    /\ \A c \in Client : WF_gateVars(handleCommand(c))
    /\ \A p \in Copier : WF_gateVars(getState(p))

-----------------------------------------------------------------------------
GateTypeOK ==
    /\ stateCopyInProgress \in BOOLEAN
    /\ stateMutationInProgress \in BOOLEAN
    /\ at \in [Client \cup Copier ->
                 {"idle", "gate", "raise", "run", "lower",
                  "load copy", "load mutation", "claim", "copy"}]
    /\ kind \in [Client -> {"read", "write"}]
    /\ count \in [Client \cup Copier -> Nat]
    /\ failed \subseteq Client

Copying == \E p \in Copier : at[p] = "copy"

(* "If the command is a write command, wait for state copy to finish": no  *)
(* write passes the gate while the state is copied.  A snapshot and a      *)
(* rewrite may copy at once, each having tested the flag before the other  *)
(* raised it, and the first to end lowers it for both: then it fails.      *)
WritesWaitForCopy ==
    [][\A c \in Client : at[c] = "gate" /\ at'[c] = "raise" => ~Copying]_gateVars

(* The mutation flag is left up only by a failed write: whenever it is up, *)
(* some write has yet to lower it, or one has returned an error since it   *)
(* was last down, although any successful command lowers it for everyone.  *)
FlagHasOwner ==
    stateMutationInProgress =>
        \/ failed # {}
        \/ \E c \in Client : kind[c] = "write" /\ at[c] \in {"run", "lower"}

(* Every copy that is asked for ends, so snapshots and rewrites do not     *)
(* hang, unless a write failed and no command succeeds any more.           *)
CopiesEnd == \A p \in Copier : []<>(at[p] = "idle" \/ failed # {})

(* Every command that arrives is answered: no write waits at the gate      *)
(* for ever.                                                               *)
CommandsEnd == \A c \in Client : []<>(at[c] = "idle")


(* Commands and copies wait for one another, but not for ever.             *)
GateOpens == CopiesEnd /\ CommandsEnd
=============================================================================
