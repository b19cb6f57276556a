----------------------------- MODULE BaselineLog -----------------------------
(***************************************************************************)
(* What the deployment pipeline promises, without containers, files, locks *)
(* or processes: each service has an append-only log of baselines; an      *)
(* operation opens once, and ends once, either by appending one baseline   *)
(* to the log of its service or without a trace in any log.                *)
(***************************************************************************)
EXTENDS Integers, Sequences

CONSTANTS Services, Images

VARIABLES
    next,   \* operations have the numbers before this one
    open,   \* those that have not ended
    log     \* baselines of each service, oldest first

absVars == <<next, open, log>>

AbsInit ==
    /\ next = 1 /\ open = {}
    /\ log = [s \in Services |-> <<>>]

OpenOp ==
    /\ next' = next + 1 /\ open' = open \cup {next}
    /\ UNCHANGED log

CommitOp(id, s, img) ==
    /\ open' = open \ {id}
    /\ log' = [log EXCEPT ![s] = Append(@, [img |-> img, dep |-> id])]
    /\ UNCHANGED next

CloseOp(id) == open' = open \ {id} /\ UNCHANGED <<next, log>>

AbsNext ==
    \/ OpenOp
    \/ \E id \in open :
          CloseOp(id) \/ \E s \in Services, img \in Images : CommitOp(id, s, img)

AbsSpec == AbsInit /\ [][AbsNext]_absVars
=============================================================================
