------------------------------- MODULE Consent ------------------------------
(***************************************************************************)
(* What the pgo commands promise their users about a PostgresCluster,      *)
(* without saying how: a command writes the object at most once, as the    *)
(* last thing it does, and a command that needs its user's consent writes  *)
(* nothing before the user has agreed.  Others may write at any time.      *)
(***************************************************************************)
EXTENDS Naturals

CONSTANT Proc

VARIABLES
    object,   \* the PostgresCluster, whatever it holds
    outside,  \* number of writes by others
    stage     \* what each process may do

(* stage[p] is "idle" when p runs no command, "asking" when its command still
   needs a "yes", "agreed" when it has got one, "free" when it needs none.     *)

vars == <<object, outside, stage>>

Init == stage = [p \in Proc |-> "idle"] /\ outside = 0

\* A command starts, with or without a question to ask first.
Begin(p) ==
    /\ stage[p] = "idle"
    /\ \E s \in {"asking", "free"} : stage' = [stage EXCEPT ![p] = s]
    /\ UNCHANGED <<object, outside>>

\* The user agrees.
Agree(p) ==
    /\ stage[p] = "asking"
    /\ stage' = [stage EXCEPT ![p] = "agreed"]
    /\ UNCHANGED <<object, outside>>

\* The command ends without a write: declined, refused, interrupted.
Abandon(p) ==
    /\ stage[p] # "idle"
    /\ stage' = [stage EXCEPT ![p] = "idle"]
    /\ UNCHANGED <<object, outside>>

\* The one write, which ends the command.
Write(p) ==
    /\ stage[p] \in {"agreed", "free"}
    /\ stage' = [stage EXCEPT ![p] = "idle"]
    /\ UNCHANGED outside

Outside ==
    /\ outside' = outside + 1
    /\ UNCHANGED stage

Next ==
    \/ \E p \in Proc : Begin(p) \/ Agree(p) \/ Abandon(p) \/ Write(p)
    \/ Outside

Spec == Init /\ [][Next]_vars
=============================================================================
