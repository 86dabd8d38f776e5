----------------------------- MODULE Authority -----------------------------
(***************************************************************************)
(* What the approval of a sensitive operation promises, whatever the runner*)
(* does to keep it: every operation that was done was asked for, granted   *)
(* for exactly that operation, and the grant was spent on it alone.        *)
(***************************************************************************)
EXTENDS Naturals, Sequences

CONSTANT Grant      \* an operation on a resource at a revision

VARIABLES
    ledger,         \* the requests: what is asked for and what became of it
    done            \* the sensitive operations that were done, in order

vars == <<ledger, done>>

States == {"pending", "granted", "refused", "spent", "used"}

Init == ledger = <<>> /\ done = <<>>

Ask(g) ==
    /\ ledger' = Append(ledger, [grant |-> g, state |-> "pending"])
    /\ UNCHANGED done

(* An answer may be changed as long as the grant is not spent.             *)
Answer(i, s) ==
    /\ ledger[i].state \in {"pending", "granted", "refused"}
    /\ s \in {"granted", "refused"}
    /\ ledger' = [ledger EXCEPT ![i].state = s]
    /\ UNCHANGED done

Spend(i) ==
    /\ ledger[i].state = "granted"
    /\ ledger' = [ledger EXCEPT ![i].state = "spent"]
    /\ UNCHANGED done

Do(i) ==
    /\ ledger[i].state = "spent"
    /\ ledger' = [ledger EXCEPT ![i].state = "used"]
    /\ done' = Append(done, ledger[i].grant)

Next ==
    \/ \E g \in Grant : Ask(g)
    \/ \E i \in DOMAIN ledger : Spend(i) \/ Do(i) \/ \E s \in States : Answer(i, s)

Spec == Init /\ [][Next]_vars

=============================================================================
