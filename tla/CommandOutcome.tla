--------------------------- MODULE CommandOutcome ---------------------------
(***************************************************************************)
(* What the plugin promises about a remote request, without mailbox,       *)
(* threads or failures: its action is performed at most once and never     *)
(* after a receipt exists; a receipt is decided once and is true; both are *)
(* remembered until the request is forgotten (its files have aged, or were *)
(* lost with the machine).                                                 *)
(***************************************************************************)
EXTENDS Naturals

CONSTANT Commands

VARIABLES
    performed,  \* how often the action was performed
    receipt,    \* the receipt, if there is one
    forgotten   \* the requests nothing is promised about any more

vars == <<performed, receipt, forgotten>>

NoReceipt == "none"
Receipts  == {"applied", "rejected", "error", "indeterminate"}

Init ==
    /\ performed = [c \in Commands |-> 0]
    /\ receipt = [c \in Commands |-> NoReceipt]
    /\ forgotten = {}

Perform(c) ==
    /\ performed[c] = 0
    /\ receipt[c] = NoReceipt
    /\ performed' = [performed EXCEPT ![c] = 1]
    /\ UNCHANGED <<receipt, forgotten>>

\* "error" and "indeterminate" leave open whether the action was performed.
Settle(c, status) ==
    /\ receipt[c] = NoReceipt
    /\ status = "applied" => performed[c] = 1
    /\ status = "rejected" => performed[c] = 0 \/ c \in forgotten
    /\ receipt' = [receipt EXCEPT ![c] = status]
    /\ UNCHANGED <<performed, forgotten>>

Forget(cs, lost) ==
    /\ lost \subseteq cs
    /\ forgotten' = forgotten \cup cs
    /\ receipt' = [c \in Commands |-> IF c \in lost THEN NoReceipt
                                                    ELSE receipt[c]]
    /\ UNCHANGED performed

Next ==
    \/ \E c \in Commands : Perform(c)
    \/ \E c \in Commands, status \in Receipts : Settle(c, status)
    \/ \E cs, lost \in SUBSET Commands : Forget(cs, lost)

Spec == Init /\ [][Next]_vars
=============================================================================
