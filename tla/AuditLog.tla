------------------------------ MODULE AuditLog ------------------------------
(***************************************************************************)
(* What the enclave promises to those who keep its receipts, with nothing  *)
(* of how it handles requests: every boot owns one log, which only that    *)
(* boot extends, only at the end and one numbered proof at a time; and     *)
(* every tree head it ever signs is the head of a prefix of that log.      *)
(***************************************************************************)
EXTENDS Naturals, Sequences

CONSTANTS
    MaxEpoch,
    Root(_, _),     \* Root(leaves, n): the tree head hash of the first n leaves
    Entry(_)        \* Entry(leaf): the signed proof a leaf commits to

VARIABLES
    epoch,  \* the current boot
    log,    \* log[e]: the leaves logged by boot e
    heads   \* the tree heads signed so far

vars == <<epoch, log, heads>>

(* The head says what the log of its signer was when it had that size. *)
Authentic(head, logs) ==
    /\ head.size \in 0..Len(logs[head.signer])
    /\ head.root = Root(logs[head.signer], head.size)

Number(leaf) == Entry(leaf).statement.counter

Init ==
    /\ epoch = 1
    /\ log = [e \in 1..MaxEpoch |-> <<>>]
    /\ heads = {}

(* New heads come from the current boot's key and are authentic. *)
Sign ==
    /\ heads \subseteq heads'
    /\ \A h \in heads' \ heads : h.signer = epoch /\ Authentic(h, log')

(* One proof, signed by the current boot and not numbered like any other of *)
(* this boot, is logged and its head is signed.                             *)
Publish ==
    LET old == log[epoch]
        new == log'[epoch]
    IN  /\ Len(new) = Len(old) + 1
        /\ new = Append(old, new[Len(new)])
        /\ Entry(new[Len(new)]).signer = epoch
        /\ \A i \in 1..Len(old) : Number(old[i]) # Number(new[Len(new)])
        /\ log' = [log EXCEPT ![epoch] = new]
        /\ Sign
        /\ UNCHANGED epoch

(* Heads of the log as it stands are signed on request. *)
Show == Sign /\ UNCHANGED <<epoch, log>>

(* A new boot starts with an empty log of its own. *)
NewEpoch ==
    /\ epoch' = epoch + 1
    /\ log[epoch + 1] = <<>>
    /\ UNCHANGED <<log, heads>>

Next == Publish \/ Show \/ NewEpoch

Spec == Init /\ [][Next]_vars
=============================================================================
