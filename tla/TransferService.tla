--------------------------- MODULE TransferService ---------------------------
(***************************************************************************)
(* What the protocol promises to the two applications: a transfer that is  *)
(* reported as a success filled the client's buffer with the batch, from   *)
(* its first byte to its last and nothing else, and a buffer is written    *)
(* only between the start of a transfer and its outcome.                   *)
(***************************************************************************)
EXTENDS Integers, Sequences

CONSTANTS
    Batch,   \* the bytes one transfer delivers
    Room     \* the size of the application's buffer

VARIABLES
    outcome,    \* "none", "running", "success" or "failure"
    delivered   \* the bytes in the application's buffer

vars == <<outcome, delivered>>

PrefixOfBatch(n) == SubSeq(Batch, 1, n)

Init == outcome = "none" /\ delivered = <<>>

Start == outcome # "running" /\ outcome' = "running" /\ delivered' = <<>>

(* Some more of the batch arrives.                                         *)
Deliver ==
    /\ outcome = "running"
    /\ \E n \in Len(delivered) + 1 .. Len(Batch) :
          n <= Room /\ delivered' = PrefixOfBatch(n)
    /\ UNCHANGED outcome

(* The outcome is reported and the buffer handed back.                     *)
Succeed == outcome = "running" /\ delivered = Batch /\ outcome' = "success" /\ delivered' = <<>>

Fail == outcome = "running" /\ outcome' = "failure" /\ delivered' = <<>>

Next == Start \/ Deliver \/ Succeed \/ Fail

Spec == Init /\ [][Next]_vars
=============================================================================
