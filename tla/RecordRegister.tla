---------------------------- MODULE RecordRegister ----------------------------
(***************************************************************************)
(* What the transaction registry promises its callers: one record per      *)
(* transaction, which only moves along accepted transitions, and every     *)
(* record a caller is told is the current one.                             *)
(***************************************************************************)
EXTENDS TransactionStates

VARIABLES value,   \* the current record
          told     \* the record last returned to a caller

Init == value = NoRecord /\ told = NoRecord

Write == /\ \E r \in Record :
              /\ value # NoRecord => ValidTransition(value, r)
              /\ value' = r
         /\ UNCHANGED told

Tell == told' = value /\ UNCHANGED value

Spec == Init /\ [][Write \/ Tell]_<<value, told>>
=============================================================================
