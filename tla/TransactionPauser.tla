-------------------------- MODULE TransactionPauser ---------------------------
(***************************************************************************)
(* The pallet that pauses calls by the names of their pallet and function. *)
(* Origins are checked by the caller (Runtime).  An absent pallet or       *)
(* function may be paused as well.  The filters that ask the list change   *)
(* no state, and no runtime installs them: they are left out.              *)
(***************************************************************************)

CONSTANTS
    CallNames,     \* [pallet, function] pairs that may be given
    Utf8Names,     \* the pallet names that decode
    ThisPallet     \* the name of the pauser itself

VARIABLE paused    \* PausedTransactions

PauserInit == paused = {}

PauseTransaction(c) ==
    /\ c.pallet \in Utf8Names
    /\ c.pallet # ThisPallet
    /\ paused' = paused \cup {c}

UnpauseTransaction(c) == paused' = paused \ {c}
=============================================================================
