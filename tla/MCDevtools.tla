----------------------------- MODULE MCDevtools -----------------------------
(* The sets of commands of the runs.                                       *)
EXTENDS Devtools

Travel == {"TOGGLE_ACTION", "JUMP_TO_STATE", "JUMP_TO_ACTION", "SWEEP",
           "LOCK_CHANGES", "SET_ACTIONS_ACTIVE", "RESET", "COMMIT", "ROLLBACK",
           "IMPORT_STATE"}
Recording == {"LOCK_CHANGES", "PAUSE_RECORDING", "JUMP_TO_STATE"}
=============================================================================
