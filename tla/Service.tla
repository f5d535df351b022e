------------------------------ MODULE Service -------------------------------
(***************************************************************************)
(* What the multicoin process promises to whoever started it: it runs      *)
(* until it is interrupted or breaks, and its exit status tells the two    *)
(* apart.  MultiCoin implements it.                                        *)
(***************************************************************************)
VARIABLES
  help,        \* the process was started for its usage text only
  requested,   \* an interrupt was caught
  broken,      \* something the service needs has failed
  status       \* the exit status, "running" before the exit

vars == <<help, requested, broken, status>>

Init ==
  /\ help \in BOOLEAN
  /\ requested = FALSE
  /\ broken = FALSE
  /\ status = "running"

Interrupt ==
  /\ status = "running"
  /\ requested' = TRUE
  /\ UNCHANGED <<help, broken, status>>

Break ==
  /\ status = "running"
  /\ broken' = TRUE
  /\ UNCHANGED <<help, requested, status>>

Stop ==
  /\ status = "running"
  /\ \/ status' = "ok" /\ (help \/ requested)
     \/ status' = "failed" /\ broken
  /\ UNCHANGED <<help, requested, broken>>

\* It never gets as far as serving: wrong flags, or no data directory.
Refuse ==
  /\ status = "running"
  /\ status' \in {"usage", "panicked"}
  /\ broken' = TRUE
  /\ UNCHANGED <<help, requested>>

Next == Interrupt \/ Break \/ Stop \/ Refuse

Spec == Init /\ [][Next]_vars
=============================================================================
