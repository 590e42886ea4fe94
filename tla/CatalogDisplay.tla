--------------------------- MODULE CatalogDisplay ---------------------------
(***************************************************************************)
(* What the song-select window promises about the list of maps, whatever   *)
(* threads prepare it: a list is put on screen only if it is the one       *)
(* wanted at that moment, and the list wanted is put on screen unless the  *)
(* wish changes again or the launcher shuts down.                          *)
(***************************************************************************)
VARIABLES
    wanted,     \* what the list should show
    shown,      \* what it shows
    closed      \* the launcher shuts down

vars == <<wanted, shown, closed>>

Init == /\ shown = wanted
        /\ closed = FALSE

(* The wish changes; a list that needs no preparation may show at once.    *)
Want == /\ wanted' # wanted
        /\ shown' \in {shown, wanted'}
        /\ UNCHANGED closed

Show == /\ ~closed
        /\ shown # wanted
        /\ shown' = wanted
        /\ UNCHANGED <<wanted, closed>>

Close == /\ closed' = TRUE
         /\ UNCHANGED <<wanted, shown>>

Spec == Init /\ [][Want \/ Show \/ Close]_vars /\ WF_vars(Show)
=============================================================================
