---------------------------- MODULE RunsCleanup ----------------------------
(***************************************************************************)
(* Cleaning up the history of runs (SystemWorkflowRunsPage.tsx): options   *)
(* are chosen in one dialog, a dry run counts, a second dialog shows the   *)
(* count and asks for confirmation.  Dry run and clean-up are the same     *)
(* mutation; each takes the options and the filter of the page from the    *)
(* render that starts it, and its answer sets state whatever was closed or *)
(* changed in between.                                                     *)
(***************************************************************************)
EXTENDS Naturals

CONSTANTS Statuses,  \* the statuses of runs
          Active,    \* of these, pending and running
          Key,       \* the workflows to filter by
          None

CleanupAssumption == Active \subseteq Statuses /\ None \notin Key

VARIABLES filter,     \* filters.workflow_key
          options,    \* cleanupOptions
          showModal, showConfirm,
          counted,    \* the parameters the shown count was counted for, or None
          cleaning,   \* the mutation that is not answered, or None
          touched     \* history: options or filter changed under the dry run

vars == <<filter, options, showModal, showConfirm, counted, cleaning, touched>>

Filters == Key \cup {None}

(* The date before which runs are taken would be one more option like these. *)
Choices == [statuses : SUBSET Statuses, zombie : BOOLEAN, force : BOOLEAN]

Initially == [statuses |-> Statuses \ Active, zombie |-> FALSE, force |-> FALSE]

Init == /\ filter = None /\ options = Initially
        /\ showModal = FALSE /\ showConfirm = FALSE
        /\ counted = None /\ cleaning = None /\ touched = FALSE

(* The mask of a dialog covers the page *)
Uncovered == ~showModal /\ ~showConfirm

SetFilter(k) == /\ Uncovered /\ k # filter
                /\ filter' = k
                /\ touched' = (touched \/ cleaning # None)
                /\ UNCHANGED <<options, showModal, showConfirm, counted, cleaning>>

HandleCleanup == /\ Uncovered /\ cleaning = None
                 /\ showModal' = TRUE
                 /\ UNCHANGED <<filter, options, showConfirm, counted, cleaning, touched>>

(* The fields stay usable while the dry run is under way *)
Change(o) == /\ showModal /\ options' = o
             /\ touched' = (touched \/ cleaning # None)
             /\ UNCHANGED <<filter, showModal, showConfirm, counted, cleaning>>

ChooseStatuses(s) == s # options.statuses /\ Change([options EXCEPT !.statuses = s])

(* Forcing takes the place of the zombies *)
ToggleForce == Change([options EXCEPT !.force = ~@, !.zombie = options.force /\ @])

ToggleZombie == ~options.force /\ Change([options EXCEPT !.zombie = ~@])

Choose == ToggleForce \/ ToggleZombie \/ \E s \in SUBSET Statuses : ChooseStatuses(s)

(* previewCleanup: active runs only with one of the two options *)
Valid(o) == /\ o.statuses # {}
            /\ o.statuses \cap Active # {} => o.force \/ o.zombie

Params(dryRun) == [dry |-> dryRun, options |-> options, key |-> filter]

PreviewCleanup == /\ showModal /\ cleaning = None /\ Valid(options)
                  /\ cleaning' = Params(TRUE) /\ touched' = FALSE
                  /\ UNCHANGED <<filter, options, showModal, showConfirm, counted>>

(* A late answer opens the second dialog all the same *)
DryRunAnswer(any) ==
    /\ cleaning # None /\ cleaning.dry
    /\ cleaning' = None
    /\ IF any THEN showModal' = FALSE /\ showConfirm' = TRUE /\ counted' = cleaning
              ELSE UNCHANGED <<showModal, showConfirm, counted>>
    /\ UNCHANGED <<filter, options, touched>>

(* Mutant: leaving the second dialog goes back to the first one, without   *)
(* giving up the count.                                                    *)
MutCancelDialog ==
    /\ ~Uncovered
    /\ showModal' = (showConfirm /\ ~showModal) /\ UNCHANGED showConfirm
    /\ UNCHANGED <<filter, options, counted, cleaning, touched>>

CancelDialog ==
    /\ ~Uncovered
    /\ IF showConfirm THEN showConfirm' = FALSE /\ counted' = None /\ UNCHANGED showModal
                      ELSE showModal' = FALSE /\ UNCHANGED <<showConfirm, counted>>
    /\ UNCHANGED <<filter, options, cleaning, touched>>

ConfirmCleanup == /\ showConfirm /\ cleaning = None
                  /\ cleaning' = Params(FALSE)
                  /\ UNCHANGED <<filter, options, showModal, showConfirm, counted, touched>>

CleanupAnswer == /\ cleaning # None /\ ~cleaning.dry
                 /\ cleaning' = None /\ showConfirm' = FALSE /\ counted' = None
                 /\ UNCHANGED <<filter, options, showModal, touched>>

(* The second dialog stays open for another attempt *)
CleanupFails == /\ cleaning # None
                /\ cleaning' = None
                /\ UNCHANGED <<filter, options, showModal, showConfirm, counted, touched>>

Next == \/ \E k \in Filters : SetFilter(k)
        \/ HandleCleanup \/ Choose \/ PreviewCleanup \/ CancelDialog \/ ConfirmCleanup
        \/ \E any \in BOOLEAN : DryRunAnswer(any)
        \/ CleanupAnswer \/ CleanupFails

Spec == Init /\ [][Next]_vars
-----------------------------------------------------------------------------
(* Properties                                                              *)

(* The state has its types; a count is kept exactly while it is shown.     *)
TypeOK == /\ filter \in Filters /\ options \in Choices
          /\ showModal \in BOOLEAN /\ showConfirm \in BOOLEAN /\ touched \in BOOLEAN
          /\ counted # None => counted \in [dry : {TRUE}, options : Choices, key : Filters]
          /\ cleaning # None => cleaning \in [dry : BOOLEAN, options : Choices, key : Filters]
          /\ showConfirm <=> counted # None

(* A clean-up deletes what was counted for it, with options that were      *)
(* checked (:297-319), after failures and late answers too, if neither     *)
(* options nor filter changed while its dry run was under way.             *)
Confirmed ==
    cleaning' # cleaning /\ cleaning' # None /\ ~cleaning'.dry /\ ~touched =>
        cleaning' = [counted EXCEPT !.dry = FALSE] /\ Valid(cleaning'.options)

ConfirmedCleanup == [][Confirmed]_vars
=============================================================================
