----------------------------- MODULE FileDialog -----------------------------
(***************************************************************************)
(* FileDialog (src/src/utils/file_dialog.rs): requests to load a file and  *)
(* calls that save one, on the same page.  They share the main thread,     *)
(* which serves one event at a time, and no state: the dialogs of both may *)
(* be open, and their files be read and written, at once.                  *)
(***************************************************************************)
EXTENDS Naturals

CONSTANTS
  Requests,  \* the calls of load_file
  MaxCalls   \* bound: the calls of save_file

ASSUME FileDialogAssumption == MaxCalls \in Nat

VARIABLES
  dialog, picked, load, channel, future, memory,             \* of LoadDialog
  picker, last, answer, saveDialog, handler, disk, saved, dismissed
                                                             \* of SaveDialog

L == INSTANCE LoadDialog
S == INSTANCE SaveDialog WITH dialog <- saveDialog

loadVars == <<dialog, picked, load, channel, future, memory>>
saveVars == <<picker, last, answer, saveDialog, handler, disk, saved, dismissed>>
vars == <<loadVars, saveVars>>

Init == L!Init /\ S!Init

Loading == L!Next /\ UNCHANGED saveVars
Saving == S!Next /\ UNCHANGED loadVars

Next == Loading \/ Saving

Spec == Init /\ [][Next]_vars /\ L!Fairness /\ S!Fairness

-----------------------------------------------------------------------------
(* What load_file leaves allocated when it is over is known, case by case. *)
LeaksAreKnown == L!LeaksAreKnown

(* Of the change and the close of a load dialog, the first decides. *)
FirstEventDecides == L!FirstEventDecides

(* The answer of save_file says what happened to the file. *)
AnswerTells == S!AnswerTells

(* A call of save_file returns once the user clicked or closed, whatever
   fails. *)
CallReturns == S!CallReturns
=============================================================================
