----------------------------- MODULE SaveDialog -----------------------------
(***************************************************************************)
(* FileDialog::save_file (src/src/utils/file_dialog.rs) and SaveFile       *)
(* (src/file_dialog.cpp).  The call suspends its thread through Asyncify,  *)
(* so that the next call starts when it has returned; the listener of its  *)
(* button is an async function, which goes on when the user closes the     *)
(* dialog and the call has returned.                                       *)
(*                                                                         *)
(* All the calls choose the same file: calls with different files do not   *)
(* meet.  SaveFile copies the contents before it first waits, so a handler *)
(* always writes what its own call was given.                              *)
(***************************************************************************)
EXTENDS Naturals

CONSTANT MaxCalls   \* bound: the calls made by the program

Calls == 1..MaxCalls
Nothing == 0

VARIABLES
  picker,    \* the window has showSaveFilePicker
  last,      \* the latest call
  answer,    \* what each call returned, or "none" while it has not
  dialog,    \* "unborn", "open", "closing" (its close event is queued), "gone"
  handler,   \* where the listener of the button is
  disk,      \* the call whose contents the file holds
  saved,     \* history: the calls whose contents it ever held
  dismissed  \* history: the calls whose dialog the user closed

vars == <<picker, last, answer, dialog, handler, disk, saved, dismissed>>

TypeOK ==
  /\ picker \in BOOLEAN
  /\ last \in 0..MaxCalls
  /\ answer \in [Calls -> {"none", "true", "false"}]
  /\ dialog \in [Calls -> {"unborn", "open", "closing", "gone"}]
  /\ handler \in [Calls -> {"unborn", "listening", "picking", "creating",
                            "writing", "closing", "done"}]
  /\ disk \in Calls \union {Nothing}
  /\ saved \subseteq Calls /\ dismissed \subseteq Calls

-----------------------------------------------------------------------------
(* A definition placed before another with the same parameters is a faulty
   variant of it, kept to show that the properties depend on it. *)

(* resolve: the first one decides, and the call returns. *)
ResolveAgain(n, value) == answer' = [answer EXCEPT ![n] = value]
Resolve(n, value) ==
  answer' = [answer EXCEPT ![n] = IF @ = "none" THEN value ELSE @]

(* The finally of the listener: dialog.close(), which does nothing to a dialog
   that is not open. *)
LeaveOpen(n) == UNCHANGED dialog
CloseDialog(n) ==
  dialog' = [dialog EXCEPT ![n] = IF @ = "open" THEN "closing" ELSE @]

GoTo(n, place) == handler' = [handler EXCEPT ![n] = place]

-----------------------------------------------------------------------------
Init ==
  /\ picker \in BOOLEAN
  /\ last = 0
  /\ answer = [n \in Calls |-> "none"]
  /\ dialog = [n \in Calls |-> "unborn"]
  /\ handler = [n \in Calls |-> "unborn"]
  /\ disk = Nothing
  /\ saved = {} /\ dismissed = {}

(* A program that is not in save_file calls it. *)
Call ==
  /\ last < MaxCalls
  /\ last > 0 => answer[last] # "none"
  /\ last' = last + 1
  /\ UNCHANGED <<picker, disk, saved, dismissed>>

(* The call returns false and shows nothing.  A name, filter or mime type has
   a NUL, so tri! returns; or, with a picker, what is done before showModal
   throws, and the catch of SaveFile returns 0. *)
Refuse ==
  /\ Call
  /\ Resolve(last', "false")
  /\ UNCHANGED <<dialog, handler>>

(* Without a picker an anchor is clicked; what the browser makes of it is not
   known, and only an exception gives false. *)
Download ==
  /\ Call
  /\ ~picker
  /\ \E value \in {"true", "false"} : Resolve(last', value)
  /\ UNCHANGED <<dialog, handler>>

ShowDialog ==
  /\ Call
  /\ picker
  /\ dialog' = [dialog EXCEPT ![last'] = "open"]
  /\ GoTo(last', "listening")
  /\ UNCHANGED answer

(* The user clicks the button, or closes the dialog. *)
Click(n) ==
  /\ dialog[n] = "open"
  /\ handler[n] = "listening"
  /\ GoTo(n, "picking")
  /\ UNCHANGED <<picker, last, answer, dialog, disk, saved, dismissed>>

Dismiss(n) ==
  /\ dialog[n] = "open"
  /\ dialog' = [dialog EXCEPT ![n] = "closing"]
  /\ dismissed' = dismissed \union {n}
  /\ UNCHANGED <<picker, last, answer, handler, disk, saved>>

CloseEvent(n) ==
  /\ dialog[n] = "closing"
  /\ dialog' = [dialog EXCEPT ![n] = "gone"]
  /\ Resolve(n, "false")
  /\ UNCHANGED <<picker, last, handler, disk, saved, dismissed>>

(* The awaits of the listener are fulfilled: a file was picked, createWritable
   and write are done, and close has put the contents in the file. *)
Advance(n, from, to) ==
  /\ handler[n] = from
  /\ GoTo(n, to)
  /\ UNCHANGED <<picker, last, answer, dialog, disk, saved, dismissed>>

Pick(n) == Advance(n, "picking", "creating")
Create(n) == Advance(n, "creating", "writing")
Write(n) == Advance(n, "writing", "closing")

CloseFile(n) ==
  /\ handler[n] = "closing"
  /\ GoTo(n, "done")
  /\ disk' = n
  /\ saved' = saved \union {n}
  /\ Resolve(n, "true")
  /\ CloseDialog(n)
  /\ UNCHANGED <<picker, last, dismissed>>

(* The user leaves the picker: AbortError. *)
Abort(n) ==
  /\ handler[n] = "picking"
  /\ GoTo(n, "done")
  /\ Resolve(n, "false")
  /\ CloseDialog(n)
  /\ UNCHANGED <<picker, last, disk, saved, dismissed>>

(* Any other rejection leaves the listener through finally.  The file changes
   only when its close is fulfilled. *)
Fail(n) ==
  /\ handler[n] \in {"picking", "creating", "writing", "closing"}
  /\ GoTo(n, "done")
  /\ CloseDialog(n)
  /\ UNCHANGED <<picker, last, answer, disk, saved, dismissed>>

Handler(n) ==
  Pick(n) \/ Create(n) \/ Write(n) \/ CloseFile(n) \/ Abort(n) \/ Fail(n)

Next ==
  \/ Refuse \/ Download \/ ShowDialog
  \/ \E n \in Calls : Click(n) \/ Dismiss(n) \/ CloseEvent(n) \/ Handler(n)

(* Queued events are fired, and the picker and the file system settle. *)
Fairness == \A n \in Calls : WF_vars(CloseEvent(n)) /\ WF_vars(Handler(n))

Spec == Init /\ [][Next]_vars /\ Fairness

-----------------------------------------------------------------------------
(* What the answer tells about the file.  True: the contents were written, and
   only later calls, or calls that had returned false, have written since.
   False: they were not written, unless the user closed the dialog while its
   listener was at work. *)
AnswerTells ==
  picker =>
    \A n \in Calls :
      /\ answer[n] = "true" =>
           n \in saved /\ (disk >= n \/ answer[disk] = "false")
      /\ answer[n] = "false" /\ n \in saved => n \in dismissed

(* A call whose button was clicked or whose dialog was closed returns, whatever
   fails: finally closes the dialog, and the close event resolves. *)
CallReturns ==
  \A n \in Calls :
    (handler[n] = "picking" \/ dialog[n] = "closing") ~> (answer[n] # "none")
=============================================================================
