----------------------------- MODULE LoadDialog -----------------------------
(***************************************************************************)
(* FileDialog::load_file (src/src/utils/file_dialog.rs) and LoadFile       *)
(* (src/file_dialog.cpp): a dialog with a file input, an async function    *)
(* that waits for the choice and reads the file, and a future that waits   *)
(* for the struct File that function filled in.                            *)
(*                                                                         *)
(* Events and promises are served by the main thread, one at a time; what  *)
(* an async function does up to its next await happens in the event that   *)
(* resumes it.  The browser fires the close event of a dialog after the    *)
(* step that closed it.  Allocations succeed.                              *)
(***************************************************************************)
CONSTANT Requests

VARIABLES
  dialog,   \* "unborn", "open", "closing" (its close event is queued), "gone"
  picked,   \* what the change event brought
  load,     \* where the async function of LoadFile is
  channel,  \* what oncomplete sent: nothing yet, None, or Some of a File
  future,   \* the future of load_file, and then the FileHandle it returned
  memory    \* the allocations made for the request that were not freed

vars == <<dialog, picked, load, channel, future, memory>>

Files == {"file", "empty file"}
Picks == Files \union {"no file"}

TypeOK ==
  /\ dialog \in [Requests -> {"unborn", "open", "closing", "gone"}]
  /\ picked \in [Requests -> Picks \union {"nothing"}]
  /\ load \in [Requests -> {"idle", "choosing", "reading", "read", "unread", "cancelled"}]
  /\ channel \in [Requests -> {"nothing", "none", "no contents", "contents"}]
  /\ future \in [Requests -> {"new", "waiting", "none", "some", "dropped", "closed"}]
  /\ memory \in [Requests -> SUBSET {"File", "name", "contents"}]

At(f, r, value) == [f EXCEPT ![r] = value]
Allocate(r, what) == memory' = [memory EXCEPT ![r] = @ \union what]
Free(r, what) == memory' = [memory EXCEPT ![r] = @ \ what]

-----------------------------------------------------------------------------
(* A definition placed before another with the same parameters is a faulty
   variant of it, kept to show that the properties depend on it. *)

(* __INTERNAL_LOAD_ONCOMPLETE: Rust copies the File, and C frees it; a null
   pointer frees nothing. *)
CompleteKept(r, sent, file) == channel' = At(channel, r, sent) /\ UNCHANGED memory
Complete(r, sent, file) == channel' = At(channel, r, sent) /\ Free(r, file)

(* The promise of the choice was resolved with null or no file: the function
   returns, and then runs oncomplete with an empty File. *)
NoChoice(r) ==
  /\ load' = At(load, r, "cancelled")
  /\ Complete(r, "no contents", {"File"})

(* It was resolved with a file: the name is copied, the contents are awaited. *)
Choice(r) ==
  /\ load' = At(load, r, "reading")
  /\ Allocate(r, {"name"})
  /\ UNCHANGED channel

(* The listener of the close event resolves with null; what was resolved
   before stays. *)
IgnoreClose(r) == UNCHANGED <<load, memory, channel>>
ResolveNull(r) ==
  IF load[r] = "choosing" THEN NoChoice(r) ELSE UNCHANGED <<load, memory, channel>>

-----------------------------------------------------------------------------
Init ==
  /\ dialog = [r \in Requests |-> "unborn"]
  /\ picked = [r \in Requests |-> "nothing"]
  /\ load = [r \in Requests |-> "idle"]
  /\ channel = [r \in Requests |-> "nothing"]
  /\ future = [r \in Requests |-> "new"]
  /\ memory = [r \in Requests |-> {}]

(* The first poll of load_file; a filter with a NUL ends it there. *)
Refuse(r) ==
  /\ future[r] = "new"
  /\ future' = At(future, r, "none")
  /\ UNCHANGED <<dialog, picked, load, channel, memory>>

Start(r) ==
  /\ future[r] = "new"
  /\ future' = At(future, r, "waiting")
  /\ dialog' = At(dialog, r, "open")
  /\ load' = At(load, r, "choosing")
  /\ Allocate(r, {"File"})
  /\ UNCHANGED <<picked, channel>>

(* The listener of the input's change event, once; the picker may outlive the
   dialog.  dialog.close() does nothing to a dialog that is not open. *)
Change(r, what) ==
  /\ dialog[r] # "unborn"
  /\ picked[r] = "nothing"
  /\ picked' = At(picked, r, what)
  /\ IF load[r] # "choosing" THEN UNCHANGED <<load, memory, channel>>
     ELSE IF what \in Files THEN Choice(r) ELSE NoChoice(r)
  /\ dialog' = IF dialog[r] = "open" THEN At(dialog, r, "closing") ELSE dialog
  /\ UNCHANGED future

(* The user closes the dialog. *)
Dismiss(r) ==
  /\ dialog[r] = "open"
  /\ dialog' = At(dialog, r, "closing")
  /\ UNCHANGED <<picked, load, channel, future, memory>>

CloseEvent(r) ==
  /\ dialog[r] = "closing"
  /\ dialog' = At(dialog, r, "gone")
  /\ ResolveNull(r)
  /\ UNCHANGED <<picked, future>>

(* arrayBuffer() is fulfilled: the contents are copied, and then runs. *)
ReadFile(r) ==
  /\ load[r] = "reading"
  /\ load' = At(load, r, "read")
  /\ channel' = At(channel, r, "contents")
  /\ memory' = At(memory, r, (memory[r] \ {"File"}) \union {"contents"})
  /\ UNCHANGED <<dialog, picked, future>>

(* arrayBuffer() is rejected, and catch runs oncomplete with a null pointer. *)
ReadFails(r) ==
  /\ load[r] = "reading"
  /\ load' = At(load, r, "unread")
  /\ Complete(r, "none", {})
  /\ UNCHANGED <<dialog, picked, future>>

(* load_file is polled and the channel has an answer. *)
Receive(r) ==
  /\ future[r] = "waiting"
  /\ channel[r] # "nothing"
  /\ future' = At(future, r, IF channel[r] = "contents" THEN "some" ELSE "none")
  /\ UNCHANGED <<dialog, picked, load, channel, memory>>

(* The future is dropped; what the channel holds or will hold has no drop. *)
DropFuture(r) ==
  /\ future[r] = "waiting"
  /\ future' = At(future, r, "dropped")
  /\ UNCHANGED <<dialog, picked, load, channel, memory>>

(* The FileHandle is dropped; a Vec without capacity frees nothing. *)
DropHandle(r) ==
  /\ future[r] = "some"
  /\ future' = At(future, r, "closed")
  /\ Free(r, {"name"} \union (IF picked[r] = "file" THEN {"contents"} ELSE {}))
  /\ UNCHANGED <<dialog, picked, load, channel>>

Reading(r) == ReadFile(r) \/ ReadFails(r)

Next ==
  \E r \in Requests :
    \/ Refuse(r) \/ Start(r) \/ Dismiss(r) \/ CloseEvent(r) \/ Reading(r)
    \/ Receive(r) \/ DropFuture(r) \/ DropHandle(r)
    \/ \E what \in Picks : Change(r, what)

(* Queued events are fired, reads settle, and the task is polled when it is
   woken.  Nothing makes the user choose or close. *)
Fairness ==
  \A r \in Requests :
    WF_vars(CloseEvent(r)) /\ WF_vars(Reading(r)) /\ WF_vars(Receive(r))

Spec == Init /\ [][Next]_vars /\ Fairness

-----------------------------------------------------------------------------
(* What is left once a request is over: nothing, but for three cases.  A read
   that failed leaves the File and the name, whose drop PendingFile would have
   been; a dropped future leaves the name and contents it was sent; an empty
   file leaves the block that memalloc(0) returned. *)
Over(r) ==
  /\ load[r] \notin {"choosing", "reading"}
  /\ future[r] \in {"none", "dropped", "closed"}
Leaked(r) ==
  CASE load[r] = "unread" -> {"File", "name"}
    [] load[r] = "read" /\ future[r] = "dropped" -> {"name", "contents"}
    [] load[r] = "read" /\ picked[r] = "empty file" /\ future[r] = "closed" -> {"contents"}
    [] OTHER -> {}
LeaksAreKnown == \A r \in Requests : Over(r) => memory[r] = Leaked(r)

(* The first of the two events decides: a file that was chosen before the close
   event ran is returned, unless it cannot be read, and a dialog whose close
   event came first ends the wait with None, whatever is chosen after. *)
Chosen(r) == picked[r] \in Files /\ dialog[r] = "closing"
Refused(r) == picked[r] = "nothing" /\ dialog[r] = "gone"
FirstEventDecides ==
  \A r \in Requests :
    /\ Chosen(r) ~> \/ future[r] \in {"some", "closed", "dropped"}
                    \/ future[r] = "none" /\ load[r] = "unread"
    /\ Refused(r) ~> future[r] \in {"none", "dropped"}
=============================================================================
