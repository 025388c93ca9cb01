------------------------------ MODULE TypeText ------------------------------
(***************************************************************************)
(* Typing through the clipboard (pcbridge/desktop/input.py,                *)
(* _type_clipboard; clipboard.py; NativeClipboard of backends/rust.py):    *)
(* keep what is on the clipboard, put the text there, press Ctrl+V, look   *)
(* whether the text is still there and put the old content back.  The user *)
(* copies whenever he likes, the window reads the clipboard some time      *)
(* after the key, which the code only waits for with a pause, and every    *)
(* clipboard program may fail, some of them unnoticed.                     *)
(***************************************************************************)
EXTENDS Naturals

CONSTANTS Copies,      \* what the user copies, other than the text itself: a copy
                       \* of the same text cannot be told from the one put there
          Text,        \* what is typed
          Nothing      \* an empty clipboard

TypeTextAssumption == {Text, Nothing} \cap Copies = {} /\ Text # Nothing /\ Copies # {}

VARIABLES
    clip,        \* the content of the clipboard
    restore,     \* restore_clipboard
    saved,       \* Saved, or Nothing
    pc, result,  \* of _type_clipboard
    due,         \* the window got Ctrl+V and has not read the clipboard yet
    pasted,      \* history: what it read
    mine,        \* history: what the user had or copied last
    between,     \* history: where the call was when he copied, or "before" it
    readable,    \* history: the clipboard could be read when it was kept
    slipped,     \* history: the restore failed and nobody noticed
    late         \* history: the window read after the second look

noted == <<mine, between, readable, slipped, late>>
vars == <<clip, restore, saved, pc, result, due, pasted, noted>>

Init ==
    /\ clip \in Copies \cup {Nothing}
    /\ restore \in BOOLEAN /\ saved = Nothing /\ pc = "save" /\ result = "none"
    /\ due = FALSE /\ pasted = Nothing /\ mine = clip /\ between = "before" /\ readable = FALSE
    /\ slipped = FALSE /\ late = FALSE

Done(r) == pc' = "done" /\ result' = r
-----------------------------------------------------------------------------
(* save(): its first representation, or nothing when it cannot be read; a  *)
(* program that is missing or does not answer ends the call.               *)
Save ==
    /\ pc = "save"
    /\ \/ restore /\ saved' = clip /\ readable' = TRUE /\ pc' = "put" /\ UNCHANGED result
       \/ saved' = Nothing /\ readable' = FALSE /\ pc' = "put" /\ UNCHANGED result
       \/ restore /\ Done("error") /\ UNCHANGED <<saved, readable>>
    /\ UNCHANGED <<clip, restore, due, pasted, mine, between, slipped, late>>

(* put_text(); a wl-copy that did not answer may have done it.             *)
PutText ==
    /\ pc = "put"
    /\ \/ clip' = Text /\ pc' = "paste" /\ UNCHANGED result
       \/ clip' \in {clip, Text} /\ Done("error")
    /\ UNCHANGED <<restore, saved, due, pasted, noted>>

(* key("ctrl+v"), between two pauses; an exception leaves the text there.  *)
Paste ==
    /\ pc = "paste"
    /\ \/ due' = TRUE /\ restore /\ pc' = "check" /\ UNCHANGED result
       \/ due' = TRUE /\ ~restore /\ Done("typed")
       \/ due' \in BOOLEAN /\ Done("error")
    /\ UNCHANGED <<clip, restore, saved, pasted, noted>>

(* Faulty variant: there is no second look.                                *)
CheckNothing ==
    /\ pc = "check" /\ pc' = "restore"
    /\ UNCHANGED <<clip, restore, saved, result, due, pasted, noted>>

(* The second look: another content, or one that cannot be read, is left   *)
(* as it is; the program may also be missing or not answer.                *)
Check ==
    /\ pc = "check"
    /\ \/ clip = Text /\ pc' = "restore" /\ UNCHANGED result
       \/ Done("left")
       \/ Done("error")
    /\ UNCHANGED <<clip, restore, saved, due, pasted, noted>>

(* restore(): what was kept, or an empty clipboard.  The exit status of    *)
(* wl-copy is ignored, as is EXECUTION_UNKNOWN of the helper: the call     *)
(* then says "restored" of a clipboard that still has the text.  A program *)
(* that does not answer, and may have done it, ends the call in an error.  *)
Restore ==
    /\ pc = "restore"
    /\ \/ clip' = saved /\ Done("restored") /\ UNCHANGED slipped
       \/ UNCHANGED clip /\ Done("restored") /\ slipped' = TRUE
       \/ clip' \in {clip, saved} /\ Done("error") /\ UNCHANGED slipped
    /\ UNCHANGED <<restore, saved, due, pasted, mine, between, readable, late>>
-----------------------------------------------------------------------------
(* The window reads when it likes, also after the pause of 0.25 seconds.   *)
WindowReads ==
    /\ due /\ due' = FALSE /\ pasted' = clip
    /\ late' = (pc = "restore" \/ (pc = "done" /\ restore))
    /\ UNCHANGED <<clip, restore, saved, pc, result, mine, between, readable, slipped>>

UserCopies ==
    /\ \E c \in Copies : clip' = c /\ mine' = c
    /\ between' = pc
    /\ UNCHANGED <<restore, saved, pc, result, due, pasted, readable, slipped, late>>

Next ==
    \/ Save \/ PutText \/ Paste \/ Check \/ Restore
    \/ WindowReads \/ UserCopies

Spec == Init /\ [][Next]_vars
-----------------------------------------------------------------------------
TypeOK ==
    /\ clip \in Copies \cup {Text, Nothing} /\ saved \in Copies \cup {Nothing}
    /\ mine \in Copies \cup {Nothing} /\ pasted \in Copies \cup {Text, Nothing}
    /\ pc \in {"save", "put", "paste", "check", "restore", "done"}
    /\ result \in {"none", "typed", "restored", "left", "error"}
    /\ between \in {"before", "save", "put", "paste", "check", "restore", "done"}
    /\ {restore, due, readable, slipped, late} \subseteq BOOLEAN

(* "A different value copied in the meantime is left in place"             *)
(* (config.example.toml:336): what the user copies is never taken from the *)
(* clipboard once the text was put there, unless he copied after the       *)
(* second look; CHANGELOG.md:406 names that one.                           *)
LaterCopyStays == pc = "done" /\ between \in {"paste", "check", "done"} => clip = mine

(* Without a copy since the clipboard was kept, its old content is back at *)
(* the end, or it is empty because it could not be read.  The text stays   *)
(* there only when it was not to be restored, after an error, when the     *)
(* second look saw nothing, or when wl-copy failed unnoticed.              *)
ContentComesBack ==
    pc = "done" /\ between \in {"before", "save"} =>
        \/ clip = mine
        \/ clip = Nothing /\ ~readable
        \/ clip = Text /\ (~restore \/ result \in {"error", "left"} \/ slipped)

(* A window that reads before the second look gets the text or what the    *)
(* user copied since, never what was there before.  One that reads later   *)
(* may get the old content: the code only pauses (input.py:1010).          *)
PastesTheText == pasted # Nothing /\ ~late => pasted = Text \/ between \in {"paste", "check", "restore", "done"}

TypingSparesClipboard == TypeOK /\ LaterCopyStays /\ ContentComesBack /\ PastesTheText
=============================================================================
