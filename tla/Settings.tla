------------------------------ MODULE Settings ------------------------------
(***************************************************************************)
(* The configuration file and those who write it: editors (the panel's     *)
(* Settings tab and `pcbridge set`, settings.py), the daemon, which stores *)
(* secrets as hashes when it starts (hashing.py), `pcbridge setup`, which  *)
(* brings an older file up to date (config.py), and the user's text editor.*)
(* All but the last write a file beside it, of one name for all of them,   *)
(* and rename it.  A text is what the loader makes of it.                  *)
(***************************************************************************)
EXTENDS Naturals, FiniteSets

CONSTANTS Editors, Daemon, Setup,      \* who saves
          UserTexts,                   \* what the user's text editor writes
          CONFIG_VERSION,
          Unset,
          MaxFiles, MaxUser, MaxChanges, MaxSaves
                                       \* bounds: files beside, writes of the user, keys set at once, saves

Savers == Editors \cup {Daemon, Setup}

(* "pinned" is a key whose default changed with the file's version, "live" *)
(* one the running daemon reads again. A text that is "bad" is refused by *)
(* the loader, one that is "broken" is not TOML.                           *)
Keys == {"pinned", "live"}
Default(k, version) == IF k = "pinned" /\ version < CONFIG_VERSION THEN "old" ELSE "new"
Texts == [version : 1..CONFIG_VERSION, key : [Keys -> {Unset, "old", "new"}],
          secret : {"none", "plain", "hash"}, loads : {"yes", "bad", "broken"}]
Empty == [version |-> 1, key |-> [k \in Keys |-> Unset], secret |-> "none", loads |-> "yes"]

SettingsAssumption ==
    /\ UserTexts \subseteq Texts /\ CONFIG_VERSION \in Nat \ {0} /\ MaxFiles \in Nat \ {0}
    /\ Unset \notin {"old", "new"}
    /\ Setup # Daemon /\ {Setup, Daemon} \cap Editors = {}

(* What a text means: the loader fills in the defaults of its version.     *)
Value(t, k) == IF t.key[k] = Unset THEN Default(k, t.version) ELSE t.key[k]
Loads(t) == t.loads = "yes"
Hardened(t) == IF t.secret = "plain" /\ t.loads # "broken" THEN [t EXCEPT !.secret = "hash"] ELSE t

Migrated(t) ==                          \* migrate_text: old defaults are written out
    [t EXCEPT !.version = CONFIG_VERSION, !.key = [k \in Keys |->
        IF t.key[k] = Unset /\ Default(k, t.version) # Default(k, CONFIG_VERSION) THEN Value(t, k) ELSE t.key[k]]]

VARIABLES
    files,     \* the texts of config.toml and of the files beside it
    config,    \* which of them config.toml is
    beside,    \* which of them config.toml.tmp is, 0 for none
    backup,    \* the text each backed up last
    pc,        \* [Savers -> where they are]
    base,      \* [Editors -> the text each read]
    doc,       \* the text each is going to write
    changed,   \* [Editors -> keys that were staged]
    fd,        \* the file each is writing
    edits, saves,
    alone,     \* history: has nobody written config.toml since each began to save?
    wrote,     \* history: what was last written to it
    torn       \* history: files that two had open, or that one renamed and another wrote

vars == <<files, config, beside, backup, pc, base, doc, changed, fd, edits, saves, alone, wrote, torn>>

Text == files[config]

Init ==
    /\ \E t \in UserTexts : files = [n \in 1..MaxFiles |-> IF n = 1 THEN t ELSE Empty]
    /\ config = 1 /\ beside = 0 /\ backup = [s \in Savers |-> Empty]
    /\ pc = [s \in Savers |-> "idle"]
    /\ base = [e \in Editors |-> Empty] /\ doc = [s \in Savers |-> Empty]
    /\ changed = [e \in Editors |-> {}] /\ fd = [s \in Savers |-> 0]
    /\ edits = 0 /\ saves = 0
    /\ alone = [s \in Savers |-> FALSE] /\ wrote = files[1] /\ torn = {}

Goes(s, where) == pc' = [pc EXCEPT ![s] = where]
Saving(s) == pc[s] \in {"read", "saving", "checked", "backed up", "open", "written"}
Begins(s, where) ==
    /\ saves < MaxSaves /\ saves' = saves + 1
    /\ Goes(s, where) /\ alone' = [alone EXCEPT ![s] = TRUE]
-----------------------------------------------------------------------------
(* ConfigEditor.                                                           *)
Load(e) ==                               \* __init__, discard
    /\ pc[e] \in {"idle", "editing"} /\ Text.loads # "broken"
    /\ base' = [base EXCEPT ![e] = Text] /\ doc' = [doc EXCEPT ![e] = Text]
    /\ changed' = [changed EXCEPT ![e] = {}] /\ Goes(e, "editing")
    /\ UNCHANGED <<files, config, beside, backup, fd, edits, saves, alone, wrote, torn>>

Set(e) ==                                \* set and reset; a value may be one the loader refuses
    /\ pc[e] = "editing" /\ Cardinality(changed[e]) < MaxChanges
    /\ \/ \E k \in Keys, v \in {Unset, "old", "new"}, loads \in {"yes", "bad"} :
            /\ v # doc[e].key[k]
            /\ doc' = [doc EXCEPT ![e].key[k] = v, ![e].loads = loads]
            /\ changed' = [changed EXCEPT ![e] = @ \cup {k}]
       \/ /\ doc[e].secret # "hash"
          /\ doc' = [doc EXCEPT ![e].secret = "hash"]
          /\ changed' = [changed EXCEPT ![e] = @ \cup {"secret"}]
    /\ UNCHANGED <<files, config, beside, backup, pc, base, fd, edits, saves, alone, wrote, torn>>

(* Faulty variant: the file is taken to be as it was read.                 *)
CompareNot(e) ==
    /\ pc[e] = "editing" /\ changed[e] # {}
    /\ doc' = [doc EXCEPT ![e] = Hardened(@)] /\ Begins(e, "saving")
    /\ UNCHANGED <<files, config, beside, backup, base, changed, fd, edits, wrote, torn>>

Compare(e) ==                            \* save: is the file what was read?
    /\ pc[e] = "editing" /\ changed[e] # {} /\ Text = base[e]
    /\ doc' = [doc EXCEPT ![e] = Hardened(@)] /\ Begins(e, "saving")
    /\ UNCHANGED <<files, config, beside, backup, base, changed, fd, edits, wrote, torn>>

Validate(e) ==                           \* by the real loader
    /\ e \in Editors /\ pc[e] = "saving"
    /\ Goes(e, IF Loads(doc[e]) THEN "checked" ELSE "editing")
    /\ UNCHANGED <<files, config, beside, backup, base, doc, changed, fd, edits, saves, alone, wrote, torn>>

Backup(s) ==                             \* _backup: of what the file is by now, its secrets hashed
    /\ pc[s] = "checked" /\ s # Daemon
    /\ backup' = [backup EXCEPT ![s] = Hardened(Text)] /\ Goes(s, "backed up")
    /\ UNCHANGED <<files, config, beside, base, doc, changed, fd, edits, saves, alone, wrote, torn>>

Open(s) ==                               \* O_CREAT | O_TRUNC, of the one name
    /\ pc[s] = "backed up"
    /\ IF beside # 0 THEN fd' = [fd EXCEPT ![s] = beside] /\ UNCHANGED beside
       ELSE \E n \in 1..MaxFiles : /\ n # config /\ \A o \in Savers : fd[o] # n
                                   /\ beside' = n /\ fd' = [fd EXCEPT ![s] = n]
    /\ files' = [files EXCEPT ![fd'[s]] = Empty] /\ Goes(s, "open")
    /\ torn' = IF \E o \in Savers : fd[o] = fd'[s] THEN torn \cup {fd'[s]} ELSE torn \ {fd'[s]}
    /\ UNCHANGED <<config, backup, base, doc, changed, edits, saves, alone, wrote>>

(* Another saver's text in the file may be longer.                         *)
Mixed(t) == [t EXCEPT !.loads = "broken"]

Write(s) ==
    /\ pc[s] = "open"
    /\ \E t \in {doc[s]} \cup IF files[fd[s]] \in {Empty, doc[s]} THEN {} ELSE {Mixed(doc[s])} :
          files' = [files EXCEPT ![fd[s]] = t]
    /\ Goes(s, "written")
    /\ alone' = [o \in Savers |-> alone[o] /\ fd[s] # config]             \* another one renamed it
    /\ UNCHANGED <<config, beside, backup, base, doc, changed, fd, edits, saves, wrote, torn>>

Ended(s) ==                              \* what a call knew is gone with it
    /\ Goes(s, "idle") /\ doc' = [doc EXCEPT ![s] = Empty] /\ backup' = [backup EXCEPT ![s] = Empty]
    /\ base' = [e \in Editors |-> IF e = s THEN Empty ELSE base[e]]
    /\ changed' = [e \in Editors |-> IF e = s THEN {} ELSE changed[e]]

Replace(s) ==                            \* os.replace, and what an editor notes
    /\ pc[s] = "written" /\ beside # 0
    /\ config' = beside /\ beside' = 0 /\ files' = [files EXCEPT ![config] = Empty]
    /\ IF s \in Editors
       THEN /\ base' = [base EXCEPT ![s] = doc[s]] /\ changed' = [changed EXCEPT ![s] = {}]
            /\ Goes(s, "editing") /\ UNCHANGED <<doc, backup>>
       ELSE Ended(s)
    /\ alone' = [o \in Savers |-> FALSE] /\ wrote' = doc[s] /\ fd' = [fd EXCEPT ![s] = 0]
    /\ torn' = (torn \ {config}) \cup ({beside} \ {fd[s]})
    /\ UNCHANGED <<edits, saves>>

Gone(s) ==                               \* an error (the file beside was renamed by another), or killed
    /\ pc[s] # "idle" /\ Ended(s)
    /\ fd' = [fd EXCEPT ![s] = 0] /\ alone' = [alone EXCEPT ![s] = FALSE]
    /\ UNCHANGED <<files, config, beside, edits, saves, wrote, torn>>
-----------------------------------------------------------------------------
(* The others that save: read, and write what becomes of it.               *)
Harden ==                                \* load_config_hardened of a daemon that starts; no backup
    /\ pc[Daemon] = "idle" /\ Hardened(Text) # Text
    /\ doc' = [doc EXCEPT ![Daemon] = Hardened(Text)] /\ Begins(Daemon, "backed up")
    /\ UNCHANGED <<files, config, beside, backup, base, changed, fd, edits, wrote, torn>>

(* migrate_config, of a config.toml that is there: source and destination  *)
(* are the same file (cli/ops.py:682), which is read, brought up to date   *)
(* and read again.  An older file elsewhere is only copied where there is  *)
(* no config.toml yet.                                                     *)
Migrate ==
    /\ pc[Setup] = "idle" /\ Text.loads # "broken"
    /\ doc' = [doc EXCEPT ![Setup] = Hardened(Migrated(Text))] /\ Begins(Setup, "read")
    /\ UNCHANGED <<files, config, beside, backup, base, changed, fd, edits, wrote, torn>>

Renew ==
    /\ pc[Setup] = "read"
    /\ \/ Text = doc[Setup] /\ Ended(Setup) /\ alone' = [alone EXCEPT ![Setup] = FALSE]
       \/ Text # doc[Setup] /\ Goes(Setup, "checked") /\ UNCHANGED <<backup, base, doc, changed, alone>>
    /\ UNCHANGED <<files, config, beside, fd, edits, saves, wrote, torn>>

UserWrites(t) ==                         \* a text editor
    /\ edits < MaxUser /\ t # Text
    /\ files' = [files EXCEPT ![config] = t] /\ edits' = edits + 1
    /\ alone' = [s \in Savers |-> FALSE] /\ wrote' = t
    /\ UNCHANGED <<config, beside, backup, pc, base, doc, changed, fd, saves, torn>>
-----------------------------------------------------------------------------
Save(s) == Validate(s) \/ Backup(s) \/ Open(s) \/ Write(s) \/ Replace(s) \/ Gone(s)

Next ==
    \/ \E e \in Editors : Load(e) \/ Set(e) \/ Compare(e)
    \/ \E s \in Savers : Save(s)
    \/ Harden \/ Migrate \/ Renew
    \/ \E t \in UserTexts : UserWrites(t)

Spec == Init /\ [][Next]_vars
-----------------------------------------------------------------------------
TypeOK ==
    /\ files \in [1..MaxFiles -> Texts] /\ config \in 1..MaxFiles /\ beside \in 0..MaxFiles
    /\ backup \in [Savers -> Texts]
    /\ base \in [Editors -> Texts] /\ doc \in [Savers -> Texts] /\ fd \in [Savers -> 0..MaxFiles]
    /\ beside # config /\ torn \subseteq 1..MaxFiles

(* Safety: no copy that pcbridge makes, a backup or the file beside, holds *)
(* a secret in plain text, whoever saves at the same time, but for a       *)
(* backup of a file that is not TOML any more: _backup takes what the file *)
(* is by then, and what does not parse is copied as it is.  That needs     *)
(* somebody who wrote it since this save looked at it.                     *)
CopiesAreHashed ==
    /\ \A s \in Savers : backup[s].secret = "plain" =>
          backup[s].loads = "broken" /\ (pc[s] \in {"backed up", "open", "written"} => ~alone[s])
    /\ beside # 0 => files[beside].secret # "plain"

(* Safety: a save changes what was set and nothing else means another      *)
(* thing than in the file it replaces, whoever saved since it was read and *)
(* also when an older file is brought up to date, unless it is written in  *)
(* the moment of the save.                                                 *)
OnlyWhatWasSet ==
    \A s \in Savers : Saving(s) /\ alone[s] =>
        LET set == IF s \in Editors THEN changed[s] ELSE {}
        IN  /\ \A k \in Keys \ set : Value(doc[s], k) = Value(Text, k)
            /\ "secret" \notin set => doc[s].secret = Hardened(Text).secret

(* Safety: config.toml is what someone wrote in full, unless two had just  *)
(* that file open beside it, or one renamed what another was writing; what *)
(* an editor replaces it with loads, and what it replaces is in a backup,  *)
(* unless it is written in that moment.                                    *)
SavesAreWhole ==
    /\ config \notin torn => Text = wrote
    /\ \A e \in Editors : pc[e] = "written" =>
          /\ Loads(doc[e])
          /\ alone[e] => Hardened(Text) = backup[e]

SettingsAccounted == TypeOK /\ CopiesAreHashed /\ OnlyWhatWasSet /\ SavesAreWhole
=============================================================================
