------------------------------ MODULE MCFiles ------------------------------
(***************************************************************************)
(* Small instances of what writes files: the fs_* tools (FileEdits), the   *)
(* one-time links (FileLinks), the screenshots that are published (Shots)  *)
(* and the configuration file (Settings).  To each of them the others are  *)
(* one more program that writes files, which the modules have already; so  *)
(* a behaviour moves one part and leaves the others where they started.    *)
(***************************************************************************)
EXTENDS FileEdits, TLC

CONSTANTS Parts,                                       \* of "edits", "links", "shots", "settings"
          t1, t2,
          Transfers, Paths, HardLinks, MAX_LIVE, Ttl, Remember, MaxLinks, MaxTime, MaxContent,
          Calls, Screens, Tokens, Seconds, NoLinks, PUBLISH_ATTEMPTS,
          Editors, Daemon, Setup, CONFIG_VERSION, Unset, MaxFiles, MaxUser, MaxChanges, MaxSaves

VARIABLES part, now, links, table, made, disk, written, pc, uses, content, completed,
          pictures, sstaging, at, shooting, half, aged, met,
          files, config, beside, backup, saving, base, doc, changed, fd, edits, saves, alone, wrote, torn

MCThreads == {t1, t2}
MCUpload == <<21, 22>>
MCOriginal == <<11, 12>>
MCScreens == <<1, 2>>
(* An older file with a password in plain text, a newer one, and one that  *)
(* is being written and is not TOML yet.                                   *)
ConfigText(version, pinned, live, secret, loads) ==
    [version |-> version, key |-> [k \in {"pinned", "live"} |-> IF k = "pinned" THEN pinned ELSE live],
     secret |-> secret, loads |-> loads]
UserTexts ==
    {ConfigText(1, Unset, Unset, "plain", "yes"), ConfigText(2, "old", Unset, "hash", "yes"),
     ConfigText(2, Unset, "old", "plain", "broken")}
MCSymmetry == Permutations(MCThreads) \cup Permutations(Transfers) \cup Permutations(Calls)

L == INSTANCE FileLinks
S == INSTANCE Shots WITH disk <- pictures, staging <- sstaging, pc <- at, call <- shooting
C == INSTANCE Settings WITH pc <- saving

ASSUME PartsAssumption == L!FileLinksAssumption /\ S!ShotsAssumption /\ C!SettingsAssumption

linkvars == <<now, links, table, made, disk, written, pc, uses, content, completed>>
shotvars == <<pictures, sstaging, at, shooting, half, aged, met>>
configvars == <<files, config, beside, backup, saving, base, doc, changed, fd, edits, saves, alone, wrote, torn>>

FilesInit ==
    /\ part \in Parts /\ Init /\ L!Init /\ S!Init /\ C!Init
    /\ part # "settings" => wrote.version = 1
    /\ part # "links" => \A p \in Paths : disk[p] = L!Absent

FilesNext ==
    \/ part = "edits" /\ Next /\ UNCHANGED <<part, linkvars, shotvars, configvars>>
    \/ part = "links" /\ L!Next /\ UNCHANGED <<part, vars, shotvars, configvars>>
    \/ part = "shots" /\ S!Next /\ UNCHANGED <<part, vars, linkvars, configvars>>
    \/ part = "settings" /\ C!Next /\ UNCHANGED <<part, vars, linkvars, shotvars>>

FilesSpec == FilesInit /\ [][FilesNext]_<<part, vars, linkvars, shotvars, configvars>>
-----------------------------------------------------------------------------
(* The properties of the other modules, stated and explained there.        *)
FilesIntact == UploadIntact /\ PagesAgree
LinksAccounted == L!LinksAccounted
ShotsAccounted == S!ShotsAccounted
SettingsAccounted == C!SettingsAccounted
NeverClobbers == L!NeverClobbers
=============================================================================
