# Pcbridge in TLA+

Pcbridge gives agents control of a Linux desktop over MCP. This directory holds
TLA+ models of the parts of it that are hard to test: what happens when
processes, threads, timers, clients and the user step in between each other.
TLC checks the models on small instances; TLAPS proves every safety property
that the runs check, for every value of the constants.

Run everything from this directory:

    tlc -config MCLease.cfg MCLease
    tlapm LeaseProofs.tla

## 1. The system

One **daemon** per user serves local clients over a Unix socket and remote ones
over HTTP. A local client starts `pcbridge --stdio`, a small **relay** that
connects its stdin and stdout to the daemon. The daemon runs the **MCP tools**.
Desktop tools pass the **safety gate**, which reads the **grant file**, and then
the **execution lock**, which admits one writer on the machine. Inside it they
send input through a **backend**, in Python or through the **native helper** in
Rust. The command line (`pcbridge do`) and a server without a daemon are
further processes that use the same grant file and the same execution lock.

| Component | State | Operations | Talks to | What is hard | What must be true |
|---|---|---|---|---|---|
| Grant (`desktop/lease.py`) | one JSON file: identity, revoke epoch, deadline, ceiling | grant, revoke, revoke_if, touch, snapshot | every process of the machine, through a flock and a rename | read-modify-write by several processes, death in between, a clock read before the wait | no lost update; an ended grant stays ended; the deadline slides only as far as allowed |
| Safety gate (`desktop/safety.py`) | captured token, rate window | unlock, lock, check, verify, touch | grant, screen lock, idle monitor | everything it looked at changes before the action is sent | a revoke stops the next action; nothing is sent behind a locked screen |
| Write sequences (`desktop/execution.py`, `desktop/runtime.py`) | execution flock, the call inside it | hold, admit, guard an action, pace, finish, unwind | gate, input backend | cancellation, exceptions and crashes inside the lock | one sequence at a time; held keys are released by every failing exit; every call ends |
| Held input (`desktop/input.py`) | what is down, what is noted as held, a countdown | key_down, key_up, mouse_down, mouse_up, key, click, release_all | kernel devices, timer threads | device and set are changed apart; a timer that fired cannot be canceled | nothing stays down unnoticed; what is forgotten comes up |
| Relay (`relay.py`) | the backend, ids in flight, lines for the replay | read, note, send, copy, fail, reconnect, replay | client and daemon, or an in-process child | two threads, crashes of the server at any moment | every request is answered; none is run twice; every server is initialized first |
| File links (`filelinks.py`) | a table of links, running transfers | create, claim, release, spend, stream, receive, place | HTTP server, file system | concurrent requests, broken transfers, expiry, files that change | one complete transfer per link; never two at once; nothing is clobbered |
| Daemon and sessions (`daemon.py`, `sessionctx.py`) | sessions, requests in flight, a pending restart | accept, read, write, end of session, idle restart | relay, tools | a request that arrives while it decides to restart | restarts only when idle; the counter returns to zero |
| Jobs (`jobs.py`) | a directory per job: meta, log, exit file | start, status, cancel, wait | detached processes | process and files change apart; process ids are reused | a job that ended is never seen running again; a result is reported once it exists |
| OAuth (`auth.py`, `remoteclients.py`) | clients, codes, tokens, attempts in SQLite | authorize, exchange, refresh, revoke, lock out | HTTP server, `pcbridge remote` | transactions that belong together are not one, and another process revokes between them | a code is used once; a revoked client gets nothing more; guesses are counted |
| Native client (`native/client.py`) | generation, pending requests, writer queue | request, cancel, restart, close | native helper | timeouts against late answers, a helper that dies | every request ends once; no answer crosses generations |
| Native helper (`src/rust`) | watchdogs, devices, the share of the screen, the stream of a capture | dispatch, input, open, capture, shutdown | compositor, kernel, PipeWire | a grant that ends, or a screen that locks, while a request opens something; replies that come too late | nothing is sent after the grant ended; nothing stays open; a picture is of the screen asked for |
| Frame owner (`desktop/glowowner.py`) | the process that draws the frame | open, supervise, retire, close | grant, native helper | the frame dies or is replaced while a grant is opened or closed | no grant outlives its frame; no newer grant is retired with an older frame |
| Runtime and capture timer (`desktop/runtime.py`) | capture session, timer | start, rearm, close | grant, capture | a timer against a touch | no share outlives its grant |
| Batch runner (`desktop/batch.py`) | position, budget, focus baseline | run | input, focus, tools | focus moves between two actions | keys go only where the batch began |
| Keep awake (`power.py`) | an inhibitor process, the methods that failed | poll, start, confirm, replace, stop | jobs, the desktop | an inhibitor that starts and does not take, or dies | awake while a job runs, and only then |
| Files (`files.py`) | files, staged uploads | write, append, edit, upload by chunks, read by pages | worker threads, other programs | look at the file and replace it are two steps | what others wrote is not dropped silently; an upload is whole; pages belong together |
| Input and desktop providers (`desktop/backends/rust.py`) | the helper of the current grant, whether it may hold something | find, replace, ask, release, close | native client, grant | threads that release and close without the execution lock | keys go down under the open grant only; what is down is known |
| Clipboard (`clipboard.py`, `input.py`) | what was on it before | save, put, paste, check, restore | user, window, clipboard programs | the user copies, the window reads late | what the user copied is not lost |
| Windows and applications (`desktop/apps.py`) | none of its own | bring to front, launch, search | compositor | a window that appears late, a deadline | what a call says of itself is true |
| Screen capture (`desktop/capture.py`) | pictures and records in directories | draw a name, publish, withdraw, sweep, find | file system, other processes | names that meet, death in the middle, an age limit | a record has its pictures; a picture is of one capture |
| Coordinates (`desktop/capture.py`, `desktop/monitors.py`) | a cached layout, the layout of each record | list, region, frame, convert | compositor | the layout changes between picture and click | a click lands where it was seen |
| Browser (`browser/`) | keeper, record, connection, tabs, the hand-over record | launch, find, open, close, act, hand over, give back | Chromium, user, phone page | slow keepers, restarts, files written without a lock | a browser is found again; the user's turn is the user's |
| Settings (`settings.py`, `hashing.py`, `config.py`) | `config.toml`, its backups, a file beside | load, change, compare, back up, replace, harden, migrate | the user's editor | several writers, one name for the file beside | a save changes only what was set, two saves do not mix, and no copy holds a plain secret but the backup of a file that stopped being TOML |

Without a model of their own, because they keep little state or belong to
others: OCR and accessibility, models and agents, the command line, the text
interface, the GNOME extension. `PROJECT.json` lists them with the reason for
each, says what is left out of those that are modelled in part, and lists the
hazards of the code at their lines.

## 2. The models

| Module | Code | Notes |
|---|---|---|
| `Grant` | the contract of the grant | abstract: no lock, no file, no process |
| `Lease` | `LeaseStore` as `SafetyGate` calls it | refines `Grant` |
| `WriteSequence` | `check`, `hold`, `admit`, the guard of an action, `pace`, `finish`, `_sequence_context`, `desktop_lock` | uses the atomic grant that `Lease` implements |
| `HeldInput` | `InputBackend`, its keys, buttons and countdown | one worker, as `WriteSequence` guarantees |
| `Pointer` | where the virtual mouse of `InputBackend` puts the cursor | the execution lock lets one backend move at a time |
| `NativeInput` | one device of the helper in Rust, its timer thread and `close()` | |
| `NativeGuard` | the helper's watchdogs and the opening of its devices (`lifecycle.rs`, `dispatch.rs`) | |
| `NativeShare` | what the helper shares of the screen, and its captures (`session.rs`, `capture.rs`, `image_copy.rs`) | on GNOME a session stays open between captures |
| `FrameSource` | one frame from PipeWire: the worker of a capture and the loop (`capture.rs`, `pipewire_source.rs`) | |
| `NativeClient` | the Python side of the helper: generations, queue, answers | |
| `Provider` | the input provider of `backends/rust.py` between tools and helper | |
| `Batch` | `computer_batch` and `pcb-do` | inside one write sequence |
| `Fronting` | `bring_to_front` | |
| `TypeText` | typing through the clipboard | |
| `Relay` | both threads of `Relay`, and its servers | |
| `Daemon` | local sessions, calls in flight, idle restart | |
| `Jobs` | a background job, its files, those who look and cancel | |
| `Auth` | the OAuth server and `pcbridge remote` | |
| `FileEdits` | `fs_write`, `fs_edit`, `fs_read` and chunked uploads on one path | |
| `FileLinks` | `LinkStore`, `_FileStream`, `upload_receive`, `_place` | |
| `Shots` | publishing, withdrawing, sweeping and finding screenshots | |
| `Coordinates` | from a pixel of a picture to a point of the desktop | |
| `Settings` | those who write `config.toml` | |
| `KeepAwake` | the daemon's loop and its inhibitor | |
| `Share` | the screen share of a grant and its timer | |
| `FrameOwner` | the frame of a grant and its supervisor | |
| `Browser` | keeper, record, connection, tabs | |
| `Handoff` | the record that says that the user has the browser | |
| `MC*` | | small instances for TLC |
| `*Proofs` | | theorems, see section 4 |

How they fit: `Lease` shows that the grant is atomic to everyone;
`WriteSequence` builds on that and shows that at most one call sends input;
`HeldInput`, `Pointer`, `Batch` and `Provider` build on that in turn, with one
writer and other threads that release without the lock. The others stand
beside each other: they share no state, or only the grant file, and what one
of them sees of another is a step of its environment (a revoke, another
program that writes a file, a death).

For that reason an MC module holds several models. It has a variable `part`;
each behaviour moves one part and the others stay where they started, so that
one run checks all of them and no product of independent state spaces is
explored.

| MC module | Parts |
|---|---|
| `MCLease` | `Lease`, `Coordinates`, `NativeGuard` |
| `MCWriteSequence` | `WriteSequence` |
| `MCHeldInput` | `HeldInput`, `NativeInput`, `Pointer`, `Provider` |
| `MCDesk` | `NativeClient`, `Batch`, `Fronting`, `TypeText` |
| `MCRelay` | `Relay` |
| `MCDaemon` | `Daemon`, `Jobs` |
| `MCAuth` | `Auth`, `Browser`, `Handoff` |
| `MCFiles` | `FileEdits`, `FileLinks`, `Shots`, `Settings` |
| `MCSupervisors` | `KeepAwake`, `Share`, `FrameOwner`, `NativeShare`, `FrameSource` |

Operators named in a comment "Faulty variant" are not part of any
specification. Each one is an action or helper with a plausible mistake; with
it in place of the original one of the properties fails. They show that the
properties can fail; `PROJECT.json` lists them under `mutants`, one for each
property.

### Grant and Lease

A process runs one operation at a time: it takes its time stamp (`Begin*`),
waits for the flock (`Acquire` locks and reads the file), and renames a new file
into place (`Commit*`). `Crash` may come between any two of these. `snapshot()`
needs no lock (`CaptureToken`). Identities are numbers instead of uuids, and
`revoke` and `grant` are the operations behind `SafetyGate.lock` and `unlock`.
Time is counted in half seconds so that the "less than a second" rule of
`touch`, which saves a write, is not rounded away. A file that is missing or
cannot be parsed reads as `Empty`; a file of an older schema may have a
deadline and no identity, so `Init` has both.

### WriteSequence

Each call has a program counter from `check()` in the tool (`idle`, `checked`)
over the wait for the lock (`waiting`) to the inside of the slot: `verify`
(screen), `touch` (grant), `between` actions, `pace` (the rate limit sleeps
here, after the check), `send`, and the two ways out, `exit` and `unwind`. A
batch has several actions, other tools one. The rate limit, the activity guard
and "unknown" activity are one refusal, `CheckRefuses`. `held` names the calls
whose key or button is down in a process. `desktop_lock` is two steps: the
revoke, then `release_all` without the execution lock. `overrun` and `blind`
are history variables that count what was sent too late.

### HeldInput

The worker writes to the device (`Press`, `LetGo`) and changes the set later
under `_lock` (`Track`, `Untrack`); `key()` looks at the set between pressing
and lifting; `click()` does not look at it at all. `Release` and `ReleaseEnds`
are the two halves of `release_all`, for a timer or for any other thread. A
timer thread is `waiting`, `up` (its time is over, `cancel` has no effect any
more) or gone. Buttons and keys share the variables, because `release_all` and
the countdown treat them alike. Any write may fail: `PressFails`, `LetGoFails`
and `LiftFails` end the command with part of its keys written and nothing
noted, and `Release` forgets a key it could not lift. What such a failure leaves
down is tracked nowhere and no countdown will lift it; `stuck` remembers it, and
`NothingDownUntracked` and `ForgottenKeysRise` except it. With `HoldMax` at zero
or below there is no countdown. Not modelled: opening and closing the devices,
and `pointer` devices that are rebuilt when a monitor appears.

### Pointer

A backend has an absolute device, a relative one and a note of where the
cursor is, which it writes to a file when it changes and reads when a call
begins. The kernel swallows an absolute value that repeats the last one of its
device; the code therefore moves to a neighbouring point first when it has
moved relatively in between. `NotesAreTrue` says that the note is true between
moves, unless something else moved the cursor. A move to the value a *fresh*
device starts with, or to the last value of the device after the user moved the
mouse, is swallowed; that is how the code is, and the property excepts it.

### NativeInput

A mutex protects the device; the timer thread sleeps on a condition variable
until the first hold runs out. A write may fail at any time, which closes the
device. `close()` wakes the timer thread and joins it.

### NativeGuard

Three watchdogs (grant, screen, and on Hyprland the frame and the idle time) and
the thread that serves requests look at the same world. A look at a file or a
signal and the latch it sets are two steps. Who sets the latch takes a snapshot
of the registry and closes it device by device, while the others go on. A
request looks, opens up to two devices, on Hyprland looks again after each, looks
again after the wait for the compositor, and writes. GNOME and KDE differ from
Hyprland in this and in how the screen lock arrives: as signals that may be old,
or by asking. `abandoned` and `late` are history variables. Requests that release
(`release_all`, `held`) are served without a look and open nothing; they are left
out.

### NativeShare

On GNOME the helper keeps one session of the compositor open, with a stream for
every monitor, and the user sees that the screen is shared. A request that needs
it takes the session's mutex, clears the flag that closers raise, and opens it
step by step (`Lock`, `Create`, `Record`, `Start`, `Announced`, `Last`), with a
checkpoint before every step: the flag, then the check of `lifecycle.rs`. A
watchdog raises the flag (`Raise`) and then *tries* the mutex (`CloseSession`),
since the request that has it may be waiting for a stream, or be the one whose
check closes. So a close that finds the mutex taken relies on a checkpoint that
comes later. The mutex is let go of before a frame is fetched; then a closer may
take the session away at any moment. `LetGo` forgets the session also when the
compositor did not answer. KDE has nothing to close, and on Hyprland a closer
raises the generation, which the running capture compares with the one it began
with. The screen watchdog sees locks as signals, which may be old, or by asking;
a question without an answer reads as a lock. `missed`, `blinked`, `leaked` and
`late` are history variables.

### FrameSource

The worker of a capture (`step`) and the thread of the PipeWire loop talk over a
queue of commands, a channel for each reply, a channel of two frames, and the
flag `attached`. The worker waits two seconds for a reply and goes on without it
(`AttachGivenUp`, `Detached`); the command stays in the queue with nobody to
hear its reply (`heard`). A frame carries the node it came from, and is fresh or
from before the request, a moment that moves with every capture (`Begin`). A
failed capture stops the share, whose nodes then end or, if the compositor was
not reached, go on.

### NativeClient

A generation is one child process. A request goes through a bounded table of
pending requests and a bounded queue to the writer; its answer, its timeout,
its cancellation and the end of its generation race. The child may answer what
was given up, and may die at any moment. `close()` takes the requests out of the
table (`Close`) and wakes their callers without the lock (`Wake`); a child is
forgotten under the state lock (`Forget`, `PublishGone`) and unregistered after it
(`Unlist`, `Withdraw`). The registry on disk has one entry for each generation
that was initialized, and one more for a registration that failed after its
file was in place (`strayed`): no variable has its name, and `prune_stale`, which
would remove it, is called by nobody.

### Provider

The provider keeps a helper per grant and a flag that says whether there is
anything to release. Each thread of the daemon is at one of twelve places
between looking at the helper and closing it. The helper answers its queue in
order; a request whose caller gave up stays in the queue and is still executed.

### Batch, Fronting, TypeText

`Batch` has the budget, the focus baseline, the overview that `super` opens,
repeated clicks and held keys; the user switches windows at any moment, and the
focus may be unreadable. A launch that runs out of time (`TooLate`) counts as
not done, whether it had started the program or not, and `RestIsUnsent` excepts
that case (`LaunchedLate`). `Fronting` is one call of `bring_to_front` or
`launch_application` with its deadline; the application may be closed, start
slowly, or show or lose its window at any step. While it watches for the window
it reads the focus and the list in steps of their own, notes once that it saw a
window and does not look for it again. `TypeText` is one paste: the user copies
at any step, the window reads at any step after the key, also after the old
content was put back, and each clipboard program may fail, `wl-copy` in
`restore` without anybody noticing.

### Relay

`cpc` is the client thread (`read`, `note`, `pick`, `send`), `spc` the server
thread (`loop`, `reading`, `fail`, `failing`, `replay`, `initialized`,
`install`). The steps are cut where the code takes or drops its condition, and
around every write to a pipe or socket. Servers are numbered; `up` and `closed`
say which live and which the relay closed. A dead server loses what it was sent
and did not read; what it wrote is still read. The start, in which the relay
connects or becomes a server by itself, is over in `Init`.

### Daemon and Jobs

`Daemon` has the readers, writers and watchers of local sessions, interleaved
where they await, and the idle check, which runs in a worker thread: it looks
at the calls in flight, the sessions and the build, and then restarts. A client
may reuse a request id, which the table of calls must survive. `Jobs` has the
wrapper shell that runs a command and writes an exit file, and callers that
know only two files and `kill(pid, 0)`: start, status, cancel, deadline and a
restart of the daemon between any two of their steps. Its pid may be given to
another process when its group is empty. The idle check takes jobs that cannot
be listed, and a grant that cannot be read, for none.

### Auth

Handlers do not suspend between their transactions; what comes in between is
the command line, which revokes clients in the same database, and a death of
the daemon. An approval becomes a code, a code a pair of tokens, a refresh
token the next pair; wrong guesses count towards a lockout.

### FileEdits, FileLinks, Shots, Settings

`FileEdits`: tools take no lock. A call reads the file, writes a copy, looks
again and replaces; a content is the sequence of what was written, so that
"dropped" has a meaning. An upload's chunks go into one staging file for each
path.

A link is a record that the table and a transfer both point to; the table may
forget it (`Kept`) while the transfer runs. Contents of files are numbers, so a
changed file is a new number. `End` is every way out of a transfer. `HardLinks`
names the paths on a file system with hard links; `PlaceRename` is the second
half of the way without them. A restart forgets every link, since the table is
in memory. Tokens, pages and hashes are left out: a wrong hash is one of the
ways of `BodyRefused`.

`Shots`: a capture draws a suffix, looks whether any of its names is taken,
publishes file by file, with hard links or, in the directories of `NoLinks`, by
copying into a file that is there before its content (`half`), and takes back what
it published when a link is refused or the guard fails. A process may be killed at
any step; sweeps delete by age. `Settings`: editors, the daemon that hashes
secrets when it starts, `pcbridge setup` and the user's text editor write one
file; all but the last write `config.toml.tmp` first, under one name for all of
them. A text is its version, two keys, a secret, and whether it loads. `pcbridge
setup` migrates the `config.toml` that is there, source and destination in one
(`cli/ops.py:682`); with another source it writes only where there is no
`config.toml` yet, which is left out.

### Coordinates

A record keeps the layout under which its picture was taken and is refused
under another. A layout places outputs of rational scale on one axis; a picture
may be a part of an output and be scaled to a long edge. Conversion is done
with the code's rounding. A picture comes from the stream of one output or, as
from `gnome-screenshot`, is cut from one picture of everything, rendered with a
pixel for a unit or at some output's scale; `Ratios` is what `canvas_pixel_ratio`
makes of its width, and the cut is scaled and rounded with it. Scales are exact
ratios; the code compares them rounded to four digits, which no scale that a
compositor offers tells apart. The point is looked up again before the device
moves (`OnAMonitor`), maybe in another table, and the look is skipped when the
monitors cannot be listed.

An output is known by its serial number; one without it (every output on KDE and
X11, virtual ones on Hyprland), or with one that another shares, by its
connector. `Same` says which output the code may take for the one it saw, and
`ClickHitsWhatWasSeen` promises no more: two equal monitors on KDE that swap
their cables between picture and click are not noticed, and the layouts of
`MCLease` contain them.

### KeepAwake, Share, FrameOwner

`KeepAwake` counts the running jobs on every turn of the loop and takes, keeps,
changes or gives back an inhibitor that may refuse, run without effect or die;
`confirm()` may also get no answer about one that took.
`Share` has the timer that ends a share after its grant, and the calls that
rearm it. `FrameOwner` grants, starts a frame for that grant, waits until it
shows, and a supervisor retires the grant with its frame; other processes
revoke and renew in the same file.

### Browser and Handoff

A keeper holds the browser's pipe, so that the browser outlives the daemon, and
answers on a socket of a fixed path; a record names it. Calls of agents share
one connection; of the pages only the number of tabs and one document are
modelled. `Handoff` is the record that says that the user has the browser: it
is written and removed by many and locked by none, so each read and each
replace is a step.

## 3. The runs

| Run | What it shows |
|---|---|
| `lease` | The grant file behaves like `Grant` in every interleaving with crashes: no lost update, nothing closed opens again, a deadline never passes its ceiling. The grant closes in time after the last action, and only a touch stamped before the deadline revives it (`ExpiredMovesOnlyByEarlierTouch`). A click goes to where its pixel was, within half a unit of the desktop and half a pixel of the frame, and a region shows all that was asked for (`ClicksLand`). A helper that found its grant gone writes nothing more and leaves no device open (`HelperStaysShut`). |
| `sequence` | One sequence at a time; at most one late action per grant, and one behind a locked screen; only a sequence that ran to its end leaves a key down; every call ends. |
| `held` | Nothing is down untracked, a countdown runs while something is held, `key()` spares held keys. The same for a device of the helper and for the provider (`HoldsAreKnown`); what is forgotten comes up, in Python and on the device (`DeviceLetsGo`); keys go down under the open grant only (`GrantedPress`); the note of the pointer is true (`NotesAreTrue`). |
| `desk` | Every request to the helper ends once and in its own generation (`PipeAccounted`); a batch spends its budget, repeats no click and names what it did (`BatchAccounted`); no key goes to another window than at the start, unless the overview was opened (`KeysStayHomeUnlessRaw`); a success of `bring_to_front` or `launch_application` has seen the window, a refusal sent no key and left a window if it started something, and an open application is not started again (`FrontingTold`); what the user copied is not lost in a paste, and what he had comes back but for the failures the code cannot see or does not look at (`TypingSparesClipboard`). |
| `relay` | No request after `initialize` is run or answered twice, no answer to a replay leaks, every server is initialized first (`RelayAccounted`); every request ends. |
| `daemon` | The count of calls is the calls in flight, or more once an id was used twice; a restart cuts off no local call that was in flight when the look at it began; a job that was told to be over is not seen running again while its pid is its own, and a command that runs without a record has one of three explanations (`DaemonAccounted`); sessions and restarts end, and an overdue job is stopped (`DaemonSettles`). |
| `auth` | One code for an approval, one pair for a code, every guess counted (`LoginsAccounted`); a revoked client gets at most the pair it was about to get (`TokensAccounted`); a browser is found again and the user's turn is the user's (`BrowserAccounted`). |
| `files` | Nothing is dropped unseen; an upload is whole, and pages that were read under one content belong together (`FilesIntact`); links, screenshots and the configuration keep their promises; nothing is clobbered where hard links exist. |
| `supervisors` | A share that is on is watched, a frame is the one its owner knows, an inhibitor is known, and the helper's share does not outlive the grant or the unlocked screen (`HeldIsKnown`); a picture is of the screen that was asked for, taken under the grant, and its stream is released (`FramesAreTrue`); a job has an inhibitor that took wherever one is left that was not dropped for want of an answer, and none is held without jobs (`InhibitorFollowsJobs`), and what holds a grant ends with it (`GrantHoldersEnd`). |
| `share_outlives` | **violated** `ShareNeverOutlives`, see below. |
| `late_refusal` | **violated** `RefusedDidNothing`. |
| `keyboard_hang` | **violated** `CloseReturns`. |

### Bounds

Counters are bounded by guards on the actions that raise them, and named
`Max...`.

- `MCLease`: two processes, two grants and one revoke make every race of two
  read-modify-writes and a replacement; six ticks are longer than a grant of
  five and an idle time of three, so that both ends occur. Coordinates: nine
  layouts of two outputs with whole and fractional scales, equal and mixed, one
  with a virtual output, and equal outputs without a serial number or with the
  same one in both orders; pictures of full size and scaled down, one change of
  the layout. Helper:
  two devices, so that the keyboard or the two halves of a pointer are opened
  and one is replaced, and two changes of the world on GNOME (the grant ends and
  comes back by a late touch, or the screen is locked meanwhile), one on
  Hyprland, where every look has four parts.
- `MCWriteSequence`: two calls of one daemon, one of them a batch of two
  actions (a second verification). One grant and one revoke; that a replaced
  grant makes no difference is covered by the proof.
- `MCHeldInput`: two keys make chords, two timer threads allow one that fired
  while another counts; failed writes leave at most one key down (`MaxStuck`). A
  device with two codes. Two pointer backends on a line of three points. A
  provider with the writer, one other thread, two grants, two helpers and one
  death: a helper is replaced, and one dies in between.
- `MCDesk`: two threads and a table for one request, so that one is turned away;
  two generations and four ids. Two windows, batches of up to three actions, one
  switch by the user, a click repeated twice. The windows and the targets of a
  batch are alike, so only one of the lists that differ by their names is
  taken, and windows count only where focus is tracked. Two copies of the user.
- `MCRelay`: one request and three servers make a crash during the recovery
  from a crash; the properties speak of one request each. The last server stays
  up. The later servers are children, the kind for which a send fails in two
  ways.
- `MCDaemon`: two sessions with two requests each; a poller and a user who look
  at a job.
- `MCAuth`: two clients, two approvals, three tokens (a pair of the second
  generation), a limit of two wrong guesses out of four, one crash. Two calls,
  two keepers and two tabs; one agent, two hand-overs.
- `MCFiles`: two threads and three calls, one of them at most inside an upload
  (see below); two transfers of one link or of two, at most one open, and three
  contents: what was there, what came meanwhile, what was uploaded. Two captures
  of one or two screens that draw the same name. One editor, the daemon, setup and
  the user, with two saves and three files.
- `MCSupervisors`: two methods, of which the first can fail to take; two deaths;
  two callers and two grants. The helper's share: two sessions, so that one is
  opened after another was closed or left, and three changes of the grant, the
  screen and what a look at them says: a lock, its end, and a grant that ends
  meanwhile. Frames: two screens and two shares, so that a frame can be of the
  other screen or of the share before, and one reply that is not waited for.

Symmetry is declared for sets whose members the model never tells apart, in
runs without liveness properties. `CHECK_DEADLOCK FALSE` appears where the
system may really stop: the relay after its client left, calls that are over
when the numbers are used up, a device that is closed.

### Fairness

- `sequence`: weak fairness of what a call does by itself. Worker threads run,
  the wait for the lock has a deadline (`Busy`), and no user, client or clock is
  assumed to do anything.
- `held`: weak fairness of the worker inside a command, of the timers and of
  `release_all` once inside `_lock`. For the helper's device: time passes and a
  write returns; strong fairness of the timer thread, because the dispatcher
  lets go of the mutex between two requests.
- `relay`: both threads run, a server that stays up reads and answers, and a
  reconnect finds a server in the end, because the code falls back to a child
  after `RECONNECT_WAIT_S`. The client need not do anything.
- `daemon`: the steps of the idle check and the cleaning up after a session that
  ended are weakly fair; the poller lists the jobs every few seconds and its
  waits are bounded.
- `supervisors`: the loop of the daemon polls and time passes; calls of the
  share and its timer run, and so do the frame owner's calls and supervisors.
- `lease`, `auth`, `files`, `desk`: none, they check safety only.

### What the violated properties say

- `share_outlives`: a refresh that meets a grant with no second left (it ended,
  or is about to) rearms the timer with zero and leaves the share without a
  timer (`desktop/runtime.py:346`), while `tools.py:1535` says that the share
  ends with the grant.
- `late_refusal`: `bring_to_front` starts an application and then refuses for
  lack of time with a text that says it was not started (`desktop/apps.py:1069`).
- `keyboard_hang`: a failed write marks the device as closed and notifies
  nobody; `close()` then joins a timer thread that still sleeps
  (`input.rs:361`, `:487`; `lifecycle.rs:84`).

### What the models show besides

The properties except the following, each at the place where it is stated. They
are what the code does, met while it was modelled.

- Grant: a touch that took its time stamp before the deadline and got the lock
  after it revives the grant. A touch that is stamped earlier and gets the lock
  later pulls the deadline back by what it waited (`lease.py:265`); the deadline is
  bounded from above only.
- Sequences: a release at the end of a failed sequence that raises is logged and
  swallowed (`runtime.py:447`); in the model it succeeds.
- Helper client: a request that is given up when its frame is already in the
  writer's hand may still be run. A registration whose directory cannot be
  synced (`registry.py:84`) leaves a file that nothing removes (`strayed`).
- Relay: a request that was reported as failed may be run by the next server;
  `ChildBackend.send` can meet a pipe the other thread has closed, and the
  `ValueError` ends the client thread (counted as an end by
  `EveryRequestAnswered`). An `initialize` that waits for the new server is sent
  to it twice under its own id, by the replay and by the waiting thread, and may
  be answered twice; `RunsAtMostOnce` and `AnswerHistory` except it.
- Links: the sweep forgets a link by age, also one that is being transferred,
  and the limit then admits another.
- Held input: `click()` lifts a button that is held and leaves it noted. Pointer:
  a move to the device's last value after the user moved the mouse is swallowed.
- Provider: a `release_all` that overlaps a press, or that is not answered,
  clears the flag although the key is down; `held()` then names nothing, a
  second release sends nothing, and the helper's own limit lifts the key. A
  writer that finds its helper closed by `desktop_lock` starts another one under
  the grant that is over; the helper refuses it there.
- Helper: `register_fail_closed` says that a device it registers is closed from
  the watchdog's thread "as soon as" the grant is revoked (`lifecycle.rs:348`). On
  GNOME and KDE a pointer that `pointer.ensure` registers after that closing, and
  leaves because the second device cannot be opened, stays open until the helper
  ends; nothing is written to it (`abandoned` and `late` in `RevokedStaysShut`).
- The helper's share: `session.rs:18` says that "every closure trigger" ends in
  `Closed`. A close that finds the mutex taken relies on the next checkpoint,
  and none follows the last one, or the look that uses an open session again:
  a revoke or a lock between that and the release of the mutex leaves the share
  open and idle (`missed`). The flag is still raised, but the next `open` clears
  it. A look at the screen that fails reads as a lock, and the lock that comes
  next is then no edge and closes nothing (`blinked`). A session whose stop the
  compositor did not answer is forgotten (`leaked`).
- Frames: a detach that the loop has not answered in two seconds leaves the
  earlier stream attached when the next capture begins, and a frame of it that
  arrives after the channel was emptied is taken for the new one (`lagging`). An
  attach that the worker gave up before the loop took it leaves a stream
  attached until the next one, while `capture.rs:453` says that the stream is
  detached on every path out (`heard` in `StreamsAreReleased`).
- Batch: after `super` every key is exempt from the look at the focus, as
  `docs/dev/desktop-rules.md` says; a `release_all` that fails at the end is not
  reported. Fronting: if the overview is open already, `super` shuts it and the
  name goes into a window. "started, its window is listed" is said of a window
  that was in the list up to a second before (`apps.py:911`): the user may have
  closed it since (`gone`). Clipboard: what the user copies between saving and
  putting is lost; a paste whose key failed leaves the text on the clipboard; a
  `restore` whose `wl-copy` fails leaves it there too, and the call says "clipboard
  restored" (`clipboard.py:123`, `rust.py:808`, on purpose: `slipped`); a window
  that reads more than 0.25 seconds after the key gets the old content (`late`).
- Keep awake: `confirm()` answers no when the desktop cannot be asked
  (`power.py:98`); an inhibitor that took is then dropped and its method not tried
  again for these jobs. If it was the only method there, the machine may sleep
  under a running job (`misread`).
- Pages: `read_page` compares the cursor with the file and then opens it again to
  read (`files.py:231`). A write in between gives a page of the new content at an
  offset of the old; the next cursor tells, but after the last page nothing does,
  while `files.py:10` and `CHANGELOG.md:251` say that pages never skip or repeat
  content. `PagesAgree` excepts that page, and a file that changed just before a
  page was read and changed back before the next: the cursor names a content by
  its hash.
- Uploads: nothing keeps a second call for the same path from writing to the
  staging file between the comparison with `final_sha256` and the rename
  (`files.py:687`), for instance a chunk that is sent again while its first call
  still runs, while `tools.py:1177` says that the file appears only once every byte
  arrived intact. So `UploadIntact` is checked and proved for one uploader
  (`OneUploader`), a client that sends a chunk when the last was answered.
- Jobs: a canceled job may leave children of its group running. The record is
  proved writable before the process is started (`jobs.py:126`), but written after:
  when the daemon ends in between, the command runs on and no tool sees it; when
  the record cannot be written after all, the group gets a SIGTERM, which the
  command may ignore. `UnseenIsExplained` names these cases. A job that was killed
  without an exit file is `vanished`, and `running` again once its pid is
  another's. HTTP calls are not in the daemon's count.
- Settings: all who save share one file beside `config.toml`; two at the same
  time can leave it empty or mixed, although `settings.py:20` says that it is
  replaced atomically. What is saved between the look and the rename is lost;
  the daemon does not look at all, and setup looks only whether there is
  anything to do. And `_backup` copies what does not parse as it is: when a text
  editor leaves something that is not TOML between a save's comparison and its
  backup, the backup keeps the plain secret, although `config.py:612` says "A
  backup never keeps a plaintext secret" and `settings.py:15` that the old file
  is copied with its secrets hashed. `CopiesAreHashed` names exactly that backup.
- Screenshots: a withdrawal takes the pictures first, so that a record without
  its picture is visible for a moment, or for good if the process is killed
  then. Two captures that overlap in different directories may draw one id.
  `pcb-shot --out DIR` sweeps every old picture and record of `DIR`.
- Coordinates: a layout that changes within the two seconds of the cache is not
  seen. Outputs of the same size that have no serial number, as all on KDE
  (`monitors.py:379`), or that share one, are told apart by their connectors only.
  `Shot.to_global` rounds half a unit up, so that the last column of a picture
  with two pixels or more for a unit lands on what is right of the output
  (`capture.py:277`), or is refused where nothing is.
- Browser: a keeper that is launched while another one starts can be lost; two
  closes of two tabs at the same time close the last window. Hand-over: noting
  the notification writes back what was read, and so revives a hand-over that
  was given back in between; an older hand-over's button ends a newer one.
- Frame: a retirement that fails in the file system is not tried again.

## 4. The proofs

Proof modules extend the MC module of their component, so that theorems of
modules that run together are about the specification that TLC checks. All
theorems are about specifications without fairness, or do not use it, and hold
for every value of the constants that satisfies the modules' named assumptions
(types, and that special values are distinct). TLC evaluates those in every run.

| Module | Theorems | Properties |
|---|---|---|
| `LeaseProofs` | `TypeCorrect`, `NoLostUpdate`, `ImplementsGrantSpec`, `RetireSparesReplacement`, `TouchesOnlyWhatWasOpen`, `ClosesInTime`, `ClicksLandWhereSeen`, `RevokedHelperStaysShut` | all properties of `lease`: `DecidesOnCurrentFile`, `ImplementsGrant`, `ExpiredMovesOnlyByEarlierTouch`, `ClosesAfterLastAction`, `ClicksLand`, `HelperStaysShut` |
| `WriteSequenceProofs` | `TypeCorrect`, `SequencesExclude`, `LateActionsBounded`, `BlindActionsBounded`, `OnlyFinishedHold` | `OneSequenceAtATime`, `AtMostOneLateAction`, `AtMostOneBlindAction`, `OnlyFinishedSequencesHold` |
| `HeldInputProofs` | `HeldInvariant`, `NothingDownIsUntracked`, `CountdownAlwaysRuns`, `TapsSpareHeld`, `HoldsStayKnown`, `NotesStayTrue`, `PressesUnderGrant` | all safety properties of `held` |
| `FilesProofs` | `NothingUnseenIsDropped`, `PagesOfOneContent`, `FilesStayIntact`, `LinksInOneHand`, `UploadsNeverClobber`, `SettingsSaved`, `ShotsPublished` | all properties of `files`: `DropsOnlyUnseen`, `FilesIntact`, `LinksAccounted`, `NeverClobbers`, `SettingsAccounted`, `ShotsAccounted` |
| `AuthProofs` | `LoginsLetThroughOnce`, `TokensCounted`, `BrowserShared` | all properties of `auth`: `LoginsAccounted`, `TokensAccounted`, `BrowserAccounted` |
| `SupervisorsProofs` | `NothingHeldUnknown`, `FramesStayTrue` | all safety properties of `supervisors`: `HeldIsKnown`, `FramesAreTrue` |
| `DeskProofs` | `PastesSpareCopies`, `ListsAccounted`, `KeysStay`, `FrontingTellsTrue`, `RequestsAccountedFor` | all properties of `desk`: `TypingSparesClipboard`, `BatchAccounted`, `KeysStayHomeUnlessRaw`, `FrontingTold`, `PipeAccounted` |
| `DaemonProofs` | `BooksAreRight` | `DaemonAccounted` |
| `DaemonProofs` | `AnswersOnce` | `RelayAccounted` |

**Lease.** `DecidesOnCurrentFile` says that a process inside the lock has read
what is in the file. It is not inductive alone: it needs that only one process
is inside (`LockOK`). With both, a commit that writes a function of what was
read is one atomic step of `Grant`, and everything else is a stutter; this is
`ImplementsGrantSpec`. `RetireSparesReplacement`, `TouchesOnlyWhatWasOpen` and
`ClosesInTime` follow from the same invariant, together with what `touch` admits
and how it computes the new deadline.

**Coordinates.** `PointsInv` says of a picture that it is of a part of one output
of some layout, and, if the layout stayed from the table to the frame, that both
ends of its box in the frame are to half a pixel where they are on the desktop
(`IsOf`, `Near`); of a region, that it covers the pixels asked for, of the same
output (`Covers`); of a capture, that its box is on its target (`JobOK`); and of
a click, that its picture was current under the table it was converted with
(`ClickOK`). A picture that is current is of an output of that layout, at its
place (`CurrentFinds`): geometry alone does not give that, which is what
`_shot_output_matches` is for. What remains is arithmetic about the three
roundings: from the desktop to the frame, from the picture to a region
(`StartIsShown`, `EndIsShown`) and from the picture to a point (`PointIsNear`),
each for any scale; for the picture of everything, `RatioIsNear` gives the same
bound whether the cut is scaled with the ratio the picture was rendered at
(`ScaledIsNear`) or the picture is as wide as the desktop although it was
rendered at another one (`UnscaledIsNear`). Nothing is assumed of serial
numbers: only that the outputs of a layout do not overlap, have connectors of
their own and one of them reaches furthest.

**The helper's guard.** When the grant was found gone and every sweep is over, an
open device must have an explanation. `HelperInv` gives one for every moment: a
device that is open after the latch was set is still ahead of a sweep
(`Doomed`), or was registered after the snapshot of the last sweep, and then the
request that registered it has its next look before it (`Unsettled`,
`Checking`), or it was left by `pointer.ensure` (`LateOK`). `StageOK` and
`LooksOK` tie the look a request is at to the devices it is about to close, and
`HeldOK` says that every open device is in one of the dispatcher's fields. For a
signal of Hyprland the argument is the same with `lost` for the latch
(`LostOK`); there the second look after each device leaves no exception.

**WriteSequence.** That at most one action is late (`LateActionsBounded`) rests
on three facts that must be carried together: one call is in the slot; a grant
identity is used once and only grows (`GrantsOK`); and an identity under which
a late action went out has ended, so that no verified call holds it any more
(`SpentOK`). `BlindOK` is the same for the screen, where the count starts again
when the screen is unlocked. `LeftOK` says that a call that may send has an
action left. `OnlyFinishedHold` adds `HeldOK`: who holds something in a process
is the call inside the slot there, or a call that finished.

**HeldInput.** In the middle of a command something is down that is not noted;
in the middle of a release something is noted that is about to be forgotten.
`Accounted` therefore speaks of what will be noted once the release is over
(`Remains`) and of what the command has in hand (`InHand`). `KeptCovers` says
that between looking and lifting nothing new becomes held, which gives
`TapsSpareHeld`, and `NoCountdownInRelease` keeps `_timer` valid.

**The helper's device, the pointer, the provider.** `DeviceInv` ties the
device's two counts to what is down, by who holds its mutex. `PointerInv` says
for a backend at rest that its note, the file and the cursor agree or something
else moved it, and for one on its way which of the three are ahead. The
provider's theorems need the most: every thread is where its helper and request
say (`ThreadsOK`, `HelpersOK`), a live request is that of the thread that waits
for it and there is one per thread (`QueuesOK`), the writer and the presses in
the queue of the current helper carry the grant it serves (`UnderTheGrant`), and
while the flag is off the current helper has no press in its queue
(`MarkedOK`). From these follow `HeldIsMarked` and `NoStrayHelper`, and
`PressesUnderGrant`: a press that was given up is still in a queue, but of a
helper that is no longer the current one, or under the grant that is open.

**Files.** `ReaderInv`: a cursor names a content that the file had, and the pages
read so far agree with it, apart from the page that was read last; so `PagesAgree`
holds for every reader whose file did not return to a content it had before
(`again`). `UploadInv`, under the assumption of one uploader (`OneUploader`,
without which it is false, see above): at most one call is inside a chunk, the
inode it has open is the staging file, what it compared is what is staged, and
from the comparison on it is whole. `EditInv` has, for a call between its look and
its replacement, that what it is going to write contains all the file held at the
look (`CallOK`), and that an inode nobody names is not written to. It does not use
that there is one uploader, so `NothingUnseenIsDropped` holds for several.
`LinkInv`: a transfer that runs has a link that is busy and no other transfer has
(`UseOK`), and what it does fits the link's direction (`StepsOK`). The limit is
about known links only: the sweep may lower their number, and `Add` counts first.
`SettingsInv` turns around one history variable: as long as a saver is alone, the
text it began with is what `config.toml` still is. With that, what is set and what
is not can be compared with the file at the rename; and unless two had it open, or
one renamed it under another (`torn`), a file has one writer and its text is the
writer's. `ShotInv`: a file on the disk is of one capture, which has noted it
while it publishes or takes back (`FileOwned`), and what it noted is on the disk,
in order (`NotedOK`); a capture that succeeded has all its files until they age
(`WholeOK`), a record has its picture unless it is being withdrawn (`PictureOK`),
and two captures that drew one id overlapped (`MetOK`).

**Auth.** `CodesOK` and `GuessesOK` count codes, lockouts and wrong guesses in
the places where a handler is. `RowsOK` says that a row in the database was made
for a client that was there. `RevokedOK`: a client that is revoked inside its
exchange is remembered, and mints once. `SlotsOK` counts the pairs of an
approval that still work, and the one that is being minted; a death inside a
refresh raises the limit by one.

**Browser.** `BrowserInv`: one keeper at most has the profile, and a browser that
lives has a tab (`OneBrowser`); as long as no two launches overlapped, one keeper
at most is between its launch and its end, and the path and the record are its
own from when it wrote them (`OneKeeper`); a call knows a browser that was up,
with the document it acts on or a tab more than the one it closes, unless
another call crossed it (`Knows`). `HandoffInv`: whoever is going to write back
what it read of the record read what is there still, or is of the excepted kind
(`CopiesOK`, `CallsOK`), the notification a record names is its own (`OwnNotes`),
and an agent that is in saw no hand-over that is still out (`KeepsOut`).

**Supervisors.** `KeepAwake`'s invariant is its own. `ShareInv`: a share that is
on has a timer, or a call that is on its way to end or rearm it. `FrameInv`: a
grant of this process is the one a call is opening, or its frame is the
owner's.

**The helper's share and its frames.** `SessionInv`: the request that is inside
`open`, and no other, has the mutex. An open session after the grant was found
gone then has a closer on its way, or is being made by a request that will look
again, or was missed (`RevokedOK`). For the screen, `SignalsOK` says that the last signal
that was not read is how the screen is, and `LockedOK` is the same as
`RevokedOK` for a lock that was seen. `LateOK` carries the look after a frame
was composed to its answer. `StreamInv`: a command that the worker waits for is
the last in the queue, and its reply is not there yet (`HeardOK`); what the loop
has in its stream and in its queue, and every frame in the channel, is of the
screen that is asked for, unless the loop lagged when the capture began
(`AllAsked`); and a stream that is left has its detach in the queue
(`ReleasedOK`).

**Desk.** `TextInv` says, for each place the user can have copied at last
(before the call, between saving and putting, later), what the clipboard and the
saved content are at each place of the call. `BatchInv`: what was sent is the
list up to the current action (`SentOK`); the number of clicks in a row that
ends at that action is at most the one the code counts (`RowsOK`), so the limit of the
counter is one of the row; a click that drifted is where the code is about to
stop (`DriftOK`); and between the look and the key the focus is the start, or
the user switched since (`LookedOK`), which gives `KeysStay`. `FrontInv`: a
target in front has a window, nothing was started and no key sent before the
application is looked for, and once `super` went out the search is open unless
it was open before or the user meddled.

**The pipe to the helper.** `PipeInv` has the properties themselves and what
they rest on. Who starts, initializes, stops or closes a helper has the
lifecycle lock and knows whether there is a child (`LockOK`, `ChildOK`); a
thread of a child exists only once that child was started (`FreshOK`). A
request of a generation is at one place of that generation's pipe: in its queue
once, in the writer's hand, or with the child (`QueueOK`, `PipeOK`). A request
can be given up only while it is pending, and the writer's look at `_pending`
comes when it takes the frame, so what left the queue is not counted as given
up in it. Two callers never wait for one request (`WaitOK`), and what a
reader or writer took out of `_pending` stays its own until it woke the callers
(`KnownOK`, `LossOK`), so a second wait is owed; what `close()` took out is owed by
whoever closes, who has the lifecycle lock until it woke them (`CanceledOK`,
`RecalledStays`). `RoomOK` is about the
model's bound on ids only: every caller keeps room for the requests it may
still make.

**The daemon's books.** The calls in flight are a set of pairs, so that a
request adds one and an answer removes one (`OneCallMore`, `OneCallLess`). The
count in `inflight` covers them (`Covered`) because an id that is counted has a
call (`CountedRuns`): taking it off never goes below the calls that are left.
Until an id is used twice each counted id has one call (`OneEach`), and the count
is exact.
A check that went on past the count therefore found no local call. For a job,
`SeenOK` says that whoever reported the end has seen the exit file or that the
wrapper is gone, and both are for good; `SinceOK` carries that to a viewer who
began later and is between its looks; `ExitOK` and `StartOK` tie the two files
to how far `start()` and the wrapper are.

**The relay.** The proof takes `MCRelay` beside `MCDaemon`, and the assumption
that no client uses an id of the relay's own. The invariant `RelayInv` follows one
message. A request other than `initialize` has one token: it is with the client
(`Fresh`), or at one server in one of three stages, sent, worked on and answered
(`Seen`, `OneStage`, `TokenOK`). So a server that begins it is the first (`runs`),
and an answer that is copied finds no earlier one, at most the error of a
reconnect (`AnsweredOK`); an answer to a replay finds its id in `swallow`. For the
order of the handshake, `Latest` says that only the server connected to last can
be sent to, and that the client thread cannot be sending to it while the handshake
is replayed. `SessionOK` then says that its session, with the lines it has not
read, is as far as the lines noted for the replay, unless the client thread still
has that very line for it (`Brings`). A request in the client thread's hand means
that the notification was noted before (`OrderOK`), so the server it is sent to
has been initialized, or will be by a line that stands before it in the queue.

### What stays with TLC

Liveness (`EveryCallEnds`, `DeviceLetsGo`, `EveryRequestAnswered`, `DaemonSettles`,
`InhibitorFollowsJobs`, `GrantHoldersEnd`) needs fairness and `ENABLED`, which
the prover does not have. Facts about what a recursive or folded definition
computes need induction over data.

Every safety property of a passing run has a theorem. `FilesStayIntact` has
`OneUploader` as its hypothesis, as the run has. TLC checks the violations, and
that the properties can fail at all (the mutants).

## 5. Limits

- The grant is atomic in `WriteSequence` and its clock is the action `Expire`;
  the composition with `Lease` is by the proved refinement, not by a joint run.
- `WriteSequence` bounds what the Python side lets through. That the native helper
  checks the grant again by itself (`NativeGuard`) can only stop more, and is not
  composed with it.
- The activity guard, rates and focus are refusals without a cause.
- What a kernel does with keys that are down when a device is destroyed is
  left out, as the code leaves it open.
- What was handed to the HTTP server counts as transferred.
- When the new server dies during the replay, the relay exits; the property
  about requests counts that as an end.

## 6. Plan

1. Composition: the daemon as the server of the relay; the frame owner with the
   operations of `Lease` instead of an atomic grant.
2. What has no model: the handlers of `tools.py` that keep state of their own
   (the heartbeat of `computer_task`), setup, update and uninstallation, the
   wizard that connects clients, accessibility and OCR helpers, models.
