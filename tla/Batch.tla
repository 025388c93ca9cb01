------------------------------- MODULE Batch -------------------------------
(***************************************************************************)
(* The runner of computer_batch and pcb-do (pcbridge/desktop/batch.py,     *)
(* ops.py): a list of desktop actions is sent one by one, and the rest is  *)
(* held back when the time is up, an action fails, a click is repeated,    *)
(* the safety gate refuses or the keyboard focus is not where it should    *)
(* be.  The user works on the same desktop and may switch the window at    *)
(* any moment; the focus may be unreadable at any moment.                  *)
(*                                                                         *)
(* Kinds of actions: "super" toggles the overview, "dismiss" stands for    *)
(* Escape and Return, "type" for any other keyboard action, "hold" leaves  *)
(* a key down, "click" and "double_click" are two targets, "launch" stands *)
(* for launch and focus, "wait" touches no device.                         *)
(***************************************************************************)
EXTENDS Naturals, Sequences, FiniteSets

CONSTANTS Windows,
          Nowhere,         \* no window has the focus, or none is meant
          MaxLength,       \* of a list
          RepeatLimit,     \* repeat_click_limit
          MaxSwitches      \* of the user

Kinds == {"super", "dismiss", "type", "hold", "click", "double_click", "wait", "launch"}
Clicks == {"click", "double_click"}                        \* POINTER_ACTIONS and CLICK_ACTIONS
Keyboard == {"super", "dismiss", "type", "hold"}     \* KEYBOARD_ACTIONS

BatchAssumption == Nowhere \notin Windows /\ MaxLength \in Nat \ {0} /\ RepeatLimit \in Nat \ {0}
                   /\ MaxSwitches \in Nat

VARIABLES
    plan, expect, tracking,            \* the call: actions, expect_focus, batch_check_focus
    focus, overview, held,             \* the desktop
    phase,                             \* of run()
    i,                                 \* index of the next action
    start, known, check, autoRaw,      \* focus_start, focus_known, check_focus, auto_raw
    repeatOf, repeats,                 \* repeat_key, repeat_run
    stopped,
    sent,                              \* history: actions handed to the devices
    switches,                          \* of the user so far
    unseen,                            \* history: the user switched between the look and the key
    astray,                            \* history: a key went to a window that was not the start
    drifted                            \* history: an own click moved the focus where nobody meant

call == <<plan, expect, tracking>>
vars == <<plan, expect, tracking, focus, overview, held, phase, i, start, known, check, autoRaw,
          repeatOf, repeats, stopped, sent, switches, unseen, astray, drifted>>

Plans == UNION {[1..n -> Kinds] : n \in 1..MaxLength}

Init ==
    /\ plan \in Plans /\ expect \in Windows \cup {Nowhere} /\ tracking \in BOOLEAN
    /\ focus \in Windows \cup {Nowhere} /\ overview = FALSE /\ held = FALSE
    /\ phase = "plan" /\ i = 1
    /\ start = Nowhere /\ known = TRUE /\ check = tracking /\ autoRaw = FALSE
    /\ repeatOf = Nowhere /\ repeats = 0 /\ stopped = "no" /\ sent = <<>>
    /\ switches = 0 /\ unseen = FALSE /\ astray = FALSE /\ drifted = FALSE

Act == plan[i]
InPlan(K) == \E n \in DOMAIN plan : plan[n] \in K
Readable == focus \in Windows /\ ~overview          \* ops.focused(): the overview has no window

Stop(why) == stopped' = why /\ phase' = "finish"
-----------------------------------------------------------------------------
(* The plan does not fit the budget: held keys of an earlier call stay.    *)
RefusePlan ==
    /\ phase = "plan"
    /\ stopped' = "budget" /\ phase' = "done"
    /\ UNCHANGED <<call, focus, overview, held, i, start, known, check, autoRaw, repeatOf, repeats,
                   sent, switches, unseen, astray, drifted>>

ReadBaseline ==
    /\ phase = "plan" /\ (check => Readable)
    /\ start' = IF check THEN focus ELSE start
    /\ phase' = "top"
    /\ UNCHANGED <<call, focus, overview, held, i, known, check, autoRaw, repeatOf, repeats,
                   stopped, sent, switches, unseen, astray, drifted>>

NoBaseline ==
    /\ phase = "plan" /\ check
    /\ known' = FALSE
    /\ IF InPlan(Clicks) THEN Stop("focus") /\ UNCHANGED check
                         ELSE check' = FALSE /\ phase' = "top" /\ UNCHANGED stopped
    /\ UNCHANGED <<call, focus, overview, held, i, start, autoRaw, repeatOf, repeats,
                   sent, switches, unseen, astray, drifted>>
-----------------------------------------------------------------------------
(* The top of the loop, in the order of its checks.                        *)
OutOfTime ==
    /\ phase = "top" /\ i <= Len(plan)
    /\ Stop("budget")
    /\ UNCHANGED <<call, focus, overview, held, i, start, known, check, autoRaw, repeatOf, repeats,
                   sent, switches, unseen, astray, drifted>>

AllSent ==
    /\ phase = "top" /\ i > Len(plan)
    /\ phase' = "finish"
    /\ UNCHANGED <<call, focus, overview, held, i, start, known, check, autoRaw, repeatOf, repeats,
                   stopped, sent, switches, unseen, astray, drifted>>

(* One more click on the target of the last one; a wait does not end the   *)
(* row, any other action does.                                             *)
CountRepeats ==
    CASE Act \in Clicks -> /\ repeats' = IF repeatOf = Act THEN repeats + 1 ELSE 1
                           /\ repeatOf' = Act
      [] Act = "wait" -> UNCHANGED <<repeatOf, repeats>>
      [] OTHER -> repeatOf' = Nowhere /\ repeats' = 0

Consider ==
    /\ phase = "top" /\ i <= Len(plan)
    /\ CountRepeats
    /\ CASE Act \in Clicks /\ repeats' >= RepeatLimit -> Stop("repeat")
         [] Act \in Clicks /\ check /\ ~known -> Stop("focus")
         [] OTHER -> \/ Stop("safety")                                \* before_action raised
                     \/ phase' = "look" /\ UNCHANGED stopped
    /\ UNCHANGED <<call, focus, overview, held, i, start, known, check, autoRaw, sent, switches,
                   unseen, astray, drifted>>

(* Faulty variant: an unknown start is not looked into.                    *)
LooksUnlessUnknown == check /\ Act \in Keyboard /\ ~autoRaw /\ known

(* Before a key: the focus is read after the wait for a rate slot.         *)
Looks == check /\ Act \in Keyboard /\ ~autoRaw

Look ==
    /\ phase = "look" /\ unseen' = FALSE
    /\ \/ ~Looks /\ phase' = "send" /\ UNCHANGED stopped
       \/ Looks /\ known /\ Readable /\ focus = start /\ phase' = "send" /\ UNCHANGED stopped
       \/ Looks /\ Stop("focus")                                      \* elsewhere, unknown or unreadable
    /\ UNCHANGED <<call, focus, overview, held, i, start, known, check, autoRaw, repeatOf, repeats,
                   sent, switches, astray, drifted>>
-----------------------------------------------------------------------------
(* _dispatch.                                                              *)
Wandered == Act \in Keyboard \ {"super"} /\ check /\ ~overview /\ focus # start

(* What it does to the desktop.                                            *)
Effect ==
    CASE Act = "super" -> overview' = ~overview /\ UNCHANGED <<focus, held>>
      [] Act = "dismiss" -> /\ overview' \in {overview, FALSE}
                            /\ focus' \in {focus} \cup (IF overview /\ ~overview' THEN Windows ELSE {})
                            /\ UNCHANGED held
      [] Act = "hold" -> held' = TRUE /\ UNCHANGED <<focus, overview>>
      [] Act \in Clicks \cup {"launch"} -> /\ overview' \in {overview, FALSE}
                                           /\ focus' \in Windows \cup {focus}
                                           /\ UNCHANGED held
      [] OTHER -> UNCHANGED <<focus, overview, held>>

Send ==
    /\ phase = "send"
    /\ Effect
    /\ sent' = Append(sent, i)
    /\ astray' = (astray \/ (Wandered /\ ~unseen))
    /\ autoRaw' = CASE Act = "super" -> TRUE [] Act = "dismiss" -> FALSE [] OTHER -> autoRaw
    /\ drifted' = (drifted \/ (check /\ Act \in Clicks /\ focus' \notin {start, expect}))
    /\ phase' = "after"
    /\ UNCHANGED <<call, i, start, known, check, repeatOf, repeats, stopped, switches, unseen>>

(* The action fails, perhaps half done; it does not count as not done.     *)
Fail ==
    /\ phase = "send"
    /\ Effect \/ UNCHANGED <<focus, overview, held>>
    /\ sent' = Append(sent, i) /\ i' = i + 1
    /\ astray' = (astray \/ (Wandered /\ ~unseen))
    /\ Stop("error")
    /\ UNCHANGED <<call, start, known, check, autoRaw, repeatOf, repeats, switches, unseen, drifted>>

(* BudgetExceeded: the step itself sees that it will not fit, and it is    *)
(* taken to have done nothing.  It may have started the program by then    *)
(* (Fronting: RefusedDidNothing).                                          *)
TooLate ==
    /\ phase = "send" /\ Act = "launch"
    /\ \/ UNCHANGED <<focus, overview, held, sent>>
       \/ Effect /\ sent' = Append(sent, i)
    /\ Stop("budget")
    /\ UNCHANGED <<call, i, start, known, check, autoRaw, repeatOf, repeats,
                   switches, unseen, astray, drifted>>
-----------------------------------------------------------------------------
(* After an action that may move the focus, the focus is read.             *)
NewBaseline ==
    /\ phase = "after" /\ check /\ Act = "launch"
    /\ \/ Readable /\ start' = focus /\ known' = TRUE
       \/ known' = FALSE /\ UNCHANGED start
    /\ phase' = "top" /\ i' = i + 1
    /\ UNCHANGED <<call, focus, overview, held, check, autoRaw, repeatOf, repeats,
                   stopped, sent, switches, unseen, astray, drifted>>

(* Faulty variant: the click is reported as not done.                      *)
DriftedAtClick ==
    /\ focus # start /\ focus # expect
    /\ Stop("focus") /\ UNCHANGED <<start, i>>

Drifted ==
    /\ focus # start /\ focus # expect
    /\ Stop("focus") /\ i' = i + 1 /\ UNCHANGED start

LookAfterClick ==
    /\ phase = "after" /\ check /\ Act \in Clicks
    /\ \/ /\ Readable /\ UNCHANGED known
          /\ \/ Drifted
             \/ /\ focus \in {start, expect}
                /\ start' = focus /\ i' = i + 1 /\ phase' = "top" /\ UNCHANGED stopped
       \/ /\ known' = FALSE /\ i' = i + 1 /\ UNCHANGED start
          /\ IF i < Len(plan) THEN Stop("focus") ELSE phase' = "top" /\ UNCHANGED stopped
    /\ UNCHANGED <<call, focus, overview, held, check, autoRaw, repeatOf, repeats,
                   sent, switches, unseen, astray, drifted>>

GoOn ==
    /\ phase = "after" /\ (check => Act \notin Clicks \cup {"launch"})
    /\ phase' = "top" /\ i' = i + 1
    /\ UNCHANGED <<call, focus, overview, held, start, known, check, autoRaw, repeatOf, repeats,
                   stopped, sent, switches, unseen, astray, drifted>>

(* A list that stopped early lets go of what is held.                      *)
Finish ==
    /\ phase = "finish" /\ phase' = "done"
    /\ held' = (held /\ stopped = "no")
    /\ UNCHANGED <<call, focus, overview, i, start, known, check, autoRaw, repeatOf, repeats,
                   stopped, sent, switches, unseen, astray, drifted>>
-----------------------------------------------------------------------------
UserSwitches ==
    /\ switches < MaxSwitches /\ phase \notin {"finish", "done"}
    /\ switches' = switches + 1
    /\ focus' \in Windows \cup {Nowhere} /\ overview' \in BOOLEAN
    /\ unseen' = (phase = "send") /\ drifted' = FALSE
    /\ UNCHANGED <<call, held, phase, i, start, known, check, autoRaw, repeatOf, repeats,
                   stopped, sent, astray>>

Next ==
    \/ RefusePlan \/ ReadBaseline \/ NoBaseline
    \/ OutOfTime \/ AllSent \/ Consider \/ Look
    \/ Send \/ Fail \/ TooLate
    \/ NewBaseline \/ LookAfterClick \/ GoOn \/ Finish
    \/ UserSwitches

Spec == Init /\ [][Next]_vars
-----------------------------------------------------------------------------
TypeOK ==
    /\ plan \in Plans /\ expect \in Windows \cup {Nowhere}
    /\ {tracking, overview, held, known, check, autoRaw, unseen, astray, drifted} \subseteq BOOLEAN
    /\ focus \in Windows \cup {Nowhere} /\ start \in Windows \cup {Nowhere}
    /\ phase \in {"plan", "top", "look", "send", "after", "finish", "done"}
    /\ i \in 1..Len(plan) + 1 /\ repeats \in 0..MaxLength /\ repeatOf \in Clicks \cup {Nowhere}
    /\ stopped \in {"no", "budget", "error", "focus", "repeat", "safety"}
    /\ switches \in 0..MaxSwitches

(* The launch that was refused for the time had started the program.       *)
LaunchedLate == stopped = "budget" /\ i \in DOMAIN plan /\ Act = "launch" /\ sent = [n \in 1..i |-> n]

(* What comes back as not done was not sent, and what does not come back   *)
(* was sent once, in order (batch.py: Result.remaining, the i += 1 of some *)
(* breaks and not of others).  The exception is a launch that was refused  *)
(* for the time after it had started the program.                          *)
RestIsUnsent == phase = "done" => sent = [n \in 1..i - 1 |-> n] \/ LaunchedLate

(* Once an own click took the focus where nobody meant it to go, not even  *)
(* a wait follows.                                                         *)
NothingAfterDrift == drifted => phase \in {"after", "finish", "done"} \/ i > Len(plan)

(* Clicks on a target up to the n-th action, nothing but waits between.    *)
Row(k, n) == {a \in 1..n : plan[a] = k /\ \A b \in a..n : plan[b] \in {k, "wait"}}

(* RepeatLimit clicks on one target with nothing but waits between them    *)
(* are never sent (desktop-rules.md, item 6).                              *)
NoHammering == \A n \in DOMAIN sent : \A k \in Clicks : Cardinality(Row(k, sent[n])) < RepeatLimit

(* A list that stops early leaves nothing held by it.                      *)
StopsReleased == phase = "done" /\ stopped # "no" => ~held \/ sent = <<>>

BatchAccounted == TypeOK /\ RestIsUnsent /\ NothingAfterDrift /\ NoHammering /\ StopsReleased

(* "If focus changes during a wait or shared rate pause, the next key is   *)
(* withheld", but for the overview, which has no window                    *)
(* (docs/dev/desktop-rules.md:81-84): with tracking on, a key that goes to *)
(* another window than the start got there by a switch after the place     *)
(* where the code looks.                                                   *)
KeysStayHome == ~astray

(* The code looks only while it believes the overview closed.              *)
KeysStayHomeUnlessRaw == [][astray' /\ ~astray => autoRaw]_vars
=============================================================================
