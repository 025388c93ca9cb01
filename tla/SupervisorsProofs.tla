-------------------------- MODULE SupervisorsProofs --------------------------
(***************************************************************************)
(* Proofs about what is held for as long as it is wanted: the inhibitor,   *)
(* the screen share and the frame of a grant, and in the native helper the *)
(* session of the compositor and the stream of one capture.                *)
(***************************************************************************)
EXTENDS MCSupervisors, SequenceTheorems, TLAPS

LEMMA Assumed == K!KeepAwakeAssumption /\ S!ShareAssumption /\ F!FrameOwnerAssumption
  BY PartsAssumption
-----------------------------------------------------------------------------
(* The inhibitor.                                                          *)
LEMMA AwakeStarts == K!Init => K!TypeOK
  <1> SUFFICES ASSUME K!Init
               PROVE  K!TypeOK
    OBVIOUS
  <1> USE Assumed DEF K!KeepAwakeAssumption
  <1>1. jobs \in BOOLEAN /\ enabled \in BOOLEAN /\ seen \in BOOLEAN /\ confirmed \in BOOLEAN /\ aged \in BOOLEAN /\ due \in BOOLEAN
    BY Zenon DEF K!Init
  <1>2. deaths \in 0..MaxDeaths
    BY DEF K!Init
  <1>3. installed \cup honored \cup skip \subseteq K!MethodSet /\ misread \subseteq skip \cap honored
    BY DEF K!Init
  <1>4. poll = "sleep" /\ proc = "none" /\ method = NoMethod
    BY DEF K!Init
  <1> QED
    BY <1>1, <1>2, <1>3, <1>4 DEF K!TypeOK

(* A method that is taken is one that is installed.                        *)
LEMMA AcquireTypes ==
  ASSUME K!TypeOK, NEW m, K!Acquire(m)
  PROVE  /\ confirmed' \in BOOLEAN /\ aged' \in BOOLEAN /\ due' \in BOOLEAN
         /\ proc' \in {"none", "up", "exited"}
         /\ method' \in K!MethodSet \cup {NoMethod} /\ (method' = NoMethod <=> proc' = "none")
  <1> USE Assumed DEF K!KeepAwakeAssumption, K!TypeOK, K!Acquire, K!NoProc
  <1> QED
    OBVIOUS

LEMMA AwakeTypes ==
  ASSUME K!TypeOK, [K!Next]_kvars
  PROVE  K!TypeOK'
  <1> USE Assumed DEF K!KeepAwakeAssumption
  <1>1. CASE K!Count
    BY <1>1 DEF K!Count, K!TypeOK, K!wishvars, K!skipvars, K!procvars
  <1>2. CASE K!Release
    BY <1>2 DEF K!Release, K!TypeOK, K!NoProc, K!Polled, K!wishvars, K!skipvars
  <1>3. CASE K!Keep
    BY <1>3 DEF K!Keep, K!TypeOK, K!Polled, K!wishvars, K!skipvars
  <1>4. CASE K!Take
    <2>1. K!Acquire(K!Chosen(skip)) /\ UNCHANGED <<jobs, enabled, installed, honored, seen, deaths, skip, misread>> /\ poll' = "sleep"
      BY <1>4 DEF K!Take, K!Polled, K!wishvars, K!skipvars
    <2> QED
      BY <2>1, AcquireTypes DEF K!TypeOK
  <1>5. CASE K!WaitForRetry
    BY <1>5 DEF K!WaitForRetry, K!TypeOK, K!Polled, K!wishvars, K!skipvars, K!procvars
  <1>6. CASE K!Switch
    <2>1. /\ K!Acquire(K!Chosen(skip')) /\ UNCHANGED <<jobs, enabled, installed, honored, seen, deaths>>
          /\ poll' = "sleep" /\ skip' = skip \cup {method} /\ misread' = misread \cup ({method} \cap honored)
          /\ method \in Unconfirmed
      BY <1>6 DEF K!Switch, K!Polled, K!wishvars, K!skipvars
    <2> QED
      BY <2>1, AcquireTypes DEF K!TypeOK
  <1>7. CASE K!NoteExit
    BY <1>7 DEF K!NoteExit, K!TypeOK, K!NoProc, K!Polled, K!wishvars, K!skipvars
  <1>8. CASE K!TimePasses
    BY <1>8 DEF K!TimePasses, K!TypeOK, K!wishvars, K!skipvars
  <1>9. CASE K!InhibitorDies
    BY <1>9 DEF K!InhibitorDies, K!TypeOK, K!wishvars, K!skipvars
  <1>10. CASE K!JobsChange
    BY <1>10 DEF K!JobsChange, K!TypeOK, K!procvars, K!skipvars
  <1>11. CASE K!Configure
    BY <1>11 DEF K!Configure, K!TypeOK, K!procvars, K!skipvars
  <1>12. CASE K!DaemonRestarts
    <2>1. deaths' \in 0..MaxDeaths
      BY <1>12 DEF K!DaemonRestarts, K!TypeOK
    <2>2. /\ poll' = "sleep" /\ seen' = FALSE /\ skip' = {} /\ misread' = {} /\ due' = TRUE
          /\ proc' = "none" /\ method' = NoMethod /\ confirmed' = FALSE /\ aged' = FALSE
          /\ UNCHANGED <<jobs, enabled, installed, honored>>
      BY <1>12 DEF K!DaemonRestarts, K!NoProc, K!wishvars, K!skipvars
    <2>3. {jobs, enabled, seen, confirmed, aged, due}' \subseteq BOOLEAN
      BY <2>2 DEF K!TypeOK
    <2> QED
      BY <2>1, <2>2, <2>3 DEF K!TypeOK
  <1>13. CASE UNCHANGED kvars
    BY <1>13 DEF kvars, K!TypeOK
  <1> QED
    BY <1>1, <1>2, <1>3, <1>4, <1>5, <1>6, <1>7, <1>8, <1>9, <1>10, <1>11, <1>12, <1>13, Zenon DEF K!Next, K!Update
-----------------------------------------------------------------------------
(* The share.  A call that starts it holds the handle's lock, so that only *)
(* one does.                                                               *)
ShareInv == S!TypeOK /\ S!ShareIsWatched

LEMMA ShareStarts == S!Init => ShareInv
  <1> USE Assumed DEF S!ShareAssumption
  <1> QED
    BY DEF S!Init, ShareInv, S!TypeOK, S!ShareIsWatched

SharePlaces == {"idle", "start", "starting", "refresh", "release", "close", "kill", "early",
                "stop", "end", "check", "sequence", "checked"}

(* A call goes to its next step; whoever starts the share stays there.     *)
LEMMA ShareGoes ==
  ASSUME S!TypeOK, NEW c \in Callers, NEW l \in SharePlaces, spc' = [spc EXCEPT ![c] = l]
  PROVE  /\ spc' \in [Callers -> SharePlaces] /\ spc'[c] = l
         /\ \A d \in Callers : d # c => spc'[d] = spc[d]
  BY DEF S!TypeOK, SharePlaces

ShareData ==
    /\ left \in {"off", "last", "long"} /\ {ceiling, share, open, bare} \subseteq BOOLEAN
    /\ timer \in {"none", "armed", "fired"} /\ fired \in {"idle", "look", "rearm", "stop", "close"}
    /\ cli \in {"idle", "kill"}

(* What a step of a call does to the part of the invariant about calls.    *)
LEMMA ShareStep ==
  ASSUME ShareInv, NEW c \in Callers, NEW l \in SharePlaces, spc' = [spc EXCEPT ![c] = l],
         slock' = slock \/ slock' = NoCaller \/ (slock' = c /\ l = "starting"),
         spc[c] = "starting" => slock' = NoCaller,
         ShareData',
         \/ ~open' \/ timer' = "armed" \/ bare' \/ fired' # "idle"
         \/ l \in {"refresh", "close", "kill", "end"}
         \/ open /\ UNCHANGED <<timer, fired, bare>> /\ spc[c] \notin {"refresh", "close", "kill", "end"}
  PROVE  ShareInv'
  <1> USE Assumed DEF S!ShareAssumption
  <1>1. spc' \in [Callers -> SharePlaces] /\ spc'[c] = l /\ \A d \in Callers : d # c => spc'[d] = spc[d]
    BY ShareGoes DEF ShareInv
  <1>2. slock' \in Callers \cup {NoCaller} /\ (slock' # NoCaller => spc'[slock'] = "starting")
    BY <1>1 DEF ShareInv, S!TypeOK
  <1>3. S!TypeOK'
    BY <1>1, <1>2 DEF S!TypeOK, SharePlaces, ShareData
  <1>4. S!ShareIsWatched'
    BY <1>1 DEF ShareInv, S!ShareIsWatched
  <1> QED
    BY <1>3, <1>4 DEF ShareInv

(* A step of nobody's call.                                                *)
LEMMA ShareElse ==
  ASSUME ShareInv, UNCHANGED <<spc, slock>>,
         ShareData',
         \/ ~open' \/ timer' = "armed" \/ bare' \/ fired' # "idle"
         \/ open /\ UNCHANGED <<timer, fired, bare>>
  PROVE  ShareInv'
  <1>1. S!TypeOK'
    BY DEF ShareInv, S!TypeOK, ShareData
  <1>2. S!ShareIsWatched'
    BY DEF ShareInv, S!ShareIsWatched
  <1> QED
    BY <1>1, <1>2 DEF ShareInv

(* refresh_capture_deadline: a share that is on has a timer, or was found  *)
(* on with the grant over.                                                 *)
LEMMA Rearmed ==
  ASSUME ShareInv, S!Rearm
  PROVE  /\ UNCHANGED <<left, ceiling, share, open, slock>> /\ slock = NoCaller
         /\ timer' \in {"none", "armed", "fired"} /\ bare' \in BOOLEAN
         /\ ~open' \/ timer' = "armed" \/ bare'
  <1>1. /\ UNCHANGED <<left, ceiling, share, open, slock>> /\ slock = NoCaller
        /\ timer' = (IF open /\ S!Unlocked THEN "armed" ELSE "none")
        /\ bare' = (open /\ ~S!Unlocked)
    BY DEF S!Rearm, S!Free, S!leasevars
  <1>2. bare' \in BOOLEAN
    BY <1>1, Zenon
  <1>3. ~open' \/ timer' = "armed" \/ bare'
    BY <1>1
  <1> QED
    BY <1>1, <1>2, <1>3

LEMMA CallShare ==
  ASSUME ShareInv, NEW c \in Callers, S!Grant(c) \/ S!Lock(c) \/ S!Guard(c) \/ S!Call(c)
  PROVE  ShareInv'
  <1> USE DEF S!Goto
  <1> DEFINE In(l) == l \in SharePlaces
  <1>15. /\ In("idle") /\ In("start") /\ In("starting") /\ In("refresh") /\ In("release") /\ In("close") /\ In("kill")
         /\ In("early") /\ In("stop") /\ In("end") /\ In("check") /\ In("sequence") /\ In("checked")
    BY DEF SharePlaces
  <1>0. ShareData
    BY DEF ShareInv, S!TypeOK, ShareData
  <1>1. CASE S!Grant(c)
    <2>1. /\ spc[c] = "idle" /\ UNCHANGED <<share, open, slock, timer, fired, cli, bare>>
          /\ left' = "long" /\ ceiling' = FALSE
      BY <1>1 DEF S!Grant
    <2>2. spc' = [spc EXCEPT ![c] = "start"]
      BY <1>1 DEF S!Grant
    <2>3. In("start")
      BY <1>15
    <2>4. ShareData'
      BY <1>0, <2>1 DEF ShareData
    <2> QED
      BY <2>1, <2>2, <2>3, <2>4, ShareStep
  <1>2. CASE S!Lock(c)
    <2>1. /\ spc[c] = "idle" /\ UNCHANGED <<ceiling, share, open, slock, timer, fired, cli, bare>>
          /\ left' = "off"
      BY <1>2 DEF S!Lock
    <2>2. spc' = [spc EXCEPT ![c] = "release"]
      BY <1>2 DEF S!Lock
    <2>3. In("release")
      BY <1>15
    <2>4. ShareData'
      BY <1>0, <2>1 DEF ShareData
    <2> QED
      BY <2>1, <2>2, <2>3, <2>4, ShareStep
  <1>3. CASE S!Guard(c)
    <2>1. /\ spc[c] = "idle" /\ UNCHANGED <<left, ceiling, share, open, slock, timer, fired, cli, bare>>
      BY <1>3 DEF S!Guard, S!leasevars
    <2>2. \E l \in {"early", "stop"} : spc' = [spc EXCEPT ![c] = l]
      BY <1>3 DEF S!Guard, S!leasevars
    <2>3. PICK l \in {"early", "stop"} : spc' = [spc EXCEPT ![c] = l]
      BY <2>2
    <2>4. ShareData'
      BY <1>0, <2>1 DEF ShareData
    <2>5. In(l)
      BY <1>15, <2>3
    <2> QED
      BY <2>1, <2>3, <2>4, <2>5, ShareStep
  <1>4. CASE S!Start(c) /\ open
    <2>1. /\ spc[c] = "start" /\ UNCHANGED <<left, ceiling, share, open, slock, timer, fired, cli, bare>>
      BY <1>4 DEF S!Start, S!leasevars
    <2>2. spc' = [spc EXCEPT ![c] = "refresh"]
      BY <1>4 DEF S!Start, S!leasevars
    <2>3. In("refresh")
      BY <1>15
    <2>4. ShareData'
      BY <1>0, <2>1 DEF ShareData
    <2> QED
      BY <2>1, <2>2, <2>3, <2>4, ShareStep
  <1>5. CASE S!Start(c) /\ ~open
    <2>1. /\ spc[c] = "start" /\ UNCHANGED <<left, ceiling, open, timer, fired, cli, bare>>
          /\ slock' = c /\ share' = TRUE /\ ~open
      BY <1>5 DEF S!Start, S!leasevars
    <2>2. spc' = [spc EXCEPT ![c] = "starting"]
      BY <1>5 DEF S!Start, S!leasevars
    <2>3. In("starting")
      BY <1>15
    <2>4. ShareData'
      BY <1>0, <2>1 DEF ShareData
    <2> QED
      BY <2>1, <2>2, <2>3, <2>4, ShareStep
  <1>6. CASE S!Started(c)
    <2>1. /\ spc[c] = "starting" /\ slock' = NoCaller /\ UNCHANGED <<left, ceiling, timer, fired, cli, bare>>
          /\ \/ share' = share /\ open' = TRUE /\ spc' = [spc EXCEPT ![c] = "refresh"]
             \/ share' = FALSE /\ open' = FALSE /\ spc' = [spc EXCEPT ![c] = "idle"]
      BY <1>6 DEF S!Started, S!leasevars
    <2>2. ShareData'
      BY <1>0, <2>1 DEF ShareData
    <2>3. CASE share' = share /\ open' = TRUE /\ spc' = [spc EXCEPT ![c] = "refresh"]
      <3>1. In("refresh")
        BY <1>15
      <3> QED
        BY <2>1, <2>2, <2>3, <3>1, ShareStep
    <2>4. CASE share' = FALSE /\ open' = FALSE /\ spc' = [spc EXCEPT ![c] = "idle"]
      <3>1. In("idle")
        BY <1>15
      <3> QED
        BY <2>1, <2>2, <2>4, <3>1, ShareStep
    <2> QED
      BY <2>1, <2>3, <2>4
  <1>7. CASE S!Refresh(c)
    <2>1. S!Rearm /\ spc[c] = "refresh" /\ (spc' = [spc EXCEPT ![c] = "idle"]) /\ UNCHANGED <<fired, cli>>
      BY <1>7 DEF S!Refresh
    <2>2. /\ UNCHANGED <<left, ceiling, share, open, slock>> /\ slock = NoCaller
          /\ timer' \in {"none", "armed", "fired"} /\ bare' \in BOOLEAN
          /\ ~open' \/ timer' = "armed" \/ bare'
      BY <2>1, Rearmed
    <2>3. PICK l \in {"idle"} : spc' = [spc EXCEPT ![c] = l]
      BY <2>1
    <2>4. ShareData'
      BY <1>0, <2>1, <2>2 DEF ShareData
    <2>5. In(l)
      BY <1>15, <2>3
    <2> QED
      BY <2>1, <2>2, <2>3, <2>4, <2>5, ShareStep
  <1>8. CASE S!GuardRearms(c)
    <2>1. S!Rearm /\ spc[c] = "early" /\ (spc' = [spc EXCEPT ![c] = "check"]) /\ UNCHANGED <<fired, cli>>
      BY <1>8 DEF S!GuardRearms
    <2>2. /\ UNCHANGED <<left, ceiling, share, open, slock>> /\ slock = NoCaller
          /\ timer' \in {"none", "armed", "fired"} /\ bare' \in BOOLEAN
          /\ ~open' \/ timer' = "armed" \/ bare'
      BY <2>1, Rearmed
    <2>3. PICK l \in {"check"} : spc' = [spc EXCEPT ![c] = l]
      BY <2>1
    <2>4. ShareData'
      BY <1>0, <2>1, <2>2 DEF ShareData
    <2>5. In(l)
      BY <1>15, <2>3
    <2> QED
      BY <2>1, <2>2, <2>3, <2>4, <2>5, ShareStep
  <1>9. CASE S!Checked(c)
    <2>1. S!Rearm /\ spc[c] = "checked" /\ (\E l \in {"sequence", "idle"} : spc' = [spc EXCEPT ![c] = l]) /\ UNCHANGED <<fired, cli>>
      BY <1>9 DEF S!Checked
    <2>2. /\ UNCHANGED <<left, ceiling, share, open, slock>> /\ slock = NoCaller
          /\ timer' \in {"none", "armed", "fired"} /\ bare' \in BOOLEAN
          /\ ~open' \/ timer' = "armed" \/ bare'
      BY <2>1, Rearmed
    <2>3. PICK l \in {"sequence", "idle"} : spc' = [spc EXCEPT ![c] = l]
      BY <2>1
    <2>4. ShareData'
      BY <1>0, <2>1, <2>2 DEF ShareData
    <2>5. In(l)
      BY <1>15, <2>3
    <2> QED
      BY <2>1, <2>2, <2>3, <2>4, <2>5, ShareStep
  <1>10. CASE S!Release(c) \/ (spc[c] = "stop" /\ S!Disarm /\ S!Goto(c, "end") /\ UNCHANGED <<fired, cli>>)
    <2>1. /\ spc[c] # "starting" /\ UNCHANGED <<left, ceiling, share, open, slock, fired, cli, bare>>
          /\ timer' = "none"
      BY <1>10 DEF S!Release, S!Disarm, S!leasevars
    <2>2. \E l \in {"close", "end"} : spc' = [spc EXCEPT ![c] = l]
      BY <1>10 DEF S!Release, S!Disarm, S!leasevars
    <2>3. PICK l \in {"close", "end"} : spc' = [spc EXCEPT ![c] = l]
      BY <2>2
    <2>4. ShareData'
      BY <1>0, <2>1 DEF ShareData
    <2>5. In(l)
      BY <1>15, <2>3
    <2> QED
      BY <2>1, <2>3, <2>4, <2>5, ShareStep
  <1>11. CASE S!Close(c) \/ (spc[c] = "end" /\ S!CloseShare /\ S!Goto(c, "check") /\ UNCHANGED <<fired, cli>>)
    <2>1. /\ spc[c] # "starting" /\ UNCHANGED <<left, ceiling, slock, timer, fired, cli>>
          /\ share' = FALSE /\ open' = FALSE /\ bare' = FALSE
      BY <1>11 DEF S!Close, S!CloseShare, S!leasevars
    <2>2. \E l \in {"kill", "check"} : spc' = [spc EXCEPT ![c] = l]
      BY <1>11 DEF S!Close, S!CloseShare, S!leasevars
    <2>3. PICK l \in {"kill", "check"} : spc' = [spc EXCEPT ![c] = l]
      BY <2>2
    <2>4. ShareData'
      BY <1>0, <2>1 DEF ShareData
    <2>5. In(l)
      BY <1>15, <2>3
    <2> QED
      BY <2>1, <2>3, <2>4, <2>5, ShareStep
  <1>12. CASE S!Kill(c)
    <2>1. /\ spc[c] = "kill" /\ UNCHANGED <<left, ceiling, slock, timer, fired, cli>>
          /\ share' = FALSE /\ open' = FALSE /\ bare' = FALSE
      BY <1>12 DEF S!Kill, S!leasevars
    <2>2. spc' = [spc EXCEPT ![c] = "idle"]
      BY <1>12 DEF S!Kill, S!leasevars
    <2>3. In("idle")
      BY <1>15
    <2>4. ShareData'
      BY <1>0, <2>1 DEF ShareData
    <2> QED
      BY <2>1, <2>2, <2>3, <2>4, ShareStep
  <1>13. CASE S!Check(c)
    <2>1. /\ spc[c] \in {"check", "sequence"} /\ UNCHANGED <<ceiling, share, open, slock, timer, fired, cli, bare>>
          /\ left' \in {left, "long"}
      BY <1>13 DEF S!Check
    <2>2. \E l \in {"idle", "checked"} : spc' = [spc EXCEPT ![c] = l]
      BY <1>13 DEF S!Check
    <2>3. PICK l \in {"idle", "checked"} : spc' = [spc EXCEPT ![c] = l]
      BY <2>2
    <2>4. ShareData'
      BY <1>0, <2>1 DEF ShareData
    <2>5. In(l)
      BY <1>15, <2>3
    <2> QED
      BY <2>1, <2>3, <2>4, <2>5, ShareStep
  <1>14. S!GuardStops(c) => \/ spc[c] = "stop" /\ S!Disarm /\ S!Goto(c, "end") /\ UNCHANGED <<fired, cli>>
                            \/ spc[c] = "end" /\ S!CloseShare /\ S!Goto(c, "check") /\ UNCHANGED <<fired, cli>>
    BY Zenon DEF S!GuardStops
  <1> QED
    BY <1>1, <1>2, <1>3, <1>4, <1>5, <1>6, <1>7, <1>8, <1>9, <1>10, <1>11, <1>12, <1>13, <1>14, Zenon DEF S!Call

LEMMA NextShare ==
  ASSUME ShareInv, [S!Next]_svars
  PROVE  ShareInv'
  <1>0. ShareData
    BY DEF ShareInv, S!TypeOK, ShareData
  <1>1. CASE S!Fire
    <2>1. /\ spc' = spc /\ UNCHANGED <<left, ceiling, share, open, slock, cli, bare>>
          /\ timer' = "fired" /\ fired' = "look"
      BY <1>1 DEF S!Fire, S!leasevars
    <2>2. ShareData'
      BY <1>0, <2>1 DEF ShareData
    <2> QED
      BY <2>1, <2>2, ShareElse
  <1>2. CASE S!FiredLook
    <2>1. /\ spc' = spc /\ UNCHANGED <<left, ceiling, share, open, slock, timer, cli, bare>>
          /\ fired' \in {"rearm", "stop"}
      BY <1>2 DEF S!FiredLook, S!leasevars
    <2>2. ShareData'
      BY <1>0, <2>1 DEF ShareData
    <2> QED
      BY <2>1, <2>2, ShareElse
  <1>4. CASE S!FiredStops
    <2>1. /\ spc' = spc /\ UNCHANGED <<left, ceiling, share, open, slock, cli, bare>>
          /\ timer' = "none" /\ fired' = "close"
      BY <1>4 DEF S!FiredStops, S!Disarm, S!leasevars
    <2>2. ShareData'
      BY <1>0, <2>1 DEF ShareData
    <2> QED
      BY <2>1, <2>2, ShareElse
  <1>5. CASE S!FiredCloses
    <2>1. /\ spc' = spc /\ UNCHANGED <<left, ceiling, slock, timer, cli>>
          /\ share' = FALSE /\ open' = FALSE /\ bare' = FALSE /\ fired' = "idle"
      BY <1>5 DEF S!FiredCloses, S!CloseShare, S!leasevars
    <2>2. ShareData'
      BY <1>0, <2>1 DEF ShareData
    <2> QED
      BY <2>1, <2>2, ShareElse
  <1>6. CASE S!Age
    <2>1. /\ spc' = spc /\ UNCHANGED <<share, open, slock, timer, fired, cli, bare>>
          /\ left' \in {"last", "off"} /\ ceiling' \in {ceiling, TRUE}
      BY <1>6 DEF S!Age
    <2>2. ShareData'
      BY <1>0, <2>1 DEF ShareData
    <2> QED
      BY <2>1, <2>2, ShareElse
  <1>7. CASE S!TouchedElsewhere
    <2>1. /\ spc' = spc /\ UNCHANGED <<share, open, slock, timer, fired, cli, bare>>
          /\ left' = "long" /\ ceiling' \in {ceiling, FALSE}
      BY <1>7 DEF S!TouchedElsewhere
    <2>2. ShareData'
      BY <1>0, <2>1 DEF ShareData
    <2> QED
      BY <2>1, <2>2, ShareElse
  <1>9. CASE S!ShareDies
    <2>1. /\ spc' = spc /\ UNCHANGED <<left, ceiling, slock, timer, fired, cli, bare>>
          /\ share' = FALSE /\ open' \in {open, FALSE}
      BY <1>9 DEF S!ShareDies, S!leasevars
    <2>2. ShareData'
      BY <1>0, <2>1 DEF ShareData
    <2>3. CASE open' = open
      BY <2>1, <2>2, <2>3, ShareElse
    <2>4. CASE open' = FALSE
      BY <2>1, <2>2, <2>4, ShareElse
    <2> QED
      BY <2>1, <2>3, <2>4
  <1>10. CASE UNCHANGED svars
    <2>1. /\ spc' = spc /\ UNCHANGED <<left, ceiling, share, open, slock, timer, fired, cli, bare>>
      BY <1>10 DEF svars
    <2>2. ShareData'
      BY <1>0, <2>1 DEF ShareData
    <2> QED
      BY <2>1, <2>2, ShareElse
  <1>3. CASE S!FiredRearms
    <2>1. S!Rearm /\ fired' = "idle" /\ UNCHANGED <<spc, cli>>
      BY <1>3 DEF S!FiredRearms
    <2>2. /\ UNCHANGED <<left, ceiling, share, open, slock>>
          /\ timer' \in {"none", "armed", "fired"} /\ bare' \in BOOLEAN
          /\ ~open' \/ timer' = "armed" \/ bare'
      BY <2>1, Rearmed
    <2>3. ShareData'
      BY <1>0, <2>1, <2>2 DEF ShareData
    <2> QED
      BY <2>1, <2>2, <2>3, ShareElse
  <1>8. CASE S!LockedElsewhere
    <2>1. spc' = spc /\ UNCHANGED <<slock, timer, fired>> /\ cli' \in {"idle", "kill"}
      BY <1>8 DEF S!LockedElsewhere, S!leasevars
    <2>2. \/ left' = "off" /\ UNCHANGED <<ceiling, share, open, bare>>
          \/ share' = FALSE /\ open' = FALSE /\ bare' = FALSE /\ UNCHANGED <<left, ceiling>>
      BY <1>8 DEF S!LockedElsewhere, S!leasevars
    <2>3. ShareData'
      BY <1>0, <2>1, <2>2 DEF ShareData
    <2> QED
      BY <2>1, <2>2, <2>3, ShareElse
  <1> QED
    BY <1>1, <1>2, <1>3, <1>4, <1>5, <1>6, <1>7, <1>8, <1>9, <1>10, CallShare, Zenon DEF S!Next, S!Timer
-----------------------------------------------------------------------------
(* The frame.  Whoever is inside desktop_unlock or desktop_lock holds the  *)
(* frame lock.                                                             *)
FramePlaces == {"idle", "grant", "open", "stop", "reap", "spawn", "await", "decide", "fail", "failstop", "failreap",
                "leave", "enterlock", "close", "closestop", "closereap", "closed"}
Outside == {"idle", "enterlock"}
Opening == {"open", "stop", "reap", "spawn", "await", "decide", "fail"}
Ending == {"failstop", "failreap", "closestop", "closereap", "closed"}

FrameData ==
    /\ lease \in 0..issued /\ issued \in 0..MaxGrants /\ mine \subseteq 1..issued /\ locked \subseteq 1..issued
    /\ child \in [F!Grants -> {"none", "starting", "shown", "exited"}] /\ owned \in 0..issued
    /\ watch \in [F!Grants -> {"none", "run", "retire", "done"}]
    /\ framelock \in Callers \cup {NoCaller} /\ pc \in [Callers -> FramePlaces] /\ token \in [Callers -> 0..issued]
    /\ \A c \in Callers : pc[c] \notin Outside <=> framelock = c

(* A grant of ours is the one under way, or has its frame with the owner.  *)
CallOK(c) ==
    /\ pc[c] \in {"spawn", "closed"} => owned = 0
    /\ pc[c] \in {"await", "decide"} => owned = token[c]
    /\ pc[c] \in Opening => token[c] \in mine \ locked /\ (lease \in mine => lease = token[c])
    /\ pc[c] = "leave" => (lease \in mine => lease = token[c])
    /\ pc[c] \in Ending => lease \notin mine

Within == Opening \cup Ending \cup {"leave"}

RestOK == (\A c \in Callers : pc[c] \notin Within) => (lease \in mine => lease = owned)

FrameInv == FrameData /\ F!FramesAreOwned /\ F!LockEndsGrants /\ (\A c \in Callers : CallOK(c)) /\ RestOK

LEMMA FrameConstants == MaxGrants \in Nat /\ NoCaller \notin Callers /\ F!Grants = 1..MaxGrants
  BY Assumed DEF F!FrameOwnerAssumption, F!Grants

LEMMA FrameStarts == F!Init => FrameInv
  <1> SUFFICES ASSUME F!Init
               PROVE  FrameInv
    OBVIOUS
  <1>1. FrameData
    BY FrameConstants DEF F!Init, FrameData, FramePlaces, Outside
  <1>2. F!FramesAreOwned /\ F!LockEndsGrants
    BY DEF F!Init, F!FramesAreOwned, F!LockEndsGrants, F!Alive
  <1>3. (\A c \in Callers : CallOK(c)) /\ RestOK
    BY DEF F!Init, CallOK, RestOK, Opening, Ending, Within
  <1> QED
    BY <1>1, <1>2, <1>3 DEF FrameInv

(* A step of somebody who is not inside.                                   *)
LEMMA FrameElse ==
  ASSUME FrameInv, FrameData', UNCHANGED <<mine, owned, locked>>, lease' = lease \/ lease' \notin mine,
         \A g \in F!Grants : F!Alive(g)' => F!Alive(g),
         \A c \in Callers : \/ pc'[c] = pc[c] /\ (pc[c] \in Opening \cup {"leave"} => token'[c] = token[c])
                            \/ pc[c] \in Outside /\ pc'[c] \in {"grant", "enterlock"}
  PROVE  FrameInv'
  <1>1. F!FramesAreOwned' /\ F!LockEndsGrants'
    <2>1. \A g \in locked \cap mine : g \in F!Grants
      BY FrameConstants DEF FrameInv, FrameData
    <2> QED
      BY <2>1 DEF FrameInv, F!FramesAreOwned, F!LockEndsGrants
  <1>2. \A c \in Callers : CallOK(c)'
    BY DEF FrameInv, CallOK, Opening, Ending
  <1>3. RestOK'
    <2>1. ASSUME NEW c \in Callers
          PROVE  pc[c] \in Within <=> pc'[c] \in Within
      BY DEF Opening, Ending, Within, Outside
    <2> QED
      BY <2>1 DEF FrameInv, RestOK
  <1> QED
    BY <1>1, <1>2, <1>3 DEF FrameInv

(* A step of the one inside, to its next place or out.                     *)
LEMMA FrameStep ==
  ASSUME FrameInv, NEW c \in Callers, pc[c] \notin Outside, NEW l \in FramePlaces, l # "enterlock",
         pc' = [pc EXCEPT ![c] = l], framelock' = (IF l = "idle" THEN NoCaller ELSE framelock),
         lease' \in 0..issued', issued' \in 0..MaxGrants, mine' \subseteq 1..issued', locked' \subseteq 1..issued',
         child' \in [F!Grants -> {"none", "starting", "shown", "exited"}], owned' \in 0..issued',
         watch' \in [F!Grants -> {"none", "run", "retire", "done"}], token' \in [Callers -> 0..issued'],
         F!FramesAreOwned', F!LockEndsGrants',
         l \in {"spawn", "closed"} => owned' = 0,
         l \in {"await", "decide"} => owned' = token'[c],
         l \in Opening => token'[c] \in mine' \ locked' /\ (lease' \in mine' => lease' = token'[c]),
         l = "leave" => (lease' \in mine' => lease' = token'[c]),
         l \in Ending => lease' \notin mine',
         l \notin Within => (lease' \in mine' => lease' = owned')
  PROVE  FrameInv'
  <1>1. /\ pc' \in [Callers -> FramePlaces] /\ pc'[c] = l
        /\ \A d \in Callers : d # c => pc'[d] = pc[d] /\ pc[d] \in Outside
        /\ framelock = c
    BY DEF FrameInv, FrameData
  <1>2. FrameData'
    BY <1>1, FrameConstants DEF FrameData, Outside
  <1>3. \A d \in Callers : CallOK(d)'
    BY <1>1 DEF CallOK, Opening, Ending, Within, Outside
  <1>4. RestOK'
    BY <1>1 DEF RestOK
  <1> QED
    BY <1>2, <1>3, <1>4 DEF FrameInv

LEMMA FrameFacts ==
  ASSUME FrameInv, NEW c \in Callers
  PROVE  /\ lease \in 0..issued /\ issued \in 0..MaxGrants /\ mine \subseteq 1..issued /\ locked \subseteq 1..issued
         /\ child \in [F!Grants -> {"none", "starting", "shown", "exited"}] /\ owned \in 0..issued
         /\ watch \in [F!Grants -> {"none", "run", "retire", "done"}]
         /\ token \in [Callers -> 0..issued] /\ issued \in Nat /\ 0 \in 0..issued /\ 0 \notin mine
         /\ F!FramesAreOwned /\ F!LockEndsGrants /\ CallOK(c)
         /\ pc[c] \notin Outside => /\ framelock = c /\ \A d \in Callers : d # c => pc[d] \in Outside
                                    /\ pc[c] \notin Within => (lease \in mine => lease = owned)
  <1>1. /\ lease \in 0..issued /\ issued \in 0..MaxGrants /\ mine \subseteq 1..issued /\ locked \subseteq 1..issued
        /\ child \in [F!Grants -> {"none", "starting", "shown", "exited"}] /\ owned \in 0..issued
        /\ watch \in [F!Grants -> {"none", "run", "retire", "done"}]
        /\ token \in [Callers -> 0..issued]
        /\ F!FramesAreOwned /\ F!LockEndsGrants /\ CallOK(c)
    BY DEF FrameInv, FrameData
  <1>2. issued \in Nat /\ 0 \in 0..issued /\ 0 \notin mine
    BY <1>1, FrameConstants
  <1>3. ASSUME pc[c] \notin Outside
        PROVE  framelock = c /\ \A d \in Callers : d # c => pc[d] \in Outside
    BY <1>3 DEF FrameInv, FrameData
  <1>4. ASSUME pc[c] \notin Outside, pc[c] \notin Within
        PROVE  lease \in mine => lease = owned
    <2>1. \A d \in Callers : pc[d] \notin Within
      BY <1>3, <1>4 DEF Outside, Opening, Ending, Within
    <2> QED
      BY <2>1 DEF FrameInv, RestOK
  <1> QED
    BY <1>1, <1>2, <1>3, <1>4

(* Where the frames, the grant and the lock are as before.                 *)
LEMMA FramesStay ==
  ASSUME FrameInv, UNCHANGED <<child, owned, mine, locked>>, lease' = lease \/ lease' \notin mine
  PROVE  F!FramesAreOwned' /\ F!LockEndsGrants'
  BY DEF FrameInv, F!FramesAreOwned, F!LockEndsGrants, F!Alive

(* Whoever takes the lock finds nobody inside.                             *)
LEMMA EnterFrame ==
  ASSUME FrameInv, NEW c \in Callers, pc[c] \in Outside, framelock = NoCaller, framelock' = c,
         NEW l \in {"grant", "close"}, pc' = [pc EXCEPT ![c] = l],
         UNCHANGED <<lease, issued, mine, child, owned, watch, token, locked>>
  PROVE  FrameInv'
  <1>1. /\ pc' \in [Callers -> FramePlaces] /\ pc'[c] = l
        /\ \A d \in Callers : d # c => pc'[d] = pc[d] /\ pc[d] \in Outside
    BY FrameConstants DEF FrameInv, FrameData, FramePlaces
  <1>2. FrameData'
    BY <1>1, FrameConstants DEF FrameInv, FrameData, Outside
  <1>3. F!FramesAreOwned' /\ F!LockEndsGrants'
    BY FramesStay
  <1>4. \A d \in Callers : CallOK(d)'
    BY <1>1 DEF CallOK, Opening, Ending, Within, Outside
  <1>5. RestOK'
    <2>1. \A d \in Callers : pc[d] \notin Within
      BY <1>1 DEF Opening, Ending, Within, Outside
    <2> QED
      BY <2>1 DEF FrameInv, RestOK
  <1> QED
    BY <1>2, <1>3, <1>4, <1>5 DEF FrameInv

LEMMA CallFrame ==
  ASSUME FrameInv, NEW c \in Callers, F!Call(c)
  PROVE  FrameInv'
  <1> USE DEF F!Goto
  <1> DEFINE In(l) == l \in FramePlaces
  <1>0. /\ In("idle") /\ In("grant") /\ In("open") /\ In("stop") /\ In("reap") /\ In("spawn") /\ In("await") /\ In("decide")
        /\ In("fail") /\ In("failstop") /\ In("failreap") /\ In("leave") /\ In("close") /\ In("closestop") /\ In("closereap")
        /\ In("closed") /\ In("enterlock")
    BY DEF FramePlaces
  <1>1. CASE F!Stop(c, "stop", "reap")
    <2>1. /\ pc[c] = "stop" /\ pc' = [pc EXCEPT ![c] = "reap"] /\ UNCHANGED <<lease, issued, mine, child, owned, watch, framelock, token, locked>>
      BY <1>1 DEF F!Stop
    <2>2. pc[c] \notin Outside /\ In("reap")
      BY <1>0, <2>1 DEF Outside
    <2>3. F!FramesAreOwned' /\ F!LockEndsGrants'
      BY <2>1, FramesStay, FrameFacts
    <2> QED
      BY <2>1, <2>2, <2>3, FrameFacts, FrameStep DEF CallOK, Outside, Opening, Ending, Within
  <1>2. CASE F!Stop(c, "failstop", "failreap")
    <2>1. /\ pc[c] = "failstop" /\ pc' = [pc EXCEPT ![c] = "failreap"] /\ UNCHANGED <<lease, issued, mine, child, owned, watch, framelock, token, locked>>
      BY <1>2 DEF F!Stop
    <2>2. pc[c] \notin Outside /\ In("failreap")
      BY <1>0, <2>1 DEF Outside
    <2>3. F!FramesAreOwned' /\ F!LockEndsGrants'
      BY <2>1, FramesStay, FrameFacts
    <2> QED
      BY <2>1, <2>2, <2>3, FrameFacts, FrameStep DEF CallOK, Outside, Opening, Ending, Within
  <1>3. CASE F!Stop(c, "closestop", "closereap")
    <2>1. /\ pc[c] = "closestop" /\ pc' = [pc EXCEPT ![c] = "closereap"] /\ UNCHANGED <<lease, issued, mine, child, owned, watch, framelock, token, locked>>
      BY <1>3 DEF F!Stop
    <2>2. pc[c] \notin Outside /\ In("closereap")
      BY <1>0, <2>1 DEF Outside
    <2>3. F!FramesAreOwned' /\ F!LockEndsGrants'
      BY <2>1, FramesStay, FrameFacts
    <2> QED
      BY <2>1, <2>2, <2>3, FrameFacts, FrameStep DEF CallOK, Outside, Opening, Ending, Within
  <1>4. CASE F!Leave(c)
    <2>1. /\ pc[c] = "leave" /\ pc' = [pc EXCEPT ![c] = "idle"] /\ UNCHANGED <<issued, mine, child, owned, stopped, watch, token, locked>>
          /\ framelock' = NoCaller /\ lease' = (IF lease = token[c] THEN 0 ELSE lease)
      BY <1>4 DEF F!Leave, F!Retire, F!ownvars
    <2>2. pc[c] \notin Outside /\ In("idle")
      BY <1>0, <2>1 DEF Outside
    <2>3. F!FramesAreOwned' /\ F!LockEndsGrants'
      BY <2>1, FramesStay, FrameFacts
    <2> QED
      BY <2>1, <2>2, <2>3, FrameFacts, FrameStep DEF CallOK, Outside, Opening, Ending, Within
  <1>5. CASE F!Fail(c)
    <2>1. /\ pc[c] = "fail" /\ pc' = [pc EXCEPT ![c] = "failstop"] /\ UNCHANGED <<issued, mine, child, owned, stopped, watch, framelock, token, locked>>
          /\ lease' = (IF lease = token[c] THEN 0 ELSE lease)
      BY <1>5 DEF F!Fail, F!Retire, F!ownvars
    <2>2. pc[c] \notin Outside /\ In("failstop")
      BY <1>0, <2>1 DEF Outside
    <2>3. F!FramesAreOwned' /\ F!LockEndsGrants'
      BY <2>1, FramesStay, FrameFacts
    <2> QED
      BY <2>1, <2>2, <2>3, FrameFacts, FrameStep DEF CallOK, Outside, Opening, Ending, Within
  <1>6. CASE F!Close(c)
    <2>1. /\ pc[c] = "close" /\ pc' = [pc EXCEPT ![c] = "closestop"] /\ UNCHANGED <<issued, mine, child, owned, stopped, watch, framelock, token, locked>>
          /\ lease' = (IF lease = owned THEN 0 ELSE lease)
      BY <1>6 DEF F!Close, F!Retire, F!ownvars
    <2>2. pc[c] \notin Outside /\ In("closestop")
      BY <1>0, <2>1 DEF Outside
    <2>3. F!FramesAreOwned' /\ F!LockEndsGrants'
      BY <2>1, FramesStay, FrameFacts
    <2> QED
      BY <2>1, <2>2, <2>3, FrameFacts, FrameStep DEF CallOK, Outside, Opening, Ending, Within
  <1>7. CASE F!Open(c)
    <2>1. /\ pc[c] = "open" /\ UNCHANGED <<lease, issued, mine, child, owned, stopped, watch, framelock, token, locked>>
          /\ \/ pc' = [pc EXCEPT ![c] = "stop"]
             \/ pc' = [pc EXCEPT ![c] = "leave"]
      BY <1>7 DEF F!Open, F!ownvars
    <2>2. pc[c] \notin Outside
      BY <2>1 DEF Outside
    <2>3. F!FramesAreOwned' /\ F!LockEndsGrants'
      BY <2>1, FramesStay, FrameFacts
    <2>4. CASE pc' = [pc EXCEPT ![c] = "stop"]
      BY <1>0, <2>1, <2>2, <2>3, <2>4, FrameFacts, FrameStep DEF CallOK, Outside, Opening, Ending, Within
    <2>5. CASE pc' = [pc EXCEPT ![c] = "leave"]
      BY <1>0, <2>1, <2>2, <2>3, <2>5, FrameFacts, FrameStep DEF CallOK, Outside, Opening, Ending, Within
    <2> QED
      BY <2>1, <2>4, <2>5
  <1>8. CASE F!Grant(c)
    <2>1. /\ pc[c] = "grant" /\ issued < MaxGrants /\ issued' = issued + 1 /\ lease' = issued + 1
          /\ mine' = mine \cup {issued + 1} /\ token' = [token EXCEPT ![c] = issued + 1]
          /\ pc' = [pc EXCEPT ![c] = "open"] /\ UNCHANGED <<child, owned, stopped, watch, framelock, locked>>
      BY <1>8 DEF F!Grant, F!ownvars
    <2>2. pc[c] \notin Outside
      BY <2>1 DEF Outside
    <2>3. /\ issued + 1 \in 0..MaxGrants /\ issued + 1 \in 1..(issued + 1) /\ 0..issued \subseteq 0..(issued + 1)
          /\ 1..issued \subseteq 1..(issued + 1) /\ issued + 1 \notin 1..issued /\ issued + 1 \in 0..(issued + 1)
      BY <2>1, FrameFacts, FrameConstants
    <2>4. /\ mine' \subseteq 1..(issued + 1) /\ locked' \subseteq 1..(issued + 1) /\ owned' \in 0..(issued + 1)
          /\ token' \in [Callers -> 0..(issued + 1)] /\ token'[c] = issued + 1 /\ issued + 1 \notin locked
      BY <2>1, <2>3, FrameFacts
    <2>5. F!FramesAreOwned' /\ F!LockEndsGrants'
      BY <2>1, <2>4, FrameFacts DEF F!FramesAreOwned, F!LockEndsGrants, F!Alive
    <2> QED
      BY <1>0, <2>1, <2>2, <2>3, <2>4, <2>5, FrameFacts, FrameStep DEF Outside, Opening, Ending, Within
  <1>9. CASE F!Reap(c, "reap", "spawn")
    <2>1. /\ pc[c] = "reap" /\ pc' = [pc EXCEPT ![c] = "spawn"] /\ owned' = 0
          /\ child' = [g \in F!Grants |-> IF g = owned THEN "exited" ELSE child[g]]
          /\ UNCHANGED <<lease, issued, mine, stopped, watch, framelock, token, locked>>
      BY <1>9 DEF F!Reap
    <2>2. pc[c] \notin Outside
      BY <2>1 DEF Outside
    <2>3. child' \in [F!Grants -> {"none", "starting", "shown", "exited"}] /\ \A g \in F!Grants : ~F!Alive(g)'
      BY <2>1, FrameFacts DEF F!Alive, F!FramesAreOwned
    <2>4. F!FramesAreOwned' /\ F!LockEndsGrants'
      <3>1. \A g \in locked \cap mine : g \in F!Grants
        BY FrameConstants, FrameFacts
      <3> QED
        BY <2>1, <2>3, <3>1, FrameFacts DEF F!FramesAreOwned, F!LockEndsGrants
    <2> QED
      BY <1>0, <2>1, <2>2, <2>3, <2>4, FrameFacts, FrameStep DEF CallOK, Outside, Opening, Ending, Within
  <1>10. CASE F!Reap(c, "failreap", "leave")
    <2>1. /\ pc[c] = "failreap" /\ pc' = [pc EXCEPT ![c] = "leave"] /\ owned' = 0
          /\ child' = [g \in F!Grants |-> IF g = owned THEN "exited" ELSE child[g]]
          /\ UNCHANGED <<lease, issued, mine, stopped, watch, framelock, token, locked>>
      BY <1>10 DEF F!Reap
    <2>2. pc[c] \notin Outside
      BY <2>1 DEF Outside
    <2>3. child' \in [F!Grants -> {"none", "starting", "shown", "exited"}] /\ \A g \in F!Grants : ~F!Alive(g)'
      BY <2>1, FrameFacts DEF F!Alive, F!FramesAreOwned
    <2>4. F!FramesAreOwned' /\ F!LockEndsGrants'
      <3>1. \A g \in locked \cap mine : g \in F!Grants
        BY FrameConstants, FrameFacts
      <3> QED
        BY <2>1, <2>3, <3>1, FrameFacts DEF F!FramesAreOwned, F!LockEndsGrants
    <2> QED
      BY <1>0, <2>1, <2>2, <2>3, <2>4, FrameFacts, FrameStep DEF CallOK, Outside, Opening, Ending, Within
  <1>11. CASE F!Reap(c, "closereap", "closed")
    <2>1. /\ pc[c] = "closereap" /\ pc' = [pc EXCEPT ![c] = "closed"] /\ owned' = 0
          /\ child' = [g \in F!Grants |-> IF g = owned THEN "exited" ELSE child[g]]
          /\ UNCHANGED <<lease, issued, mine, stopped, watch, framelock, token, locked>>
      BY <1>11 DEF F!Reap
    <2>2. pc[c] \notin Outside
      BY <2>1 DEF Outside
    <2>3. child' \in [F!Grants -> {"none", "starting", "shown", "exited"}] /\ \A g \in F!Grants : ~F!Alive(g)'
      BY <2>1, FrameFacts DEF F!Alive, F!FramesAreOwned
    <2>4. F!FramesAreOwned' /\ F!LockEndsGrants'
      <3>1. \A g \in locked \cap mine : g \in F!Grants
        BY FrameConstants, FrameFacts
      <3> QED
        BY <2>1, <2>3, <3>1, FrameFacts DEF F!FramesAreOwned, F!LockEndsGrants
    <2> QED
      BY <1>0, <2>1, <2>2, <2>3, <2>4, FrameFacts, FrameStep DEF CallOK, Outside, Opening, Ending, Within
  <1>12. CASE F!Spawn(c)
    <2> DEFINE g == token[c]
    <2>1. /\ pc[c] = "spawn" /\ UNCHANGED <<lease, issued, mine, stopped, watch, framelock, token, locked>>
          /\ \/ child' = [child EXCEPT ![g] = "starting"] /\ owned' = g /\ pc' = [pc EXCEPT ![c] = "await"]
             \/ pc' = [pc EXCEPT ![c] = "fail"] /\ UNCHANGED <<child, owned>>
      BY <1>12 DEF F!Spawn
    <2>2. pc[c] \notin Outside
      BY <2>1 DEF Outside
    <2>3. CASE pc' = [pc EXCEPT ![c] = "fail"] /\ UNCHANGED <<child, owned>>
      <3>1. F!FramesAreOwned' /\ F!LockEndsGrants'
        BY <2>1, <2>3, FramesStay, FrameFacts
      <3> QED
        BY <1>0, <2>1, <2>2, <2>3, <3>1, FrameFacts, FrameStep DEF CallOK, Outside, Opening, Ending, Within
    <2>4. CASE child' = [child EXCEPT ![g] = "starting"] /\ owned' = g /\ pc' = [pc EXCEPT ![c] = "await"]
      <3>1. g \in mine \ locked /\ owned = 0 /\ g \in 0..issued /\ (lease \in mine => lease = g)
        BY <2>1, FrameFacts DEF CallOK, Opening
      <3>2. child' \in [F!Grants -> {"none", "starting", "shown", "exited"}] /\ \A h \in F!Grants : h # g => child'[h] = child[h]
        BY <2>4, FrameFacts
      <3>3. \A h \in F!Grants : h # 0 /\ ~F!Alive(h)
        BY <3>1, FrameFacts, FrameConstants DEF F!FramesAreOwned, F!Alive
      <3>4. F!FramesAreOwned'
        <4> HIDE DEF g
        <4> QED
          BY <2>4, <3>2, <3>3 DEF F!FramesAreOwned, F!Alive
      <3>5. F!LockEndsGrants'
        <4>1. \A h \in locked \cap mine : h \in F!Grants /\ h # g
          BY <3>1, FrameConstants, FrameFacts
        <4> HIDE DEF g
        <4> QED
          BY <2>1, <3>2, <4>1, FrameFacts DEF F!LockEndsGrants, F!Alive
      <3> QED
        BY <1>0, <2>1, <2>2, <2>4, <3>1, <3>2, <3>4, <3>5, FrameFacts, FrameStep DEF CallOK, Outside, Opening,
           Ending, Within
    <2> QED
      BY <2>1, <2>3, <2>4
  <1>13. CASE F!Await(c)
    <2>1. /\ pc[c] = "await" /\ UNCHANGED <<lease, issued, mine, child, owned, stopped, framelock, token, locked>>
          /\ \/ watch' = [watch EXCEPT ![token[c]] = "run"] /\ pc' = [pc EXCEPT ![c] = "decide"]
             \/ pc' = [pc EXCEPT ![c] = "fail"] /\ UNCHANGED watch
      BY <1>13 DEF F!Await
    <2>2. pc[c] \notin Outside /\ watch' \in [F!Grants -> {"none", "run", "retire", "done"}]
      BY <2>1, FrameFacts DEF Outside
    <2>3. F!FramesAreOwned' /\ F!LockEndsGrants'
      BY <2>1, FramesStay, FrameFacts
    <2>4. CASE pc' = [pc EXCEPT ![c] = "decide"]
      BY <1>0, <2>1, <2>2, <2>3, <2>4, FrameFacts, FrameStep DEF CallOK, Outside, Opening, Ending, Within
    <2>5. CASE pc' = [pc EXCEPT ![c] = "fail"]
      BY <1>0, <2>1, <2>2, <2>3, <2>5, FrameFacts, FrameStep DEF CallOK, Outside, Opening, Ending, Within
    <2> QED
      BY <2>1, <2>4, <2>5
  <1>14. CASE F!Decide(c)
    <2>1. /\ pc[c] = "decide" /\ pc' = [pc EXCEPT ![c] = "idle"] /\ framelock' = NoCaller
          /\ UNCHANGED <<issued, mine, child, owned, stopped, watch, token, locked>> /\ lease' \in {lease, 0}
      BY <1>14 DEF F!Decide, F!Retire, F!ownvars
    <2>2. pc[c] \notin Outside
      BY <2>1 DEF Outside
    <2>3. F!FramesAreOwned' /\ F!LockEndsGrants'
      BY <2>1, FramesStay, FrameFacts
    <2> QED
      BY <1>0, <2>1, <2>2, <2>3, FrameFacts, FrameStep DEF CallOK, Outside, Opening, Ending, Within
  <1>15. CASE F!Locked(c)
    <2>1. /\ pc[c] = "closed" /\ pc' = [pc EXCEPT ![c] = "idle"] /\ framelock' = NoCaller /\ locked' = 1..issued
          /\ UNCHANGED <<lease, issued, mine, child, owned, stopped, watch, token>>
      BY <1>15 DEF F!Locked, F!ownvars
    <2>2. pc[c] \notin Outside /\ owned = 0 /\ lease \notin mine
      BY <2>1, FrameFacts DEF CallOK, Outside, Ending
    <2>3. F!FramesAreOwned' /\ F!LockEndsGrants'
      <3>1. F!FramesAreOwned'
        BY <2>1, FrameFacts DEF F!FramesAreOwned, F!Alive
      <3>2. \A g \in mine : g \in F!Grants /\ g # 0
        BY FrameFacts, FrameConstants
      <3> QED
        BY <2>1, <2>2, <3>1, <3>2, FrameFacts DEF F!FramesAreOwned, F!LockEndsGrants, F!Alive
    <2> QED
      BY <1>0, <2>1, <2>2, <2>3, FrameFacts, FrameStep DEF CallOK, Outside, Opening, Ending, Within
  <1>16. CASE F!EnterLock(c)
    <2>1. /\ pc[c] = "enterlock" /\ framelock = NoCaller /\ framelock' = c /\ pc' = [pc EXCEPT ![c] = "close"]
          /\ UNCHANGED <<lease, issued, mine, child, owned, stopped, watch, token, locked>>
      BY <1>16 DEF F!EnterLock, F!ownvars
    <2>2. pc[c] \in Outside /\ "close" \in {"grant", "close"}
      BY <2>1 DEF Outside
    <2> QED
      BY <2>1, <2>2, EnterFrame
  <1> QED
    BY <1>1, <1>2, <1>3, <1>4, <1>5, <1>6, <1>7, <1>8, <1>9, <1>10, <1>11, <1>12, <1>13, <1>14, <1>15, <1>16,
       Zenon DEF F!Call

LEMMA NextFrame ==
  ASSUME FrameInv, [F!Next]_fvars
  PROVE  FrameInv'
  <1>0. /\ lease \in 0..issued /\ issued \in 0..MaxGrants /\ mine \subseteq 1..issued /\ locked \subseteq 1..issued
        /\ child \in [F!Grants -> {"none", "starting", "shown", "exited"}] /\ owned \in 0..issued
        /\ watch \in [F!Grants -> {"none", "run", "retire", "done"}]
        /\ framelock \in Callers \cup {NoCaller} /\ pc \in [Callers -> FramePlaces] /\ token \in [Callers -> 0..issued]
        /\ issued \in Nat /\ 0 \in 0..issued /\ 0 \notin mine
    BY FrameConstants DEF FrameInv, FrameData
  <1>1. ASSUME NEW c \in Callers, F!Enter(c)
        PROVE  FrameInv'
    <2>1. /\ pc[c] = "idle" /\ framelock = NoCaller /\ framelock' = c /\ pc' = [pc EXCEPT ![c] = "grant"]
          /\ UNCHANGED <<lease, issued, mine, child, owned, watch, token, locked>>
      BY <1>1 DEF F!Enter, F!Goto, F!ownvars
    <2>2. pc[c] \in Outside /\ "grant" \in {"grant", "close"}
      BY <2>1 DEF Outside
    <2> QED
      BY <2>1, <2>2, EnterFrame
  <1>2. ASSUME NEW c \in Callers, F!Lock(c)
        PROVE  FrameInv'
    <2>1. /\ pc[c] = "idle" /\ lease' = 0 /\ pc' = [pc EXCEPT ![c] = "enterlock"] /\ token' = [token EXCEPT ![c] = issued]
          /\ UNCHANGED <<issued, mine, child, owned, watch, framelock, locked>>
      BY <1>2 DEF F!Lock, F!Goto, F!ownvars
    <2>2. /\ pc' \in [Callers -> FramePlaces] /\ pc'[c] = "enterlock" /\ token' \in [Callers -> 0..issued]
          /\ \A d \in Callers : d # c => pc'[d] = pc[d] /\ token'[d] = token[d]
      BY <1>0, <2>1 DEF FramePlaces
    <2>3. FrameData'
      BY <1>0, <2>1, <2>2 DEF FrameInv, FrameData, Outside
    <2>4. \A d \in Callers : \/ pc'[d] = pc[d] /\ (pc[d] \in Opening \cup {"leave"} => token'[d] = token[d])
                             \/ pc[d] \in Outside /\ pc'[d] \in {"grant", "enterlock"}
      BY <2>1, <2>2 DEF Outside
    <2>5. \A g \in F!Grants : F!Alive(g)' => F!Alive(g)
      BY <2>1 DEF F!Alive
    <2> QED
      BY <1>0, <2>1, <2>3, <2>4, <2>5, FrameElse
  <1>3. ASSUME NEW g \in F!Grants, F!Supervise(g)
        PROVE  FrameInv'
    <2>1. /\ UNCHANGED <<issued, mine, child, owned, framelock, pc, token, locked>> /\ lease' \in {lease, 0}
          /\ \E w \in {"done", "retire"} : watch' = [watch EXCEPT ![g] = w]
      BY <1>3 DEF F!Supervise, F!Look, F!SuperviseRetires, F!Retire, F!callvars
    <2>2. FrameData'
      BY <1>0, <2>1 DEF FrameInv, FrameData
    <2>3. \A h \in F!Grants : F!Alive(h)' => F!Alive(h)
      BY <2>1 DEF F!Alive
    <2> QED
      BY <1>0, <2>1, <2>2, <2>3, FrameElse
  <1>4. ASSUME NEW g \in F!Grants, F!Shows(g) \/ F!Exits(g)
        PROVE  FrameInv'
    <2>1. /\ UNCHANGED <<lease, issued, mine, owned, watch, framelock, pc, token, locked>> /\ F!Alive(g)
          /\ \E x \in {"shown", "exited"} : child' = [child EXCEPT ![g] = x]
      BY <1>4, FrameConstants DEF F!Shows, F!Exits, F!Alive, F!ownvars, F!callvars
    <2>2. FrameData'
      BY <1>0, <2>1 DEF FrameInv, FrameData
    <2>3. \A h \in F!Grants : F!Alive(h)' => F!Alive(h)
      BY <1>0, <2>1 DEF F!Alive
    <2> QED
      BY <2>1, <2>2, <2>3, FrameElse
  <1>5. CASE F!EndedElsewhere
    <2>1. lease' = 0 /\ UNCHANGED <<issued, mine, child, owned, watch, framelock, pc, token, locked>>
      BY <1>5 DEF F!EndedElsewhere, F!ownvars, F!callvars
    <2>2. FrameData'
      BY <1>0, <2>1 DEF FrameInv, FrameData
    <2>3. \A h \in F!Grants : F!Alive(h)' => F!Alive(h)
      BY <2>1 DEF F!Alive
    <2> QED
      BY <1>0, <2>1, <2>2, <2>3, FrameElse
  <1>6. CASE F!GrantedElsewhere
    <2>1. /\ issued < MaxGrants /\ issued' = issued + 1 /\ lease' = issued + 1
          /\ UNCHANGED <<mine, child, owned, watch, framelock, pc, token, locked>>
      BY <1>6 DEF F!GrantedElsewhere, F!ownvars, F!callvars
    <2>2. /\ issued + 1 \in 0..MaxGrants /\ 0..issued \subseteq 0..(issued + 1)
          /\ 1..issued \subseteq 1..(issued + 1) /\ issued + 1 \notin 1..issued /\ issued + 1 \in 0..(issued + 1)
      BY <1>0, <2>1, FrameConstants
    <2>3. FrameData'
      <3>1. token' \in [Callers -> 0..issued'] /\ owned' \in 0..issued' /\ mine' \subseteq 1..issued' /\ locked' \subseteq 1..issued'
        BY <1>0, <2>1, <2>2
      <3> QED
        BY <1>0, <2>1, <2>2, <3>1 DEF FrameInv, FrameData
    <2>4. \A h \in F!Grants : F!Alive(h)' => F!Alive(h)
      BY <2>1 DEF F!Alive
    <2> QED
      BY <1>0, <2>1, <2>2, <2>3, <2>4, FrameElse
  <1>7. CASE UNCHANGED fvars
    <2>1. UNCHANGED <<lease, issued, mine, child, owned, watch, framelock, pc, token, locked>>
      BY <1>7 DEF fvars
    <2>2. FrameData'
      BY <1>0, <2>1 DEF FrameInv, FrameData
    <2>3. \A h \in F!Grants : F!Alive(h)' => F!Alive(h)
      BY <2>1 DEF F!Alive
    <2> QED
      BY <1>0, <2>1, <2>2, <2>3, FrameElse
  <1> QED
    BY <1>1, <1>2, <1>3, <1>4, <1>5, <1>6, <1>7, CallFrame, Zenon DEF F!Next
-----------------------------------------------------------------------------
(* The session of the native helper.  Who is inside `open` has the mutex,  *)
(* and what is open is known at each place.                                *)
Making == {"record", "start", "nodes", "last"}
Inside == {"create", "unlock"} \cup Making

MutexOK == holder <=> at \in Inside
PathOK ==
    /\ at = "create" => path = 0 /\ state = "starting"
    /\ at \in Making => path # 0 /\ state = "starting"
    /\ at \notin Making /\ at # "create" => state # "starting" /\ (state = "ready" <=> path # 0)
GnomeOnly == path # 0 \/ at \in Inside \cup {"lock", "node", "stop"} => system = "gnome"
ClosersOK == \A t \in N!Closers : (closer[t] # "no" => system # "kde") /\ (closer[t] = "close" => system = "gnome")
PlacesOK == MutexOK /\ PathOK /\ GnomeOnly /\ ClosersOK

(* Once the grant was found gone, someone is about to close what is open,  *)
(* or its request will look again.                                         *)
RevokedOK == revoked /\ path # 0 => missed \/ closer["lease"] # "no" \/ closer["request"] # "no" \/ at \in Making

(* The screen as the watchdog will see it when it has read its signals.    *)
Returns == \E i \in 1..Len(signals) : signals[i] = TRUE
SignalsOK ==
    system # "hyprland" =>
        /\ signals # <<>> => signals[Len(signals)] = unlocked
        /\ ~wasUnlocked /\ unlocked => blinked \/ Returns
LockedOK ==
    path # 0 /\ ~wasUnlocked /\ ~unlocked /\ ~Returns => missed \/ blinked \/ closer["screen"] # "no" \/ at \in Making

(* A frame composed without the grant, and nothing has been well since.    *)
LateOK == (late => ~(granted /\ unlocked /\ ~revoked)) /\ N!FramesUnderGrant

SessionTypes == N!WorldTypes /\ N!WatchTypes /\ N!SessionTypes /\ N!RequestTypes
SessionOK == PlacesOK /\ N!SharesAreKnown /\ RevokedOK /\ SignalsOK /\ LockedOK
SessionInv == SessionTypes /\ SessionOK /\ LateOK

sessionvars == <<flag, holder, state, path, layout, shares, made, leaked, missed>>
unlooked == <<system, granted, unlocked, signals, wasUnlocked, blinked>>

LEMMA SessionConstants ==
    Systems \subseteq {"gnome", "kde", "hyprland"} /\ MaxTurns \in Nat /\ MaxShares \in Nat
  BY CaptureAssumption DEF N!NativeShareAssumption

LEMMA SessionStarts == N!Init => SessionInv
  <1> SUFFICES ASSUME N!Init
               PROVE  SessionInv
    OBVIOUS
  <1> USE SessionConstants
  <1>1. N!WorldTypes /\ N!WatchTypes
    <2>1. signals \in Seq(BOOLEAN)
      BY DEF N!Init
    <2>2. system \in Systems /\ granted \in BOOLEAN /\ unlocked \in BOOLEAN /\ turns \in 0..MaxTurns
      BY DEF N!Init
    <2>3. revoked \in BOOLEAN /\ wasUnlocked \in BOOLEAN /\ blinked \in BOOLEAN
      BY DEF N!Init
    <2>4. closer \in [N!Closers -> {"no", "raise", "close"}]
      BY DEF N!Init
    <2> QED
      BY <2>1, <2>2, <2>3, <2>4 DEF N!WorldTypes, N!WatchTypes
  <1>2. N!SessionTypes /\ N!RequestTypes
    <2>1. flag = FALSE /\ holder = FALSE /\ missed = FALSE /\ late = FALSE /\ fine = FALSE
      BY DEF N!Init
    <2>2. state = "closed" /\ layout = "before" /\ job = "open" /\ want = "before" /\ at = "idle"
      BY DEF N!Init
    <2>3. path = 0 /\ shares = {} /\ made = 0 /\ leaked = {} /\ generation = 0 /\ began = 0
      BY DEF N!Init
    <2>4. N!RequestTypes
      BY <2>1, <2>2, <2>3 DEF N!RequestTypes, N!Layouts
    <2>5. 0 \in 0..MaxShares /\ 0 \in 0..0
      BY SessionConstants
    <2>6. N!SessionTypes
      BY <2>1, <2>2, <2>3, <2>5 DEF N!SessionTypes, N!Layouts
    <2> QED
      BY <2>4, <2>6
  <1>3. PlacesOK /\ N!SharesAreKnown
    BY DEF N!Init, PlacesOK, MutexOK, PathOK, GnomeOnly, ClosersOK, Inside, Making, N!SharesAreKnown
  <1>4. RevokedOK /\ SignalsOK /\ LockedOK /\ LateOK
    BY DEF N!Init, RevokedOK, SignalsOK, LockedOK, LateOK, N!FramesUnderGrant
  <1> QED
    BY <1>1, <1>2, <1>3, <1>4 DEF SessionInv, SessionTypes, SessionOK

(* What a look of the request may change: it can be the one that finds the *)
(* grant gone, and then it is about to close.                              *)
Looked ==
    /\ turns' \in 0..MaxTurns /\ revoked' \in BOOLEAN /\ (revoked => revoked')
    /\ closer' \in [N!Closers -> {"no", "raise", "close"}]
    /\ closer'["lease"] = closer["lease"] /\ closer'["screen"] = closer["screen"]
    /\ closer'["request"] \in {"no", "raise"} /\ (closer'["request"] # "no" => system # "kde")
    /\ revoked' /\ ~revoked => closer'["request"] # "no" \/ system = "kde"

LEMMA Unlooked ==
  ASSUME SessionTypes, closer["request"] = "no", UNCHANGED <<turns, revoked, closer>>
  PROVE  Looked
  BY DEF SessionTypes, N!WorldTypes, N!WatchTypes, N!Closers, Looked

LEMMA LooksWell ==
  ASSUME SessionTypes, closer["request"] = "no", N!Passes
  PROVE  Looked /\ granted /\ unlocked /\ ~revoked /\ ~revoked'
  BY Unlooked DEF N!Passes

LEMMA LooksIll ==
  ASSUME SessionTypes, closer["request"] = "no", N!Refuses
  PROVE  Looked
  <1>1. CASE UNCHANGED <<turns, revoked, closer>>
    BY <1>1, Unlooked
  <1>2. CASE ~revoked /\ revoked' = TRUE /\ N!StartClosing("request") /\ UNCHANGED turns
    <2>1. turns' \in 0..MaxTurns /\ closer \in [N!Closers -> {"no", "raise", "close"}]
      BY <1>2 DEF SessionTypes, N!WorldTypes, N!WatchTypes
    <2>2. closer' = [closer EXCEPT !["request"] = IF system = "kde" THEN "no" ELSE "raise"]
      BY <1>2 DEF N!StartClosing
    <2> QED
      BY <1>2, <2>1, <2>2 DEF N!Closers, Looked
  <1>3. CASE turns < MaxTurns /\ turns' = turns + 1 /\ UNCHANGED <<revoked, closer>>
    <2>1. turns' \in 0..MaxTurns
      BY <1>3, SessionConstants DEF SessionTypes, N!WorldTypes
    <2> QED
      BY <1>3, <2>1 DEF SessionTypes, N!WatchTypes, N!Closers, Looked
  <1> QED
    BY <1>1, <1>2, <1>3 DEF N!Refuses

(* A step of the request that leaves the session alone.                    *)
Walks ==
    /\ UNCHANGED unlooked /\ UNCHANGED sessionvars
    /\ generation' = generation /\ began' \in Nat /\ late' \in BOOLEAN
    /\ job' \in {"open", "frame"} /\ want' \in N!Layouts /\ fine' \in BOOLEAN
    /\ (at' \in Inside <=> at \in Inside) /\ (at' \in Making <=> at \in Making) /\ at # "create" /\ at' # "create"
    /\ at' \in {"lock", "node", "stop"} => system = "gnome"

Places == {"idle", "check", "again", "lock", "create", "record", "start", "nodes", "last", "unlock", "node",
           "load", "worker", "collect", "final", "encoded", "stop", "answer"}

LEMMA WalksOn ==
  ASSUME SessionTypes, SessionOK, Looked, Walks, LateOK', closer["request"] = "no", at' \in Places
  PROVE  SessionInv'
  <1>1. SessionTypes'
    <2>1. N!WorldTypes' /\ N!WatchTypes'
      BY DEF SessionTypes, N!WorldTypes, N!WatchTypes, Walks, Looked, unlooked
    <2>2. N!SessionTypes'
      BY DEF SessionTypes, N!SessionTypes, Walks, sessionvars
    <2>3. N!RequestTypes'
      BY DEF SessionTypes, N!RequestTypes, Walks, Places
    <2> QED
      BY <2>1, <2>2, <2>3 DEF SessionTypes
  <1>2. MutexOK' /\ PathOK' /\ GnomeOnly'
    BY DEF SessionOK, PlacesOK, MutexOK, PathOK, GnomeOnly, Walks, sessionvars, unlooked, Inside
  <1>3. ClosersOK'
    BY DEF SessionOK, PlacesOK, ClosersOK, Looked, Walks, unlooked, N!Closers
  <1>4. N!SharesAreKnown'
    BY DEF SessionOK, N!SharesAreKnown, Walks, sessionvars
  <1>5. RevokedOK'
    BY DEF SessionOK, PlacesOK, GnomeOnly, RevokedOK, Looked, Walks, sessionvars
  <1>6. SignalsOK'
    BY DEF SessionOK, SignalsOK, Returns, Walks, unlooked
  <1>7. LockedOK'
    BY DEF SessionOK, LockedOK, Returns, Looked, Walks, sessionvars, unlooked
  <1> QED
    BY <1>1, <1>2, <1>3, <1>4, <1>5, <1>6, <1>7 DEF SessionInv, SessionOK, PlacesOK

LEMMA LateStays ==
  ASSUME LateOK, UNCHANGED <<granted, unlocked, late>>, revoked => revoked', at' # "answer"
  PROVE  LateOK'
  BY DEF LateOK, N!FramesUnderGrant

(* The way of a request outside `open`, and where it only waits in there.  *)
LEMMA RequestWalks ==
  ASSUME SessionInv,
         N!Begin \/ N!Turned \/ N!First \/ N!Again \/ N!Record \/ N!Start \/ N!Announced
  PROVE  SessionInv'
  <1>0. SessionTypes /\ SessionOK /\ LateOK /\ (at = "lock" => system = "gnome")
    BY DEF SessionInv, SessionOK, PlacesOK, GnomeOnly
  <1>t. generation \in Nat /\ began \in Nat /\ late \in BOOLEAN /\ job \in {"open", "frame"} /\ want \in N!Layouts
        /\ fine \in BOOLEAN /\ system \in {"gnome", "kde", "hyprland"}
    BY <1>0, SessionConstants DEF SessionTypes, N!RequestTypes, N!WorldTypes
  <1> USE <1>t DEF Walks, Inside, Making, Places, sessionvars, unlooked, N!session, N!frame, N!world, N!watch, N!unlooked
  <1>1. CASE N!Begin
    <2>1. Walks /\ at' \in Places /\ at' # "answer" /\ closer["request"] = "no" /\ UNCHANGED <<turns, revoked, closer, granted, unlocked, late>>
      BY <1>1 DEF N!Begin
    <2> QED
      BY <1>0, <2>1, Unlooked, LateStays, WalksOn
  <1>2. CASE N!Turned
    <2>1. Walks /\ at' \in Places /\ at' # "answer" /\ closer["request"] = "no" /\ UNCHANGED <<granted, unlocked, late>>
      BY <1>2 DEF N!Turned, N!At, N!Goto
    <2>2. Looked
      BY <1>0, <1>2, <2>1, LooksIll DEF N!Turned
    <2>3. revoked => revoked'
      BY <2>2 DEF Looked
    <2> QED
      BY <1>0, <2>1, <2>2, <2>3, LateStays, WalksOn
  <1>3. CASE N!First
    <2>1. closer["request"] = "no" /\ N!Passes
      BY <1>3 DEF N!First, N!At
    <2>2. Walks /\ at' \in Places /\ at' # "answer" /\ UNCHANGED <<granted, unlocked, late>>
      BY <1>3 DEF N!First, N!At, N!Goto
    <2>3. Looked /\ (revoked => revoked')
      BY <1>0, <2>1, LooksWell
    <2> QED
      BY <1>0, <2>1, <2>2, <2>3, LateStays, WalksOn
  <1>4. CASE N!Again
    <2>1. closer["request"] = "no" /\ N!Passes
      BY <1>4 DEF N!Again, N!At
    <2>2. Walks /\ at' \in Places /\ at' # "answer" /\ UNCHANGED <<granted, unlocked, late>>
      BY <1>4 DEF N!Again, N!At, N!Goto
    <2>3. Looked /\ (revoked => revoked')
      BY <1>0, <2>1, LooksWell
    <2> QED
      BY <1>0, <2>1, <2>2, <2>3, LateStays, WalksOn
  <1>5. CASE N!Record \/ N!Start
    <2>1. closer["request"] = "no" /\ N!Passes
      BY <1>5 DEF N!Record, N!Start, N!At, N!Checkpoint
    <2>2. Walks /\ at' \in Places /\ at' # "answer" /\ UNCHANGED <<granted, unlocked, late>>
      BY <1>5 DEF N!Record, N!Start, N!At, N!Goto
    <2>3. Looked /\ (revoked => revoked')
      BY <1>0, <2>1, LooksWell
    <2> QED
      BY <1>0, <2>1, <2>2, <2>3, LateStays, WalksOn
  <1>6. CASE N!Announced
    <2>1. Walks /\ at' \in Places /\ at' # "answer" /\ closer["request"] = "no" /\ UNCHANGED <<turns, revoked, closer, granted, unlocked, late>>
      BY <1>6 DEF N!Announced, N!At, N!Goto
    <2> QED
      BY <1>0, <2>1, Unlooked, LateStays, WalksOn
  <1> QED
    BY <1>1, <1>2, <1>3, <1>4, <1>5, <1>6

LEMMA FrameWalks ==
  ASSUME SessionInv,
         N!NodeFor \/ N!Load \/ N!Wait \/ N!Compose \/ N!Final \/ N!Encoded \/ N!FrameFails \/ N!Answered
  PROVE  SessionInv'
  <1>0. SessionTypes /\ SessionOK /\ LateOK /\ (at = "node" => system = "gnome")
    BY DEF SessionInv, SessionOK, PlacesOK, GnomeOnly
  <1>t. generation \in Nat /\ began \in Nat /\ late \in BOOLEAN /\ job \in {"open", "frame"} /\ want \in N!Layouts
        /\ fine \in BOOLEAN
    BY <1>0 DEF SessionTypes, N!RequestTypes
  <1> USE <1>t DEF Walks, Inside, Making, Places, sessionvars, unlooked, N!session, N!frame, N!world, N!watch, N!unlooked
  <1>1. CASE N!NodeFor \/ N!Load \/ N!Answered
    <2>1. Walks /\ at' \in Places /\ at' # "answer" /\ closer["request"] = "no" /\ UNCHANGED <<turns, revoked, closer, granted, unlocked, late>>
      BY <1>1 DEF N!NodeFor, N!Load, N!Answered, N!At, N!Goto
    <2> QED
      BY <1>0, <2>1, Unlooked, LateStays, WalksOn
  <1>2. CASE N!Wait
    <2>1. closer["request"] = "no" /\ N!Passes
      BY <1>2 DEF N!Wait, N!At
    <2>2. Walks /\ at' \in Places /\ at' # "answer" /\ UNCHANGED <<granted, unlocked, late>>
      BY <1>2 DEF N!Wait, N!At, N!Goto
    <2>3. Looked /\ (revoked => revoked')
      BY <1>0, <2>1, LooksWell
    <2> QED
      BY <1>0, <2>1, <2>2, <2>3, LateStays, WalksOn
  <1>3. CASE N!Compose
    <2>1. late' = ~(granted /\ unlocked /\ ~revoked) /\ UNCHANGED <<granted, unlocked, revoked>> /\ at' = "final"
      BY <1>3 DEF N!Compose, N!Goto
    <2>2. late' \in BOOLEAN
      BY <2>1, Zenon
    <2>3. Walks /\ at' \in Places /\ closer["request"] = "no" /\ UNCHANGED <<turns, revoked, closer>>
      BY <1>3, <2>2 DEF N!Compose, N!At, N!Goto
    <2>4. LateOK'
      BY <2>1 DEF LateOK, N!FramesUnderGrant
    <2> QED
      BY <1>0, <2>3, <2>4, Unlooked, WalksOn
  <1>4. CASE N!Final \/ N!Encoded
    <2>1. closer["request"] = "no" /\ N!Passes
      BY <1>4 DEF N!Final, N!Encoded, N!At
    <2>2. Walks /\ at' \in Places /\ UNCHANGED <<granted, unlocked, late>>
      BY <1>4 DEF N!Final, N!Encoded, N!At, N!Goto
    <2>3. Looked /\ granted /\ unlocked /\ ~revoked /\ ~revoked'
      BY <1>0, <2>1, LooksWell
    <2>4. LateOK'
      BY <1>0, <2>2, <2>3 DEF LateOK, N!FramesUnderGrant
    <2> QED
      BY <1>0, <2>1, <2>2, <2>3, <2>4, WalksOn
  <1>5. CASE N!FrameFails
    <2>1. Walks /\ at' \in Places /\ at' # "answer" /\ closer["request"] = "no" /\ UNCHANGED <<granted, unlocked, late>>
      BY <1>5 DEF N!FrameFails, N!Worse, N!At, N!Goto
    <2>2. Looked
      BY <1>0, <1>5, <2>1, LooksIll, Unlooked DEF N!FrameFails
    <2>3. revoked => revoked'
      BY <2>2 DEF Looked
    <2> QED
      BY <1>0, <2>1, <2>2, <2>3, LateStays, WalksOn
  <1> QED
    BY <1>1, <1>2, <1>3, <1>4, <1>5

(* stop forgets the session; what still runs was let go in vain.           *)
LEMMA LetsGo ==
  ASSUME N!SessionTypes, N!SharesAreKnown, N!LetGo, made' = made
  PROVE  /\ path' = 0 /\ path' \in 0..made' /\ missed' \in BOOLEAN
         /\ shares' \subseteq 1..made' /\ leaked' \subseteq 1..made' /\ N!SharesAreKnown'
  <1>1. made \in Nat /\ path \in 0..made /\ shares \subseteq 1..made /\ leaked \subseteq 1..made
    BY SessionConstants DEF N!SessionTypes
  <1>2. path # 0 => path \in 1..made
    BY <1>1
  <1>3. path' = 0 /\ missed' = FALSE /\ 0 \in 0..made
    BY <1>1 DEF N!LetGo
  <1>4. shares' \subseteq 1..made /\ leaked' \subseteq 1..made
    BY <1>1, <1>2 DEF N!LetGo
  <1>5. shares' \subseteq {0} \cup leaked'
    BY <1>2 DEF N!LetGo, N!SharesAreKnown
  <1> QED
    BY <1>3, <1>4, <1>5 DEF N!SharesAreKnown

(* A step of the request after which nothing is open.                      *)
LEMMA Emptied ==
  ASSUME SessionTypes, SessionOK, LateOK, closer["request"] = "no",
         Looked, UNCHANGED unlooked, UNCHANGED <<generation, began, late, job, want>>,
         path' = 0, N!SessionTypes', N!SharesAreKnown', fine' \in BOOLEAN, at' \in Places, at' # "answer",
         MutexOK', PathOK', GnomeOnly'
  PROVE  SessionInv'
  <1>1. SessionTypes'
    <2>1. N!WorldTypes' /\ N!WatchTypes'
      BY DEF SessionTypes, N!WorldTypes, N!WatchTypes, Looked, unlooked
    <2>2. N!RequestTypes'
      BY DEF SessionTypes, N!RequestTypes, Places
    <2> QED
      BY <2>1, <2>2 DEF SessionTypes
  <1>2. ClosersOK'
    BY DEF SessionOK, PlacesOK, ClosersOK, Looked, unlooked, N!Closers
  <1>3. RevokedOK' /\ LockedOK'
    BY DEF RevokedOK, LockedOK
  <1>4. SignalsOK'
    BY DEF SessionOK, SignalsOK, Returns, unlooked
  <1>5. LateOK'
    BY LateStays DEF unlooked, Looked
  <1> QED
    BY <1>1, <1>2, <1>3, <1>4, <1>5 DEF SessionInv, SessionOK, PlacesOK

LEMMA NextOpen ==
  ASSUME SessionInv,
         N!Lock \/ N!Stopped \/ N!CallFails \/ N!CreateFails \/ N!Create \/ N!Last \/ N!Unlock \/ N!StopSession
  PROVE  SessionInv'
  <1>0. SessionTypes /\ SessionOK /\ LateOK /\ MutexOK /\ PathOK /\ GnomeOnly /\ N!SharesAreKnown
    BY DEF SessionInv, SessionOK, PlacesOK
  <1>t. /\ flag \in BOOLEAN /\ holder \in BOOLEAN /\ state \in {"closed", "starting", "ready", "failed"} /\ missed \in BOOLEAN
        /\ made \in 0..MaxShares /\ path \in 0..made /\ layout \in N!Layouts /\ shares \subseteq 1..made /\ leaked \subseteq 1..made
        /\ fine \in BOOLEAN /\ job \in {"open", "frame"} /\ want \in N!Layouts /\ generation \in Nat /\ began \in Nat /\ late \in BOOLEAN
    BY <1>0 DEF SessionTypes, N!SessionTypes, N!RequestTypes
  <1>1. CASE N!Lock
    <2>1. /\ at = "lock" /\ closer["request"] = "no" /\ holder' = TRUE /\ flag' = FALSE
          /\ UNCHANGED <<layout, made, job, want, generation, began, late>>
          /\ UNCHANGED unlooked /\ UNCHANGED <<turns, revoked, closer>>
      BY <1>1 DEF N!Lock, N!At, N!world, N!watch, N!frame, unlooked
    <2>2. CASE /\ state = "ready" /\ layout = want /\ at' = "unlock" /\ fine' = TRUE
               /\ UNCHANGED <<state, path, shares, leaked, missed>>
      <3>1. SessionTypes'
        <4>1. N!WorldTypes' /\ N!WatchTypes'
          BY <1>0, <2>1 DEF SessionTypes, N!WorldTypes, N!WatchTypes, unlooked
        <4>2. N!SessionTypes' /\ N!RequestTypes'
          BY <1>t, <2>1, <2>2 DEF N!SessionTypes, N!RequestTypes
        <4> QED
          BY <4>1, <4>2 DEF SessionTypes
      <3>2. PlacesOK'
        BY <1>0, <2>1, <2>2 DEF SessionOK, PlacesOK, MutexOK, PathOK, GnomeOnly, ClosersOK, Inside, Making,
           unlooked
      <3>3. N!SharesAreKnown' /\ RevokedOK'
        BY <1>0, <2>1, <2>2 DEF SessionOK, N!SharesAreKnown, RevokedOK, Making
      <3>4. SignalsOK' /\ LockedOK'
        BY <1>0, <2>1, <2>2 DEF SessionOK, SignalsOK, LockedOK, Returns, Making, unlooked
      <3>5. LateOK'
        BY <1>0, <2>1, <2>2, LateStays DEF unlooked
      <3> QED
        BY <3>1, <3>2, <3>3, <3>4, <3>5 DEF SessionInv, SessionOK
    <2>3. CASE /\ state \in {"ready", "closed", "failed"} /\ state' = "starting" /\ at' = "create" /\ fine' = fine
               /\ \/ N!LetGo
                  \/ state # "ready" /\ UNCHANGED <<path, shares, leaked, missed>>
      <3>1. /\ path' = 0 /\ path' \in 0..made' /\ missed' \in BOOLEAN
            /\ shares' \subseteq 1..made' /\ leaked' \subseteq 1..made' /\ N!SharesAreKnown'
        <4>1. CASE N!LetGo
          BY <1>0, <2>1, <4>1, LetsGo DEF SessionTypes
        <4>2. CASE state # "ready" /\ UNCHANGED <<path, shares, leaked, missed>>
          <5>1. path = 0
            BY <1>0, <2>1, <4>2 DEF PathOK, Making
          <5> QED
            BY <1>0, <1>t, <2>1, <4>2, <5>1 DEF N!SharesAreKnown
        <4> QED
          BY <2>3, <4>1, <4>2
      <3>2. N!SessionTypes'
        BY <1>t, <2>1, <2>3, <3>1 DEF N!SessionTypes
      <3>3. MutexOK' /\ PathOK' /\ GnomeOnly' /\ at' \in Places /\ at' # "answer"
        BY <1>0, <2>1, <2>3, <3>1 DEF MutexOK, PathOK, GnomeOnly, Inside, Making, Places, unlooked
      <3>4. Looked
        BY <1>0, <2>1, Unlooked
      <3> QED
        BY <1>0, <1>t, <2>1, <2>3, <3>1, <3>2, <3>3, <3>4, Emptied
    <2> QED
      BY <1>1, <2>2, <2>3 DEF N!Lock
  <1>2. CASE N!Stopped \/ N!CallFails \/ N!CreateFails
    <2>1. /\ closer["request"] = "no" /\ at \in Inside
          /\ state' = "failed" /\ at' = "unlock" /\ UNCHANGED <<job, want, fine, flag, holder, layout, generation, began, late>>
          /\ UNCHANGED unlooked
      BY <1>2 DEF N!Stopped, N!CallFails, N!CreateFails, N!Abort, N!At, N!Goto, N!frame, N!unlooked, unlooked,
         Inside, Making
    <2>2. Looked
      <3>1. CASE N!Stopped
        BY <1>0, <2>1, <3>1, LooksIll, Unlooked DEF N!Stopped, N!Stops
      <3>2. CASE N!CallFails \/ N!CreateFails
        BY <1>0, <2>1, <3>2, LooksWell, Unlooked DEF N!CallFails, N!CreateFails, N!Checkpoint
      <3> QED
        BY <1>2, <3>1, <3>2
    <2>3. /\ path' = 0 /\ path' \in 0..made' /\ made' \in 0..MaxShares /\ missed' \in BOOLEAN
          /\ shares' \subseteq 1..made' /\ leaked' \subseteq 1..made' /\ N!SharesAreKnown'
      <3>1. CASE N!Stopped \/ N!CallFails
        BY <1>0, <1>t, <3>1, LetsGo DEF N!Stopped, N!CallFails, N!Abort, SessionTypes
      <3>2. CASE N!CreateFails
        <4>1. path = 0 /\ made < MaxShares /\ path' = path /\ missed' = missed
          BY <1>0, <3>2 DEF N!CreateFails, PathOK, N!At
        <4>2. made + 1 \in 0..MaxShares /\ 1..made \subseteq 1..(made + 1) /\ made + 1 \in 1..(made + 1) /\ 0 \in 0..made /\ 0 \in 0..(made + 1)
          BY <1>t, <4>1, SessionConstants
        <4>3. CASE UNCHANGED <<shares, made, leaked>>
          BY <1>0, <1>t, <4>1, <4>2, <4>3 DEF N!SharesAreKnown
        <4>4. CASE made' = made + 1 /\ shares' = shares \cup {made + 1} /\ leaked' = leaked \cup {made + 1}
          <5>1. shares' \subseteq 1..(made + 1) /\ leaked' \subseteq 1..(made + 1)
            BY <1>t, <4>2, <4>4
          <5> QED
            BY <1>0, <1>t, <4>1, <4>2, <4>4, <5>1 DEF N!SharesAreKnown
        <4> QED
          BY <3>2, <4>3, <4>4 DEF N!CreateFails
      <3> QED
        BY <1>2, <3>1, <3>2
    <2>4. N!SessionTypes'
      BY <1>t, <2>1, <2>3 DEF N!SessionTypes
    <2>5. MutexOK' /\ PathOK' /\ GnomeOnly' /\ at' \in Places /\ at' # "answer"
      BY <1>0, <2>1, <2>3 DEF MutexOK, PathOK, GnomeOnly, Inside, Making, Places, unlooked
    <2> QED
      BY <1>0, <1>t, <2>1, <2>2, <2>3, <2>4, <2>5, Emptied
  <1>3. CASE N!Create
    <2>1. /\ at = "create" /\ closer["request"] = "no" /\ N!Passes /\ made < MaxShares
          /\ made' = made + 1 /\ path' = made + 1 /\ shares' = shares \cup {made + 1}
          /\ at' = "record" /\ UNCHANGED <<job, want, fine, flag, holder, state, layout, leaked, missed, generation, began, late>>
          /\ UNCHANGED unlooked
      BY <1>3 DEF N!Create, N!At, N!Goto, N!Checkpoint, N!frame, N!unlooked, unlooked
    <2>2. Looked
      BY <1>0, <2>1, LooksWell
    <2>3. made + 1 \in 0..MaxShares /\ 1..made \subseteq 1..(made + 1) /\ made + 1 \in 1..(made + 1) /\ made + 1 \in 0..(made + 1) /\ made + 1 # 0
      BY <1>t, <2>1, SessionConstants
    <2>4. SessionTypes'
      <3>1. N!WorldTypes' /\ N!WatchTypes'
        BY <1>0, <2>1, <2>2 DEF SessionTypes, N!WorldTypes, N!WatchTypes, Looked, unlooked
      <3>2. shares' \subseteq 1..made' /\ leaked' \subseteq 1..made'
        BY <1>t, <2>1, <2>3
      <3>3. N!SessionTypes' /\ N!RequestTypes'
        BY <1>t, <2>1, <2>3, <3>2 DEF N!SessionTypes, N!RequestTypes
      <3> QED
        BY <3>1, <3>3 DEF SessionTypes
    <2>5. MutexOK' /\ PathOK' /\ GnomeOnly'
      BY <1>0, <2>1, <2>3 DEF MutexOK, PathOK, GnomeOnly, Inside, Making, unlooked
    <2>6. ClosersOK'
      BY <1>0, <2>1, <2>2 DEF SessionOK, PlacesOK, ClosersOK, Looked, unlooked, N!Closers
    <2>7. N!SharesAreKnown' /\ RevokedOK' /\ LockedOK'
      <3>1. path = 0
        BY <1>0, <2>1 DEF PathOK
      <3>2. N!SharesAreKnown'
        BY <1>0, <1>t, <2>1, <3>1 DEF N!SharesAreKnown
      <3> QED
        BY <2>1, <3>2 DEF RevokedOK, LockedOK, Making
    <2>8. SignalsOK'
      BY <1>0, <2>1 DEF SessionOK, SignalsOK, Returns, unlooked
    <2>9. LateOK'
      BY <1>0, <2>1, <2>2, LateStays DEF unlooked, Looked
    <2> QED
      BY <2>4, <2>5, <2>6, <2>7, <2>8, <2>9 DEF SessionInv, SessionOK, PlacesOK
  <1>4. CASE N!Last
    <2>1. /\ at = "last" /\ closer["request"] = "no" /\ N!Passes /\ state' = "ready" /\ layout' = want /\ at' = "unlock"
          /\ fine' = TRUE /\ UNCHANGED <<job, want, flag, holder, path, shares, made, leaked, missed, generation, began, late>>
          /\ UNCHANGED unlooked
      BY <1>4 DEF N!Last, N!At, N!Checkpoint, N!frame, N!unlooked, unlooked
    <2>2. Looked /\ unlocked /\ ~revoked'
      BY <1>0, <2>1, LooksWell
    <2>3. SessionTypes'
      <3>1. N!WorldTypes' /\ N!WatchTypes'
        BY <1>0, <2>1, <2>2 DEF SessionTypes, N!WorldTypes, N!WatchTypes, Looked, unlooked
      <3>2. N!SessionTypes' /\ N!RequestTypes'
        BY <1>t, <2>1 DEF N!SessionTypes, N!RequestTypes
      <3> QED
        BY <3>1, <3>2 DEF SessionTypes
    <2>4. MutexOK' /\ PathOK' /\ GnomeOnly'
      BY <1>0, <2>1 DEF MutexOK, PathOK, GnomeOnly, Inside, Making, unlooked
    <2>5. ClosersOK'
      BY <1>0, <2>1, <2>2 DEF SessionOK, PlacesOK, ClosersOK, Looked, unlooked, N!Closers
    <2>6. N!SharesAreKnown' /\ RevokedOK' /\ LockedOK'
      BY <1>0, <2>1, <2>2 DEF N!SharesAreKnown, RevokedOK, LockedOK, unlooked
    <2>7. SignalsOK'
      BY <1>0, <2>1 DEF SessionOK, SignalsOK, Returns, unlooked
    <2>8. LateOK'
      BY <1>0, <2>1, <2>2, LateStays DEF unlooked, Looked
    <2> QED
      BY <2>3, <2>4, <2>5, <2>6, <2>7, <2>8 DEF SessionInv, SessionOK, PlacesOK
  <1>5. CASE N!Unlock
    <2>1. /\ at = "unlock" /\ closer["request"] = "no" /\ holder' = FALSE /\ at' \in {"node", "idle"}
          /\ UNCHANGED <<job, want, fine, flag, state, path, layout, shares, made, leaked, missed, generation, began, late>>
          /\ UNCHANGED unlooked /\ UNCHANGED <<turns, revoked, closer>>
      BY <1>5 DEF N!Unlock, N!At, N!Goto, N!world, N!watch, N!frame, unlooked
    <2>2. SessionTypes'
      <3>1. N!WorldTypes' /\ N!WatchTypes'
        BY <1>0, <2>1 DEF SessionTypes, N!WorldTypes, N!WatchTypes, unlooked
      <3>2. N!SessionTypes' /\ N!RequestTypes'
        BY <1>t, <2>1 DEF N!SessionTypes, N!RequestTypes
      <3> QED
        BY <3>1, <3>2 DEF SessionTypes
    <2>3. PlacesOK'
      BY <1>0, <2>1 DEF SessionOK, PlacesOK, MutexOK, PathOK, GnomeOnly, ClosersOK, Inside, Making, unlooked
    <2>4. N!SharesAreKnown' /\ RevokedOK'
      BY <1>0, <2>1 DEF SessionOK, N!SharesAreKnown, RevokedOK, Making
    <2>5. SignalsOK' /\ LockedOK'
      BY <1>0, <2>1 DEF SessionOK, SignalsOK, LockedOK, Returns, Making, unlooked
    <2>6. LateOK'
      BY <1>0, <2>1, LateStays DEF unlooked
    <2> QED
      BY <2>2, <2>3, <2>4, <2>5, <2>6 DEF SessionInv, SessionOK
  <1>6. CASE N!StopSession
    <2>1. /\ at = "stop" /\ closer["request"] = "no" /\ N!LetGo /\ state' = "closed" /\ at' = "idle"
          /\ UNCHANGED <<job, want, fine, flag, holder, layout, made, generation, began, late>>
          /\ UNCHANGED unlooked /\ UNCHANGED <<turns, revoked, closer>>
      BY <1>6 DEF N!StopSession, N!At, N!Goto, N!world, N!watch, N!frame, unlooked
    <2>2. /\ path' = 0 /\ path' \in 0..made' /\ missed' \in BOOLEAN
          /\ shares' \subseteq 1..made' /\ leaked' \subseteq 1..made' /\ N!SharesAreKnown'
      BY <1>0, <2>1, LetsGo DEF SessionTypes
    <2>3. N!SessionTypes'
      BY <1>t, <2>1, <2>2 DEF N!SessionTypes
    <2>4. MutexOK' /\ PathOK' /\ GnomeOnly' /\ at' \in Places /\ at' # "answer"
      BY <1>0, <2>1, <2>2 DEF MutexOK, PathOK, GnomeOnly, Inside, Making, Places, unlooked
    <2>5. Looked
      BY <1>0, <2>1, Unlooked
    <2> QED
      BY <1>0, <1>t, <2>1, <2>2, <2>3, <2>4, <2>5, Emptied
  <1> QED
    BY <1>1, <1>2, <1>3, <1>4, <1>5, <1>6

(* The world and the watchdogs.                                            *)
LEMMA SignalAppended ==
  ASSUME NEW q \in Seq(BOOLEAN), NEW b \in BOOLEAN
  PROVE  /\ Append(q, b) \in Seq(BOOLEAN) /\ Len(Append(q, b)) \in Nat
         /\ Append(q, b)[Len(Append(q, b))] = b /\ (b => \E i \in 1..Len(Append(q, b)) : Append(q, b)[i] = TRUE)
         /\ (\E i \in 1..Len(q) : q[i] = TRUE) => \E i \in 1..Len(Append(q, b)) : Append(q, b)[i] = TRUE
  <1>1. /\ Append(q, b) \in Seq(BOOLEAN) /\ Len(q) \in Nat /\ Len(Append(q, b)) = Len(q) + 1
        /\ \A k \in 1..Len(q) : Append(q, b)[k] = q[k]
        /\ Append(q, b)[Len(q) + 1] = b
    BY AppendProperties, LenProperties
  <1>2. Len(q) + 1 \in 1..(Len(q) + 1) /\ \A k \in 1..Len(q) : k \in 1..(Len(q) + 1)
    BY <1>1
  <1> QED
    BY <1>1, <1>2

LEMMA SignalRead ==
  ASSUME NEW q \in Seq(BOOLEAN), q # <<>>
  PROVE  /\ Head(q) \in BOOLEAN /\ Tail(q) \in Seq(BOOLEAN)
         /\ Tail(q) = <<>> => Head(q) = q[Len(q)]
         /\ Tail(q) # <<>> => Tail(q)[Len(Tail(q))] = q[Len(q)]
         /\ Tail(q) # <<>> /\ Tail(q)[Len(Tail(q))] = TRUE => \E i \in 1..Len(Tail(q)) : Tail(q)[i] = TRUE
         /\ (\E i \in 1..Len(q) : q[i] = TRUE) => (Head(q) = TRUE \/ \E i \in 1..Len(Tail(q)) : Tail(q)[i] = TRUE)
  <1>1. /\ Head(q) \in BOOLEAN /\ Tail(q) \in Seq(BOOLEAN) /\ Len(Tail(q)) = Len(q) - 1 /\ Head(q) = q[1]
        /\ \A k \in 1..Len(Tail(q)) : Tail(q)[k] = q[k + 1]
    BY HeadTailProperties
  <1>2. Len(q) \in Nat /\ Len(q) > 0 /\ (Tail(q) # <<>> => Len(Tail(q)) \in Nat /\ Len(Tail(q)) > 0) /\ (Tail(q) = <<>> => Len(Tail(q)) = 0)
    <2>1. Len(q) \in Nat \ {0} /\ (Tail(q) # <<>> => Len(Tail(q)) \in Nat \ {0})
      BY <1>1, EmptySeq, Zenon
    <2>2. Tail(q) = <<>> => Len(Tail(q)) = 0
      BY EmptySeq
    <2> QED
      BY <2>1, <2>2
  <1>3. ASSUME NEW i \in 1..Len(q), q[i] = TRUE
        PROVE  Head(q) = TRUE \/ \E j \in 1..Len(Tail(q)) : Tail(q)[j] = TRUE
    <2>1. CASE i = 1
      BY <1>1, <1>3, <2>1
    <2>2. CASE i # 1
      <3>1. i - 1 \in 1..Len(Tail(q)) /\ Tail(q)[i - 1] = q[i]
        BY <1>1, <1>2, <2>2
      <3> QED
        BY <1>3, <3>1
    <2> QED
      BY <2>1, <2>2
  <1>4. Tail(q) = <<>> => Head(q) = q[Len(q)]
    BY <1>1, <1>2
  <1>5. Tail(q) # <<>> => Len(Tail(q)) \in 1..Len(Tail(q)) /\ Tail(q)[Len(Tail(q))] = q[Len(q)]
    BY <1>1, <1>2
  <1> QED
    BY <1>1, <1>3, <1>4, <1>5

LEMMA NextChange ==
  ASSUME SessionInv, N!Change
  PROVE  SessionInv'
  <1>0. SessionTypes /\ SessionOK /\ LateOK
    BY DEF SessionInv
  <1>1. /\ turns < MaxTurns /\ turns' = turns + 1 /\ UNCHANGED <<system, generation, began, job, want, at, fine>>
        /\ UNCHANGED sessionvars /\ UNCHANGED <<revoked, wasUnlocked, closer, blinked>>
        /\ late' = (late /\ ~(granted' /\ unlocked' /\ ~revoked))
    BY DEF N!Change, N!watch, N!session, N!request, sessionvars
  <1>2. /\ granted \in BOOLEAN /\ unlocked \in BOOLEAN /\ signals \in Seq(BOOLEAN) /\ wasUnlocked \in BOOLEAN /\ late \in BOOLEAN
        /\ system \in Systems /\ turns \in 0..MaxTurns
    BY <1>0 DEF SessionTypes, N!WorldTypes, N!WatchTypes, N!RequestTypes
  <1>3. turns' \in 0..MaxTurns
    BY <1>1, <1>2, SessionConstants
  <1>4. late' \in BOOLEAN /\ LateOK'
    <2>1. late' \in BOOLEAN
      BY <1>1, Zenon
    <2>2. late' => late /\ ~(granted' /\ unlocked' /\ ~revoked')
      BY <1>1
    <2>3. at = "answer" => ~late
      BY <1>0 DEF LateOK, N!FramesUnderGrant
    <2> QED
      BY <1>1, <2>1, <2>2, <2>3 DEF LateOK, N!FramesUnderGrant
  <1>5. PlacesOK' /\ N!SharesAreKnown' /\ RevokedOK'
    BY <1>0, <1>1 DEF SessionOK, PlacesOK, MutexOK, PathOK, GnomeOnly, ClosersOK, N!SharesAreKnown, RevokedOK,
       sessionvars
  <1>6. N!WatchTypes' /\ N!SessionTypes' /\ N!RequestTypes'
    BY <1>0, <1>1, <1>4 DEF SessionTypes, N!WatchTypes, N!SessionTypes, N!RequestTypes, sessionvars
  <1>7. CASE granted' = ~granted /\ UNCHANGED <<unlocked, signals>>
    <2>1. granted' \in BOOLEAN
      BY <1>7, Zenon
    <2>2. N!WorldTypes'
      BY <1>1, <1>2, <1>3, <1>7, <2>1 DEF N!WorldTypes
    <2>3. SignalsOK' /\ LockedOK'
      BY <1>0, <1>1, <1>7 DEF SessionOK, SignalsOK, LockedOK, Returns, sessionvars
    <2> QED
      BY <1>4, <1>5, <1>6, <2>2, <2>3 DEF SessionInv, SessionTypes, SessionOK
  <1>8. CASE unlocked' = ~unlocked /\ UNCHANGED granted /\ signals' = IF system = "hyprland" THEN signals ELSE Append(signals, ~unlocked)
    <2>1. unlocked' \in BOOLEAN
      BY <1>8, Zenon
    <2>2. system # "hyprland" => signals' = Append(signals, unlocked')
      BY <1>8
    <2>3. signals' \in Seq(BOOLEAN)
      BY <1>2, <1>8, <2>1, <2>2, SignalAppended
    <2>4. N!WorldTypes'
      BY <1>1, <1>2, <1>3, <1>8, <2>1, <2>3 DEF N!WorldTypes
    <2>5. system # "hyprland" => signals'[Len(signals')] = unlocked' /\ (unlocked' => Returns') /\ (Returns => Returns')
      BY <1>2, <2>1, <2>2, SignalAppended DEF Returns
    <2>6. SignalsOK'
      BY <1>1, <2>5 DEF SignalsOK
    <2>7. LockedOK'
      <3>1. path # 0 => system # "hyprland"
        BY <1>0 DEF SessionOK, PlacesOK, GnomeOnly
      <3>2. unlocked /\ ~wasUnlocked /\ system # "hyprland" => blinked \/ Returns
        BY <1>0 DEF SessionOK, SignalsOK
      <3>3. unlocked' <=> ~unlocked
        BY <1>8
      <3> QED
        BY <1>1, <2>5, <3>1, <3>2, <3>3 DEF LockedOK, sessionvars
    <2> QED
      BY <1>4, <1>5, <1>6, <2>4, <2>6, <2>7 DEF SessionInv, SessionTypes, SessionOK
  <1> QED
    BY <1>7, <1>8 DEF N!Change

LEMMA NextWatch ==
  ASSUME SessionInv, N!LeaseWatchdog \/ N!ScreenSignal \/ N!ScreenLook
  PROVE  SessionInv'
  <1>0. SessionTypes /\ SessionOK /\ LateOK
    BY DEF SessionInv
  <1>t. /\ signals \in Seq(BOOLEAN) /\ turns \in 0..MaxTurns /\ wasUnlocked \in BOOLEAN /\ blinked \in BOOLEAN /\ unlocked \in BOOLEAN
        /\ closer \in [N!Closers -> {"no", "raise", "close"}]
    BY <1>0 DEF SessionTypes, N!WorldTypes, N!WatchTypes
  <1>1. /\ UNCHANGED <<system, granted, unlocked, generation, began, late, job, want, at, fine>> /\ UNCHANGED sessionvars
    BY DEF N!LeaseWatchdog, N!ScreenSignal, N!ScreenLook, N!ScreenSees, N!world, N!session, N!frame,
       N!request, sessionvars
  <1>2. N!SessionTypes' /\ N!RequestTypes'
    BY <1>0, <1>1 DEF SessionTypes, N!SessionTypes, N!RequestTypes, sessionvars
  <1>3. MutexOK' /\ PathOK' /\ GnomeOnly' /\ N!SharesAreKnown'
    BY <1>0, <1>1 DEF SessionOK, PlacesOK, MutexOK, PathOK, GnomeOnly, N!SharesAreKnown, sessionvars
  <1>4. CASE N!LeaseWatchdog
    <2>1. /\ ~revoked /\ revoked' = TRUE /\ UNCHANGED <<turns, signals, wasUnlocked, blinked>>
          /\ closer' = [closer EXCEPT !["lease"] = IF system = "kde" THEN "no" ELSE "raise"]
      BY <1>4 DEF N!LeaseWatchdog, N!StartClosing, N!world
    <2>2. closer' \in [N!Closers -> {"no", "raise", "close"}]
      BY <1>t, <2>1 DEF N!Closers
    <2>3. N!WorldTypes' /\ N!WatchTypes'
      BY <1>0, <1>1, <2>1, <2>2 DEF SessionTypes, N!WorldTypes, N!WatchTypes
    <2>4. ClosersOK'
      BY <1>0, <1>1, <1>t, <2>1 DEF SessionOK, PlacesOK, ClosersOK, N!Closers
    <2>5. path # 0 => closer'["lease"] # "no"
      BY <1>0, <1>t, <2>1 DEF SessionOK, PlacesOK, GnomeOnly, N!Closers
    <2>6. closer'["screen"] = closer["screen"]
      BY <1>t, <2>1 DEF N!Closers
    <2>7. RevokedOK' /\ SignalsOK' /\ LockedOK'
      BY <1>0, <1>1, <2>1, <2>5, <2>6 DEF SessionOK, RevokedOK, SignalsOK, LockedOK, Returns, sessionvars
    <2>8. LateOK'
      BY <1>0, <1>1, <2>1 DEF LateOK, N!FramesUnderGrant
    <2> QED
      BY <1>2, <1>3, <2>3, <2>4, <2>7, <2>8 DEF SessionInv, SessionTypes, SessionOK, PlacesOK
  <1>5. ASSUME NEW look \in BOOLEAN, N!ScreenSees(look), closer["screen"] = "no"
        PROVE  /\ wasUnlocked' = look /\ revoked' = revoked
               /\ closer' \in [N!Closers -> {"no", "raise", "close"}] /\ ClosersOK' /\ RevokedOK' /\ LateOK'
               /\ path # 0 /\ wasUnlocked /\ ~look => closer'["screen"] # "no"
    <2>1. wasUnlocked' = look /\ revoked' = revoked
      BY <1>5 DEF N!ScreenSees
    <2>2. \/ closer' = closer /\ ~(wasUnlocked /\ ~look)
          \/ closer' = [closer EXCEPT !["screen"] = IF system = "kde" THEN "no" ELSE "raise"]
      BY <1>5 DEF N!ScreenSees, N!StartClosing
    <2>3. closer' \in [N!Closers -> {"no", "raise", "close"}]
      BY <1>t, <2>2 DEF N!Closers
    <2>4. ClosersOK'
      BY <1>0, <1>1, <1>t, <2>2 DEF SessionOK, PlacesOK, ClosersOK, N!Closers
    <2>5. path # 0 /\ wasUnlocked /\ ~look => closer'["screen"] # "no"
      BY <1>0, <1>t, <2>2 DEF SessionOK, PlacesOK, GnomeOnly, N!Closers
    <2>6. closer'["lease"] = closer["lease"] /\ closer'["request"] = closer["request"]
      BY <1>t, <2>2 DEF N!Closers
    <2>7. RevokedOK' /\ LateOK'
      BY <1>0, <1>1, <2>1, <2>6 DEF SessionOK, RevokedOK, LateOK, N!FramesUnderGrant, sessionvars
    <2> QED
      BY <2>1, <2>3, <2>4, <2>5, <2>7
  <1>6. CASE N!ScreenSignal
    <2>1. /\ closer["screen"] = "no" /\ signals # <<>> /\ signals' = Tail(signals) /\ N!ScreenSees(Head(signals))
          /\ blinked' = (blinked /\ ~Head(signals)) /\ turns' = turns
      BY <1>6 DEF N!ScreenSignal
    <2>2. Head(signals) \in BOOLEAN /\ signals' \in Seq(BOOLEAN)
      BY <1>t, <2>1, SignalRead
    <2>3. /\ wasUnlocked' = Head(signals) /\ revoked' = revoked
          /\ closer' \in [N!Closers -> {"no", "raise", "close"}] /\ ClosersOK' /\ RevokedOK' /\ LateOK'
          /\ path # 0 /\ wasUnlocked /\ ~Head(signals) => closer'["screen"] # "no"
      BY <1>5, <2>1, <2>2
    <2>4. blinked' \in BOOLEAN
      BY <2>1, Zenon
    <2>5. N!WorldTypes' /\ N!WatchTypes'
      BY <1>0, <1>1, <2>1, <2>2, <2>3, <2>4 DEF SessionTypes, N!WorldTypes, N!WatchTypes
    <2>6. SignalsOK'
      <3>1. SUFFICES ASSUME system # "hyprland"
                     PROVE  /\ signals' # <<>> => signals'[Len(signals')] = unlocked
                            /\ ~wasUnlocked' /\ unlocked => blinked' \/ Returns'
        BY <1>1 DEF SignalsOK
      <3>2. signals[Len(signals)] = unlocked
        BY <1>0, <2>1, <3>1 DEF SessionOK, SignalsOK
      <3>3. /\ signals' = <<>> => Head(signals) = unlocked
            /\ signals' # <<>> => signals'[Len(signals')] = unlocked
            /\ signals' # <<>> /\ unlocked = TRUE => Returns'
        BY <1>t, <2>1, <3>2, SignalRead DEF Returns
      <3> QED
        BY <1>t, <2>3, <3>3
    <2>7. LockedOK'
      <3>1. SUFFICES ASSUME path # 0, ~wasUnlocked', ~unlocked, ~Returns', closer'["screen"] = "no"
                     PROVE  missed \/ blinked' \/ at \in Making
        BY <1>1 DEF LockedOK, sessionvars
      <3>2. ~Head(signals) /\ ~wasUnlocked
        BY <1>t, <2>3, <3>1
      <3>3. ~Returns
        BY <1>t, <2>1, <3>1, <3>2, SignalRead DEF Returns
      <3> QED
        BY <1>0, <2>1, <3>1, <3>2, <3>3 DEF SessionOK, LockedOK
    <2> QED
      BY <1>2, <1>3, <2>3, <2>5, <2>6, <2>7 DEF SessionInv, SessionTypes, SessionOK, PlacesOK
  <1>7. CASE N!ScreenLook
    <2>1. /\ closer["screen"] = "no" /\ signals = <<>> /\ signals' = signals
          /\ \/ N!ScreenSees(unlocked) /\ blinked' = (blinked /\ ~unlocked) /\ turns' = turns
             \/ unlocked /\ N!ScreenSees(FALSE) /\ blinked' = TRUE /\ turns < MaxTurns /\ turns' = turns + 1
      BY <1>7 DEF N!ScreenLook
    <2>2. PICK look \in BOOLEAN :
             N!ScreenSees(look) /\ \/ look = unlocked /\ blinked' = (blinked /\ ~unlocked)
                                   \/ unlocked /\ look = FALSE /\ blinked' = TRUE
      BY <1>t, <2>1
    <2>3. /\ wasUnlocked' = look /\ revoked' = revoked
          /\ closer' \in [N!Closers -> {"no", "raise", "close"}] /\ ClosersOK' /\ RevokedOK' /\ LateOK'
          /\ path # 0 /\ wasUnlocked /\ ~look => closer'["screen"] # "no"
      BY <1>5, <2>1, <2>2
    <2>4. blinked' \in BOOLEAN
      BY <2>2, Zenon
    <2>5. turns' \in 0..MaxTurns
      <3>1. turns' = turns \/ (turns < MaxTurns /\ turns' = turns + 1)
        BY <2>1, Zenon
      <3> QED
        BY <1>t, <3>1, SessionConstants
    <2>6. N!WorldTypes' /\ N!WatchTypes'
      BY <1>0, <1>1, <2>1, <2>3, <2>4, <2>5 DEF SessionTypes, N!WorldTypes, N!WatchTypes
    <2>7. SignalsOK'
      BY <1>1, <1>t, <2>1, <2>2, <2>3 DEF SignalsOK
    <2>8. LockedOK'
      <3>1. SUFFICES ASSUME path # 0, ~wasUnlocked', ~unlocked, closer'["screen"] = "no"
                     PROVE  missed \/ blinked' \/ at \in Making
        BY <1>1 DEF LockedOK, sessionvars
      <3>2. ~wasUnlocked /\ (blinked => blinked')
        BY <1>t, <2>2, <2>3, <3>1
      <3>3. ~Returns
        BY <2>1 DEF Returns
      <3> QED
        BY <1>0, <2>1, <3>1, <3>2, <3>3 DEF SessionOK, LockedOK
    <2> QED
      BY <1>2, <1>3, <2>3, <2>6, <2>7, <2>8 DEF SessionInv, SessionTypes, SessionOK, PlacesOK
  <1> QED
    BY <1>4, <1>6, <1>7

(* close_fail_closed: a close that finds the mutex taken leaves it to the  *)
(* request to look again, or comes too late for it.                        *)
LEMMA NextClosing ==
  ASSUME SessionInv, NEW t \in N!Closers, N!Raise(t) \/ N!CloseSession(t)
  PROVE  SessionInv'
  <1>0. SessionTypes /\ SessionOK /\ LateOK /\ MutexOK /\ PathOK /\ GnomeOnly /\ ClosersOK
    BY DEF SessionInv, SessionOK, PlacesOK
  <1>t. /\ closer \in [N!Closers -> {"no", "raise", "close"}] /\ generation \in Nat /\ missed \in BOOLEAN /\ made \in Nat
    BY <1>0, SessionConstants DEF SessionTypes, N!WatchTypes, N!RequestTypes, N!SessionTypes
  <1>1. /\ UNCHANGED <<system, granted, unlocked, signals, turns, revoked, wasUnlocked, blinked>>
        /\ UNCHANGED <<began, late, job, want, at, fine, holder, layout, made>>
    BY DEF N!Raise, N!CloseSession, N!world, N!frame, N!request
  <1>2. N!WorldTypes' /\ SignalsOK' /\ LateOK'
    BY <1>0, <1>1 DEF SessionTypes, N!WorldTypes, SessionOK, SignalsOK, Returns, LateOK, N!FramesUnderGrant
  <1>3. CASE N!Raise(t)
    <2>1. /\ closer[t] = "raise" /\ UNCHANGED <<state, path, shares, leaked, missed>>
          /\ \/ system = "hyprland" /\ closer' = [closer EXCEPT ![t] = "no"] /\ generation' = generation + 1 /\ flag' = flag
             \/ system # "hyprland" /\ closer' = [closer EXCEPT ![t] = "close"] /\ generation' = generation /\ flag' = TRUE
      BY <1>3 DEF N!Raise
    <2>2. SessionTypes'
      <3>1. closer' \in [N!Closers -> {"no", "raise", "close"}]
        BY <1>t, <2>1
      <3>2. N!WatchTypes'
        BY <1>0, <1>1, <3>1 DEF SessionTypes, N!WatchTypes
      <3>3. N!SessionTypes'
        BY <1>0, <1>1, <2>1 DEF SessionTypes, N!SessionTypes
      <3>4. N!RequestTypes'
        BY <1>0, <1>1, <1>t, <2>1 DEF SessionTypes, N!RequestTypes
      <3> QED
        BY <1>2, <3>2, <3>3, <3>4 DEF SessionTypes
    <2>3. MutexOK' /\ PathOK' /\ GnomeOnly' /\ N!SharesAreKnown'
      BY <1>0, <1>1, <2>1 DEF SessionOK, MutexOK, PathOK, GnomeOnly, N!SharesAreKnown
    <2>4. system # "kde" /\ system \in {"gnome", "kde", "hyprland"}
      BY <1>0, <2>1, SessionConstants DEF ClosersOK, SessionTypes, N!WorldTypes
    <2>5. ClosersOK'
      BY <1>0, <1>1, <1>t, <2>1, <2>4 DEF ClosersOK
    <2>6. path # 0 => \A u \in N!Closers : closer[u] # "no" => closer'[u] # "no"
      BY <1>0, <1>t, <2>1 DEF GnomeOnly
    <2>7. path # 0 => (closer["lease"] # "no" => closer'["lease"] # "no") /\ (closer["request"] # "no" => closer'["request"] # "no")
                      /\ (closer["screen"] # "no" => closer'["screen"] # "no")
      BY <2>6 DEF N!Closers
    <2>8. RevokedOK' /\ LockedOK'
      BY <1>0, <1>1, <2>1, <2>7 DEF SessionOK, RevokedOK, LockedOK, Returns
    <2> QED
      BY <1>2, <2>2, <2>3, <2>5, <2>8 DEF SessionInv, SessionOK, PlacesOK
  <1>4. CASE N!CloseSession(t)
    <2>1. closer[t] = "close" /\ closer' = [closer EXCEPT ![t] = "no"] /\ UNCHANGED <<flag, generation>>
      BY <1>4 DEF N!CloseSession, N!frame
    <2>2. closer' \in [N!Closers -> {"no", "raise", "close"}]
      BY <1>t, <2>1
    <2>3. N!WatchTypes' /\ N!RequestTypes' /\ ClosersOK'
      BY <1>0, <1>1, <1>t, <2>1, <2>2 DEF SessionTypes, N!WatchTypes, N!RequestTypes, ClosersOK
    <2>4. CASE holder
      <3>1. missed' = (missed \/ (at = "unlock" /\ path # 0)) /\ UNCHANGED <<state, path, shares, leaked>>
        BY <1>4, <2>4 DEF N!CloseSession
      <3>2. missed' \in BOOLEAN
        BY <3>1, Zenon
      <3>3. N!SessionTypes'
        BY <1>0, <1>1, <2>1, <3>1, <3>2 DEF SessionTypes, N!SessionTypes
      <3>4. MutexOK' /\ PathOK' /\ GnomeOnly' /\ N!SharesAreKnown'
        BY <1>0, <1>1, <3>1 DEF SessionOK, MutexOK, PathOK, GnomeOnly, N!SharesAreKnown
      <3>5. path # 0 => missed' \/ at \in Making
        BY <1>0, <2>4, <3>1 DEF MutexOK, PathOK, Inside
      <3>6. RevokedOK' /\ LockedOK'
        BY <1>1, <3>1, <3>5 DEF RevokedOK, LockedOK
      <3> QED
        BY <1>2, <2>3, <3>3, <3>4, <3>6 DEF SessionInv, SessionTypes, SessionOK, PlacesOK
    <2>5. CASE ~holder
      <3>1. N!LetGo /\ state' = "closed"
        BY <1>4, <2>5 DEF N!CloseSession
      <3>2. /\ path' = 0 /\ path' \in 0..made' /\ missed' \in BOOLEAN
            /\ shares' \subseteq 1..made' /\ leaked' \subseteq 1..made' /\ N!SharesAreKnown'
        BY <1>0, <1>1, <3>1, LetsGo DEF SessionTypes, SessionOK
      <3>3. N!SessionTypes'
        BY <1>0, <1>1, <2>1, <3>1, <3>2 DEF SessionTypes, N!SessionTypes
      <3>4. MutexOK' /\ PathOK' /\ GnomeOnly'
        BY <1>0, <1>1, <2>5, <3>1, <3>2 DEF MutexOK, PathOK, GnomeOnly, Inside
      <3>5. RevokedOK' /\ LockedOK'
        BY <3>2 DEF RevokedOK, LockedOK
      <3> QED
        BY <1>2, <2>3, <3>2, <3>3, <3>4, <3>5 DEF SessionInv, SessionTypes, SessionOK, PlacesOK
    <2> QED
      BY <2>4, <2>5
  <1> QED
    BY <1>3, <1>4

LEMMA NextSession ==
  ASSUME SessionInv, [N!Next]_nvars
  PROVE  SessionInv'
  <1>1. CASE UNCHANGED nvars
    <2>1. SessionTypes'
      <3>1. N!WorldTypes'
        BY <1>1 DEF SessionInv, SessionTypes, N!WorldTypes, nvars
      <3>2. N!WatchTypes'
        BY <1>1 DEF SessionInv, SessionTypes, N!WatchTypes, nvars
      <3>3. N!SessionTypes'
        BY <1>1 DEF SessionInv, SessionTypes, N!SessionTypes, nvars
      <3>4. N!RequestTypes'
        BY <1>1 DEF SessionInv, SessionTypes, N!RequestTypes, nvars
      <3> QED
        BY <3>1, <3>2, <3>3, <3>4 DEF SessionTypes
    <2>2. PlacesOK'
      BY <1>1 DEF SessionInv, SessionOK, PlacesOK, MutexOK, PathOK, GnomeOnly, ClosersOK, nvars
    <2>3. N!SharesAreKnown' /\ RevokedOK'
      BY <1>1 DEF SessionInv, SessionOK, N!SharesAreKnown, RevokedOK, nvars
    <2>4. SignalsOK' /\ LockedOK'
      BY <1>1 DEF SessionInv, SessionOK, SignalsOK, LockedOK, Returns, nvars
    <2>5. LateOK'
      BY <1>1 DEF SessionInv, LateOK, N!FramesUnderGrant, nvars
    <2> QED
      BY <2>1, <2>2, <2>3, <2>4, <2>5 DEF SessionInv, SessionOK
  <1>2. CASE N!Open
    BY <1>2, NextOpen, RequestWalks, Zenon DEF N!Open
  <1>3. CASE N!Capture
    BY <1>3, NextOpen, FrameWalks, Zenon DEF N!Capture
  <1>4. CASE N!Change \/ N!LeaseWatchdog \/ N!ScreenSignal \/ N!ScreenLook
    BY <1>4, NextChange, NextWatch, Zenon
  <1>5. CASE N!Begin \/ N!Turned \/ N!First \/ N!Again
    BY <1>5, RequestWalks, Zenon
  <1> QED
    BY <1>1, <1>2, <1>3, <1>4, <1>5, NextClosing, Zenon DEF N!Next

(* What is promised of the session follows.                                *)
LEMMA SessionPromises ==
  ASSUME SessionInv
  PROVE  N!TypeOK /\ N!SharesAreKnown /\ N!RevokedShareEnds /\ N!LockedShareEnds /\ N!FramesUnderGrant
  <1>1. N!TypeOK
    BY DEF SessionInv, SessionTypes, N!TypeOK
  <1>2. N!RevokedShareEnds
    BY DEF SessionInv, SessionOK, RevokedOK, N!RevokedShareEnds, N!Quiet, N!Closers, Making
  <1>3. N!LockedShareEnds
    <2>1. signals = <<>> => ~Returns
      BY DEF Returns
    <2> QED
      BY <2>1 DEF SessionInv, SessionOK, LockedOK, N!LockedShareEnds, N!Quiet, N!Closers, Making
  <1> QED
    BY <1>1, <1>2, <1>3 DEF SessionInv, SessionOK, LateOK
-----------------------------------------------------------------------------
(* The stream of one capture.  If the loop had nothing left to do when the *)
(* capture began, everything in it is of the node that was asked for.      *)
StreamAsked == ~lagging /\ stream.ok => stream.node = asked
CommandsAsked == ~lagging => \A i \in 1..Len(commands) : commands[i].op = "attach" => commands[i].node = asked
EventsAsked == ~lagging => \A i \in 1..Len(events) : events[i].kind = "fresh" => events[i].node = asked
AllAsked == StreamAsked /\ CommandsAsked /\ EventsAsked /\ P!FrameIsOfItsScreen

(* A command that the worker waits for is the last one, and not answered   *)
(* yet.                                                                    *)
Waits(op) == reply = "none" /\ step = IF op = "attach" THEN "attaching" ELSE "detaching"

HeardOK ==
    /\ \A i \in 1..Len(commands) : commands[i].heard => i = Len(commands) /\ Waits(commands[i].op) /\ ~outgoing.heard
    /\ outgoing.heard => reply = "none" /\ step \in {"attaching", "detaching"}

(* A stream that the worker waited for is attached, or about to be         *)
(* detached.                                                               *)
DetachComes == \E i \in 1..Len(commands) : commands[i].op = "detach"
ReleasedOK ==
    stream.ok /\ stream.heard => DetachComes \/ (attached /\ step \in {"attaching", "collect", "detach"})

WorkerTypes ==
    /\ current \in 1..(MaxSessions + 1) /\ live \subseteq P!Nodes
    /\ asked \in P!Nodes \cup {NoNode} /\ got \in P!Nodes \cup {NoNode}
    /\ step \in {"idle", "attach", "send", "attaching", "collect", "detach", "detaching", "done", "answer", "stop"}
    /\ reply \in {"none", "ok", "failed"} /\ giveUps \in 0..MaxGiveUps /\ lagging \in BOOLEAN
    /\ step # "idle" => asked # NoNode
Kinds == [node : P!Nodes, kind : {"fresh", "stale", "error"}]
EventTypes == events \in Seq(Kinds) /\ Len(events) <= 2
CommandTypes == commands \in Seq(P!Commands)
LoopTypes ==
    /\ outgoing \in [outcome : {"none", "ok", "failed"}, heard : BOOLEAN]
    /\ stream \in [node : P!Nodes \cup {NoNode}, ok : BOOLEAN, heard : BOOLEAN] /\ (stream.ok => stream.node # NoNode)
    /\ attached \in BOOLEAN

StreamTypes == WorkerTypes /\ EventTypes /\ CommandTypes /\ LoopTypes
StreamInv == StreamTypes /\ AllAsked /\ HeardOK /\ ReleasedOK

LEMMA StreamConstants == Screens # {} /\ MaxSessions \in Nat /\ MaxGiveUps \in Nat /\ NoNode \notin P!Nodes
  <1>1. P!Nodes \subseteq Nat \X Screens
    BY DEF P!Nodes
  <1> QED
    BY <1>1, CaptureAssumption DEF P!FrameSourceAssumption

LEMMA StreamStarts == P!Init => StreamInv
  <1> SUFFICES ASSUME P!Init
               PROVE  StreamInv
    OBVIOUS
  <1> USE StreamConstants
  <1>1. WorkerTypes
    <2>1. 1 \in 1..(MaxSessions + 1) /\ 0 \in 0..MaxGiveUps
      OBVIOUS
    <2> QED
      BY <2>1 DEF P!Init, WorkerTypes
  <1>2. events \in Seq(Kinds) /\ Len(events) = 0 /\ commands \in Seq(P!Commands) /\ Len(commands) = 0
    BY EmptySeq DEF P!Init
  <1>3. LoopTypes
    BY DEF P!Init, LoopTypes, P!NoStream, P!NothingDue
  <1>4. AllAsked /\ HeardOK /\ ReleasedOK
    BY <1>2 DEF P!Init, AllAsked, StreamAsked, CommandsAsked, EventsAsked, P!FrameIsOfItsScreen, HeardOK,
       ReleasedOK, P!NoStream, P!NothingDue
  <1> QED
    BY <1>1, <1>2, <1>3, <1>4 DEF StreamInv, StreamTypes, EventTypes, CommandTypes

(* What becomes of a queue.                                                *)
LEMMA QueueGrows ==
  ASSUME NEW Elem, NEW q \in Seq(Elem), NEW c \in Elem
  PROVE  /\ Append(q, c) \in Seq(Elem) /\ Len(q) \in Nat /\ Len(Append(q, c)) = Len(q) + 1
         /\ \A k \in 1..Len(q) : Append(q, c)[k] = q[k] /\ k \in 1..(Len(q) + 1) /\ k # Len(q) + 1
         /\ Append(q, c)[Len(q) + 1] = c /\ Len(q) + 1 \in 1..(Len(q) + 1)
         /\ \A k \in 1..(Len(q) + 1) : k \in 1..Len(q) \/ k = Len(q) + 1
  <1>1. Append(q, c) \in Seq(Elem) /\ Len(Append(q, c)) = Len(q) + 1 /\ Len(q) \in Nat
    BY AppendProperties, LenProperties
  <1>2. (\A k \in 1..Len(q) : Append(q, c)[k] = q[k]) /\ Append(q, c)[Len(q) + 1] = c
    BY AppendProperties
  <1> QED
    BY <1>1, <1>2

LEMMA QueueShrinks ==
  ASSUME NEW Elem, NEW q \in Seq(Elem), q # <<>>
  PROVE  /\ Head(q) \in Elem /\ Tail(q) \in Seq(Elem) /\ Len(q) \in Nat /\ Len(Tail(q)) = Len(q) - 1
         /\ Head(q) = q[1] /\ 1 \in 1..Len(q)
         /\ \A k \in 1..Len(Tail(q)) : Tail(q)[k] = q[k + 1] /\ k + 1 \in 1..Len(q) /\ k + 1 # 1
         /\ \A k \in 1..Len(q) : k = 1 \/ (k - 1 \in 1..Len(Tail(q)) /\ Tail(q)[k - 1] = q[k])
  <1>1. /\ Head(q) \in Elem /\ Tail(q) \in Seq(Elem) /\ Len(Tail(q)) = Len(q) - 1 /\ Head(q) = q[1]
        /\ \A k \in 1..Len(Tail(q)) : Tail(q)[k] = q[k + 1]
    BY HeadTailProperties
  <1>2. Len(q) \in Nat \ {0}
    BY EmptySeq, Zenon
  <1> QED
    BY <1>1, <1>2

LEMMA Remade ==
  ASSUME NEW Elem, NEW n \in Nat, NEW f \in [1..n -> Elem]
  PROVE  f \in Seq(Elem) /\ Len(f) = n
  OBVIOUS

(* A step of the worker that sends nothing.  Only an answered command may  *)
(* be left, and an attached stream only to be detached.                    *)
Held == {"attaching", "collect", "detach"}

LEMMA WorkerStep ==
  ASSUME StreamInv, UNCHANGED <<commands, outgoing, stream, attached, asked, lagging>>,
         WorkerTypes', EventTypes', EventsAsked', P!FrameIsOfItsScreen',
         (step' = step /\ reply' = reply) \/ step \notin {"attaching", "detaching"} \/ reply # "none",
         attached /\ step \in Held => step' \in Held
  PROVE  StreamInv'
  <1>1. StreamTypes'
    BY DEF StreamInv, StreamTypes, CommandTypes, LoopTypes
  <1>2. AllAsked'
    BY DEF StreamInv, AllAsked, StreamAsked, CommandsAsked
  <1>3. HeardOK'
    <2>1. CASE step' = step /\ reply' = reply
      BY <2>1 DEF StreamInv, HeardOK, Waits
    <2>2. CASE step \notin {"attaching", "detaching"} \/ reply # "none"
      <3>1. ~outgoing.heard /\ \A i \in 1..Len(commands) : ~commands[i].heard
        BY <2>2 DEF StreamInv, HeardOK, Waits
      <3> QED
        BY <3>1 DEF HeardOK
    <2> QED
      BY <2>1, <2>2
  <1>4. ReleasedOK'
    BY DEF StreamInv, ReleasedOK, DetachComes, Held
  <1> QED
    BY <1>1, <1>2, <1>3, <1>4 DEF StreamInv

LEMMA NoEvents ==
  ASSUME events' = <<>>
  PROVE  EventTypes' /\ EventsAsked'
  <1>1. events' \in Seq(Kinds) /\ Len(events') = 0
    BY EmptySeq
  <1> QED
    BY <1>1 DEF EventTypes, EventsAsked

LEMMA SameEvents ==
  ASSUME StreamInv, UNCHANGED <<events, asked, lagging>>
  PROVE  EventTypes' /\ EventsAsked'
  BY DEF StreamInv, StreamTypes, EventTypes, AllAsked, EventsAsked

LEMMA WorkerGoesOn ==
  ASSUME StreamInv,
         \/ P!Refused \/ P!ClearEvents \/ P!Attached \/ P!TakeFrame \/ P!CollectFails \/ P!Answer \/ P!Answered
         \/ P!StopShare \/ P!ShareStopped
  PROVE  StreamInv'
  <1> USE StreamConstants
  <1>0. WorkerTypes /\ EventTypes /\ EventsAsked /\ P!FrameIsOfItsScreen
    BY DEF StreamInv, StreamTypes, AllAsked
  <1>1. CASE P!Refused \/ P!Attached \/ P!CollectFails \/ P!Answer \/ P!Answered
    <2>1. /\ UNCHANGED <<commands, outgoing, stream, attached, asked, lagging, events, current, live, reply, giveUps>>
          /\ got' \in {got, NoNode}
      BY <1>1 DEF P!Refused, P!Fail, P!Attached, P!CollectFails, P!Answer, P!Answered, P!loopvars
    <2>2. WorkerTypes'
      BY <1>0, <1>1, <2>1 DEF WorkerTypes, P!Refused, P!Fail, P!Attached, P!CollectFails, P!Answer, P!Answered
    <2>3. P!FrameIsOfItsScreen'
      BY <1>0, <2>1 DEF P!FrameIsOfItsScreen
    <2>4. /\ step \notin {"attaching", "detaching"} \/ reply # "none"
          /\ step \in Held => step' \in Held
      BY <1>1 DEF P!Refused, P!Fail, P!Attached, P!CollectFails, P!Answer, P!Answered, Held
    <2> QED
      BY <2>1, <2>2, <2>3, <2>4, SameEvents, WorkerStep
  <1>2. CASE P!ClearEvents
    <2>1. /\ UNCHANGED <<commands, outgoing, stream, attached, asked, lagging, current, live, reply, got, giveUps>>
          /\ events' = <<>> /\ step = "attach" /\ step' = "send"
      BY <1>2 DEF P!ClearEvents, P!loopvars
    <2>2. WorkerTypes' /\ P!FrameIsOfItsScreen'
      BY <1>0, <2>1 DEF WorkerTypes, P!FrameIsOfItsScreen
    <2> QED
      BY <2>1, <2>2, NoEvents, WorkerStep DEF Held
  <1>3. CASE P!TakeFrame
    <2>1. /\ UNCHANGED <<commands, outgoing, stream, attached, asked, lagging, current, live, reply, giveUps>>
          /\ events # <<>> /\ events' = Tail(events) /\ step = "collect" /\ step' \in {"collect", "detach"}
          /\ got' = got \/ (Head(events).kind = "fresh" /\ got' = Head(events).node)
      <3>1. /\ UNCHANGED <<commands, outgoing, stream, attached, asked, lagging, current, live, reply, giveUps>>
            /\ events # <<>> /\ events' = Tail(events) /\ step = "collect"
        BY <1>3 DEF P!TakeFrame, P!loopvars
      <3>2. Head(events) \in Kinds
        BY <1>0, <3>1, QueueShrinks DEF EventTypes
      <3>3. Head(events).kind \in {"fresh", "stale", "error"}
        BY <3>2 DEF Kinds
      <3> QED
        BY <1>3, <3>1, <3>3 DEF P!TakeFrame
    <2>2. /\ Head(events) \in Kinds /\ Tail(events) \in Seq(Kinds) /\ Len(events) \in Nat /\ Len(Tail(events)) = Len(events) - 1
          /\ Head(events) = events[1] /\ 1 \in 1..Len(events)
          /\ \A k \in 1..Len(Tail(events)) : Tail(events)[k] = events[k + 1] /\ k + 1 \in 1..Len(events)
      BY <1>0, <2>1, QueueShrinks DEF EventTypes
    <2>3. EventTypes' /\ EventsAsked'
      BY <1>0, <2>1, <2>2 DEF EventTypes, EventsAsked
    <2>4. Head(events).node \in P!Nodes
      BY <2>2 DEF Kinds
    <2>5. WorkerTypes'
      BY <1>0, <2>1, <2>4 DEF WorkerTypes
    <2>6. P!FrameIsOfItsScreen'
      BY <1>0, <2>1, <2>2 DEF EventsAsked, P!FrameIsOfItsScreen
    <2> QED
      BY <2>1, <2>3, <2>5, <2>6, WorkerStep DEF Held
  <1>4. CASE P!StopShare \/ P!ShareStopped
    <2>1. /\ UNCHANGED <<commands, outgoing, stream, attached, asked, lagging, reply, got, events, giveUps>>
          /\ (step' = step \/ (step = "stop" /\ step' = "idle"))
          /\ UNCHANGED <<current, live>> \/ P!EndShare
      BY <1>4 DEF P!StopShare, P!ShareStopped, P!workervars, P!loopvars
    <2>2. current' \in 1..(MaxSessions + 1) /\ live' \subseteq P!Nodes
      <3>1. current' = current \/ current <= MaxSessions
        <4>1. CASE P!ShareStopped
          BY <4>1 DEF P!ShareStopped
        <4>2. CASE P!StopShare
          <5>1. asked \in P!Nodes
            BY <1>0, <4>2 DEF WorkerTypes, P!StopShare
          <5>2. asked[1] \in 1..MaxSessions
            BY <5>1 DEF P!Nodes
          <5>3. asked[1] = current \/ current' = current
            BY <4>2 DEF P!StopShare
          <5> QED
            BY <1>0, <5>2, <5>3 DEF WorkerTypes
        <4> QED
          BY <1>4, <4>1, <4>2
      <3> QED
        BY <1>0, <2>1, <3>1 DEF WorkerTypes, P!EndShare
    <2>3. WorkerTypes'
      BY <1>0, <2>1, <2>2 DEF WorkerTypes
    <2>4. P!FrameIsOfItsScreen'
      BY <1>0, <2>1 DEF P!FrameIsOfItsScreen
    <2> QED
      BY <2>1, <2>3, <2>4, SameEvents, WorkerStep DEF Held
  <1> QED
    BY <1>1, <1>2, <1>3, <1>4

(* A capture begins: what is in the channel is stale.                      *)
LEMMA NextBegin ==
  ASSUME StreamInv, P!Begin
  PROVE  StreamInv'
  <1> USE StreamConstants
  <1>0. WorkerTypes /\ EventTypes /\ CommandTypes /\ LoopTypes /\ HeardOK /\ ReleasedOK
    BY DEF StreamInv, StreamTypes
  <1>1. /\ step = "idle" /\ current <= MaxSessions /\ asked' \in P!NodesOf(current) /\ step' = "attach" /\ reply' = "none"
        /\ got' = NoNode /\ live' = live \cup P!NodesOf(current)
        /\ events' = [i \in DOMAIN events |-> IF events[i].kind = "fresh" THEN [events[i] EXCEPT !.kind = "stale"]
                                                                          ELSE events[i]]
        /\ lagging' = (commands # <<>> \/ outgoing # P!NothingDue \/ stream.ok)
        /\ UNCHANGED <<current, commands, outgoing, stream, attached, giveUps>>
    BY DEF P!Begin, P!loopvars
  <1>2. P!NodesOf(current) \subseteq P!Nodes
    BY <1>0, <1>1 DEF P!NodesOf, P!Nodes, WorkerTypes
  <1>3. lagging' \in BOOLEAN
    BY <1>1, Zenon
  <1>4. WorkerTypes'
    BY <1>0, <1>1, <1>2, <1>3 DEF WorkerTypes
  <1>5. /\ Len(events) \in Nat /\ DOMAIN events = 1..Len(events)
        /\ \A i \in 1..Len(events) : events[i] \in Kinds
    BY <1>0, LenProperties, ElementOfSeq DEF EventTypes
  <1>6. \A i \in 1..Len(events) : events'[i] \in Kinds /\ events'[i].kind # "fresh"
    BY <1>1, <1>5 DEF Kinds
  <1>7. events' \in Seq(Kinds) /\ Len(events') = Len(events)
    <2>1. events' \in [1..Len(events) -> Kinds]
      BY <1>1, <1>5, <1>6
    <2> QED
      BY <1>5, <2>1, Remade
  <1>8. EventTypes' /\ EventsAsked'
    BY <1>0, <1>6, <1>7 DEF EventTypes, EventsAsked
  <1>9. StreamAsked' /\ CommandsAsked' /\ P!FrameIsOfItsScreen'
    <2>1. ~lagging' => ~stream.ok /\ commands = <<>>
      BY <1>1
    <2>2. commands = <<>> => Len(commands) = 0
      BY EmptySeq
    <2> QED
      BY <1>1, <2>1, <2>2 DEF StreamAsked, CommandsAsked, P!FrameIsOfItsScreen
  <1>10. HeardOK' /\ ReleasedOK'
    BY <1>0, <1>1 DEF HeardOK, Waits, ReleasedOK, DetachComes
  <1>11. CommandTypes' /\ LoopTypes'
    BY <1>0, <1>1 DEF CommandTypes, LoopTypes
  <1> QED
    BY <1>4, <1>8, <1>9, <1>10, <1>11 DEF StreamInv, StreamTypes, AllAsked

(* A command is sent, and the worker waits.                                *)
LEMMA NextSend ==
  ASSUME StreamInv, NEW op \in {"attach", "detach"}, P!Send(op),
         step = IF op = "attach" THEN "send" ELSE "detach", step' = IF op = "attach" THEN "attaching" ELSE "detaching",
         UNCHANGED <<current, live, asked, got, events, outgoing, stream, attached, giveUps, lagging>>
  PROVE  StreamInv'
  <1> DEFINE c == [op |-> op, node |-> asked, heard |-> TRUE]
  <1>0. WorkerTypes /\ EventTypes /\ CommandTypes /\ LoopTypes /\ HeardOK /\ ReleasedOK /\ AllAsked
    BY DEF StreamInv, StreamTypes
  <1>1. asked \in P!Nodes /\ step' \in {"attaching", "detaching"} /\ reply' = "none"
    BY <1>0 DEF WorkerTypes, P!Send
  <1>2. c \in P!Commands
    BY <1>1 DEF P!Commands
  <1>3. commands' = Append(commands, c) /\ commands \in Seq(P!Commands)
    BY <1>0 DEF P!Send, CommandTypes
  <1> HIDE DEF c
  <1>4. /\ commands' \in Seq(P!Commands) /\ Len(commands) \in Nat /\ Len(commands') = Len(commands) + 1
        /\ \A k \in 1..Len(commands) : commands'[k] = commands[k] /\ k \in 1..Len(commands')
        /\ commands'[Len(commands) + 1] = c /\ Len(commands) + 1 \in 1..Len(commands')
        /\ \A k \in 1..Len(commands') : k \in 1..Len(commands) \/ k = Len(commands')
    BY <1>2, <1>3, QueueGrows
  <1>5. c.op = op /\ c.node = asked
    BY DEF c
  <1>6. StreamTypes'
    <2>1. WorkerTypes'
      BY <1>0, <1>1 DEF WorkerTypes
    <2>2. EventTypes' /\ CommandTypes' /\ LoopTypes'
      BY <1>0, <1>4 DEF EventTypes, CommandTypes, LoopTypes
    <2> QED
      BY <2>1, <2>2 DEF StreamTypes
  <1>7. AllAsked'
    <2>1. CommandsAsked'
      BY <1>0, <1>4, <1>5 DEF AllAsked, CommandsAsked
    <2> QED
      BY <1>0, <2>1 DEF AllAsked, StreamAsked, EventsAsked, P!FrameIsOfItsScreen
  <1>8. HeardOK'
    <2>1. ~outgoing.heard /\ \A i \in 1..Len(commands) : ~commands[i].heard
      BY <1>0 DEF HeardOK, Waits
    <2> QED
      BY <1>1, <1>4, <1>5, <2>1 DEF HeardOK, Waits
  <1>9. ReleasedOK'
    <2>1. DetachComes => DetachComes'
      BY <1>4 DEF DetachComes
    <2>2. CASE op = "attach"
      BY <1>0, <2>1, <2>2 DEF ReleasedOK
    <2>3. CASE op = "detach"
      BY <1>4, <1>5, <2>3 DEF ReleasedOK, DetachComes
    <2> QED
      BY <2>2, <2>3
  <1> QED
    BY <1>6, <1>7, <1>8, <1>9 DEF StreamInv

LEMMA NextCommand ==
  ASSUME StreamInv, P!SendAttach \/ P!Detach
  PROVE  StreamInv'
  <1>1. CASE P!SendAttach
    BY <1>1, NextSend DEF P!SendAttach
  <1>2. CASE P!Detach
    <2>1. CASE attached
      BY <1>2, <2>1, NextSend DEF P!Detach
    <2>2. CASE ~attached
      <3>1. /\ UNCHANGED <<commands, outgoing, stream, attached, asked, lagging, current, live, reply, got, giveUps>>
            /\ events' = <<>> /\ step = "detach" /\ step' = "done"
        BY <1>2, <2>2 DEF P!Detach
      <3>2. WorkerTypes' /\ P!FrameIsOfItsScreen'
        BY <3>1 DEF StreamInv, StreamTypes, AllAsked, WorkerTypes, P!FrameIsOfItsScreen
      <3> QED
        BY <2>2, <3>1, <3>2, NoEvents, WorkerStep
    <2> QED
      BY <2>1, <2>2
  <1> QED
    BY <1>1, <1>2

(* The worker no longer waits for what it sent.                            *)
LEMMA GivenUp ==
  ASSUME StreamInv, P!Unheard, step \in {"attaching", "detaching"},
         step' = IF step = "attaching" THEN "detach" ELSE "done",
         UNCHANGED <<current, live, asked, reply, got, stream, lagging>>,
         \/ step = "attaching" /\ UNCHANGED <<events, attached>>
         \/ step = "detaching" /\ events' = <<>> /\ attached' = FALSE
  PROVE  StreamInv'
  <1> USE StreamConstants
  <1>0. WorkerTypes /\ EventTypes /\ CommandTypes /\ LoopTypes /\ HeardOK /\ ReleasedOK /\ AllAsked
    BY DEF StreamInv, StreamTypes
  <1>1. /\ giveUps < MaxGiveUps /\ giveUps' = giveUps + 1
        /\ commands' = [i \in DOMAIN commands |-> [commands[i] EXCEPT !.heard = FALSE]]
        /\ outgoing' = [outgoing EXCEPT !.heard = FALSE]
    BY DEF P!Unheard
  <1>2. /\ Len(commands) \in Nat /\ DOMAIN commands = 1..Len(commands)
        /\ \A i \in 1..Len(commands) : commands[i] \in P!Commands
    BY <1>0, LenProperties, ElementOfSeq DEF CommandTypes
  <1>3. \A i \in 1..Len(commands) : /\ commands'[i] \in P!Commands /\ commands'[i].heard = FALSE
                                    /\ commands'[i].op = commands[i].op /\ commands'[i].node = commands[i].node
    BY <1>1, <1>2 DEF P!Commands
  <1>4. commands' \in Seq(P!Commands) /\ Len(commands') = Len(commands)
    <2>1. commands' \in [1..Len(commands) -> P!Commands]
      BY <1>1, <1>2, <1>3
    <2> QED
      BY <1>2, <2>1, Remade
  <1>5. WorkerTypes'
    BY <1>0, <1>1 DEF WorkerTypes
  <1>6. outgoing' \in [outcome : {"none", "ok", "failed"}, heard : BOOLEAN] /\ outgoing'.heard = FALSE
    BY <1>0, <1>1 DEF LoopTypes
  <1>7. LoopTypes' /\ CommandTypes'
    BY <1>0, <1>4, <1>6 DEF LoopTypes, CommandTypes
  <1>8. EventTypes' /\ EventsAsked'
    BY NoEvents, SameEvents
  <1>9. AllAsked'
    <2>1. CommandsAsked'
      BY <1>0, <1>3, <1>4 DEF AllAsked, CommandsAsked
    <2> QED
      BY <1>0, <1>8, <2>1 DEF AllAsked, StreamAsked, P!FrameIsOfItsScreen
  <1>10. HeardOK'
    BY <1>3, <1>4, <1>6 DEF HeardOK
  <1>11. ReleasedOK'
    <2>1. DetachComes => DetachComes'
      BY <1>3, <1>4 DEF DetachComes
    <2> QED
      BY <1>0, <2>1 DEF ReleasedOK
  <1> QED
    BY <1>5, <1>7, <1>8, <1>9, <1>10, <1>11 DEF StreamInv, StreamTypes

LEMMA NextGiveUp ==
  ASSUME StreamInv, P!AttachGivenUp \/ P!Detached
  PROVE  StreamInv'
  <1>1. CASE P!AttachGivenUp
    BY <1>1, GivenUp DEF P!AttachGivenUp
  <1>2. CASE P!Detached
    <2>1. /\ step = "detaching" /\ attached' = FALSE /\ events' = <<>> /\ step' = "done"
          /\ UNCHANGED <<current, live, asked, reply, got, stream, lagging>>
      BY <1>2 DEF P!Detached
    <2>2. CASE P!Unheard
      BY <2>1, <2>2, GivenUp
    <2>3. CASE reply # "none" /\ UNCHANGED <<commands, outgoing, giveUps>>
      <3>1. WorkerTypes' /\ CommandTypes' /\ LoopTypes'
        BY <2>1, <2>3 DEF StreamInv, StreamTypes, WorkerTypes, CommandTypes, LoopTypes
      <3>2. EventTypes' /\ EventsAsked'
        BY <2>1, NoEvents
      <3>3. StreamAsked' /\ CommandsAsked' /\ P!FrameIsOfItsScreen'
        BY <2>1, <2>3 DEF StreamInv, AllAsked, StreamAsked, CommandsAsked, P!FrameIsOfItsScreen
      <3>4. HeardOK'
        <4>1. ~outgoing.heard /\ \A i \in 1..Len(commands) : ~commands[i].heard
          BY <2>3 DEF StreamInv, HeardOK, Waits
        <4> QED
          BY <2>3, <4>1 DEF HeardOK
      <3>5. ReleasedOK'
        BY <2>1, <2>3 DEF StreamInv, ReleasedOK, DetachComes
      <3> QED
        BY <3>1, <3>2, <3>3, <3>4, <3>5 DEF StreamInv, StreamTypes, AllAsked
    <2> QED
      BY <1>2, <2>2, <2>3 DEF P!Detached
  <1> QED
    BY <1>1, <1>2

(* The loop takes a command.                                               *)
LEMMA NextTaken ==
  ASSUME StreamInv, P!LoopAttaches \/ P!LoopDetaches
  PROVE  StreamInv'
  <1>0. WorkerTypes /\ EventTypes /\ CommandTypes /\ LoopTypes /\ HeardOK /\ ReleasedOK /\ AllAsked
    BY DEF StreamInv, StreamTypes
  <1> DEFINE c == Head(commands)
  <1>1. /\ outgoing = P!NothingDue /\ commands # <<>> /\ commands' = Tail(commands)
        /\ UNCHANGED <<current, live, asked, step, reply, got, events, giveUps, lagging>>
        /\ \E o \in {"ok", "failed"} : outgoing' = [outcome |-> o, heard |-> c.heard]
        /\ \/ /\ c.op = "attach" /\ stream' = [node |-> c.node, ok |-> TRUE, heard |-> c.heard] /\ attached' = TRUE
           \/ stream' = P!NoStream /\ attached' = FALSE
    BY DEF P!LoopAttaches, P!LoopDetaches, P!Finish, P!workervars
  <1>2. /\ c \in P!Commands /\ Tail(commands) \in Seq(P!Commands) /\ Len(commands) \in Nat
        /\ Len(Tail(commands)) = Len(commands) - 1 /\ c = commands[1] /\ 1 \in 1..Len(commands)
        /\ \A k \in 1..Len(Tail(commands)) : Tail(commands)[k] = commands[k + 1] /\ k + 1 \in 1..Len(commands) /\ k + 1 # 1
    BY <1>0, <1>1, QueueShrinks DEF CommandTypes
  <1> HIDE DEF c
  <1>3. c.op \in {"attach", "detach"} /\ c.node \in P!Nodes /\ c.node # NoNode /\ c.heard \in BOOLEAN
    BY <1>2, StreamConstants DEF P!Commands
  <1>4. WorkerTypes' /\ EventTypes' /\ CommandTypes'
    BY <1>0, <1>1, <1>2 DEF WorkerTypes, EventTypes, CommandTypes
  <1>5. LoopTypes'
    <2>1. outgoing' \in [outcome : {"none", "ok", "failed"}, heard : BOOLEAN]
      BY <1>1, <1>3
    <2>2. CASE stream' = [node |-> c.node, ok |-> TRUE, heard |-> c.heard] /\ attached' = TRUE
      BY <1>3, <2>1, <2>2 DEF LoopTypes
    <2>3. CASE stream' = P!NoStream /\ attached' = FALSE
      BY <2>1, <2>3 DEF LoopTypes, P!NoStream
    <2> QED
      BY <1>1, <2>2, <2>3
  <1>6. AllAsked'
    <2>1. CommandsAsked'
      BY <1>0, <1>1, <1>2 DEF AllAsked, CommandsAsked
    <2>2. StreamAsked'
      BY <1>0, <1>1, <1>2, <1>3 DEF AllAsked, CommandsAsked, StreamAsked, P!NoStream
    <2>3. EventsAsked' /\ P!FrameIsOfItsScreen'
      BY <1>0, <1>1 DEF AllAsked, EventsAsked, P!FrameIsOfItsScreen
    <2> QED
      BY <2>1, <2>2, <2>3 DEF AllAsked
  <1>7. c.heard => Len(commands) = 1 /\ reply = "none" /\ step = IF c.op = "attach" THEN "attaching" ELSE "detaching"
    BY <1>0, <1>2 DEF HeardOK, Waits
  <1>8. outgoing'.heard = c.heard
    BY <1>1
  <1>9. HeardOK'
    <2>1. CASE c.heard
      <3>1. Len(commands') = 0
        BY <1>1, <1>2, <1>7, <2>1
      <3>2. reply' = "none" /\ step' \in {"attaching", "detaching"}
        BY <1>1, <1>7, <2>1
      <3> QED
        BY <3>1, <3>2 DEF HeardOK
    <2>2. CASE ~c.heard
      <3>1. \A i \in 1..Len(commands') :
               commands'[i].heard => i = Len(commands') /\ reply = "none" /\ step = IF commands'[i].op = "attach" THEN "attaching" ELSE "detaching"
        <4>1. TAKE i \in 1..Len(commands')
        <4>2. Len(commands') = Len(commands) - 1 /\ i \in 1..Len(Tail(commands)) /\ commands'[i] = Tail(commands)[i]
          BY <1>1, <1>2, <4>1
        <4>3. commands'[i] = commands[i + 1] /\ i + 1 \in 1..Len(commands)
          BY <1>2, <4>2
        <4>4. i + 1 = Len(commands) => i = Len(commands')
          <5>1. i \in Int
            OBVIOUS
          <5>2. \A n \in Int : i + 1 = n => i = n - 1
            BY <5>1
          <5>3. Len(commands) \in Int /\ Len(commands') = Len(commands) - 1
            BY <1>2, <4>2
          <5> QED
            BY <5>2, <5>3
        <4> QED
          BY <1>0, <4>3, <4>4 DEF HeardOK, Waits
      <3>2. ~outgoing'.heard /\ UNCHANGED <<reply, step>>
        BY <1>1, <1>8, <2>2
      <3> QED
        BY <3>1, <3>2 DEF HeardOK, Waits
    <2> QED
      BY <2>1, <2>2
  <1>10. ReleasedOK'
    <2>1. CASE c.op = "attach" /\ stream' = [node |-> c.node, ok |-> TRUE, heard |-> c.heard] /\ attached' = TRUE
      BY <1>1, <1>7, <2>1 DEF ReleasedOK
    <2>2. CASE stream' = P!NoStream
      BY <2>2 DEF ReleasedOK, P!NoStream
    <2> QED
      BY <1>1, <2>1, <2>2
  <1> QED
    BY <1>4, <1>5, <1>6, <1>9, <1>10 DEF StreamInv, StreamTypes

LEMMA NextReply ==
  ASSUME StreamInv, P!LoopReplies
  PROVE  StreamInv'
  <1>0. WorkerTypes /\ EventTypes /\ CommandTypes /\ LoopTypes /\ HeardOK /\ ReleasedOK /\ AllAsked
    BY DEF StreamInv, StreamTypes
  <1>1. /\ outgoing' = P!NothingDue /\ reply' = IF outgoing.heard THEN outgoing.outcome ELSE reply
        /\ UNCHANGED <<current, live, asked, step, got, events, commands, stream, attached, giveUps, lagging>>
    BY DEF P!LoopReplies
  <1>2. outgoing.outcome \in {"none", "ok", "failed"} /\ outgoing'.heard = FALSE
    BY <1>0, <1>1 DEF LoopTypes, P!NothingDue
  <1>3. WorkerTypes'
    BY <1>0, <1>1, <1>2 DEF WorkerTypes
  <1>4. EventTypes' /\ CommandTypes' /\ LoopTypes'
    BY <1>0, <1>1 DEF EventTypes, CommandTypes, LoopTypes, P!NothingDue
  <1>5. AllAsked'
    BY <1>0, <1>1 DEF AllAsked, StreamAsked, CommandsAsked, EventsAsked, P!FrameIsOfItsScreen
  <1>6. HeardOK'
    <2>1. \A i \in 1..Len(commands) : commands[i].heard => i = Len(commands) /\ reply' = reply /\ Waits(commands[i].op)
      BY <1>0, <1>1 DEF HeardOK
    <2> QED
      BY <1>1, <1>2, <2>1 DEF HeardOK, Waits
  <1>7. ReleasedOK'
    BY <1>0, <1>1 DEF ReleasedOK, DetachComes
  <1> QED
    BY <1>3, <1>4, <1>5, <1>6, <1>7 DEF StreamInv, StreamTypes

(* Something comes over the stream; the channel takes what fits.           *)
LEMMA NextEvent ==
  ASSUME StreamInv, P!FrameArrives \/ P!FrameUnusable \/ P!StreamBreaks
  PROVE  StreamInv'
  <1>0. WorkerTypes /\ EventTypes /\ CommandTypes /\ LoopTypes /\ HeardOK /\ ReleasedOK /\ AllAsked
    BY DEF StreamInv, StreamTypes
  <1>1. /\ UNCHANGED <<current, live, asked, step, reply, got, commands, outgoing, giveUps, lagging>> /\ stream.ok
        /\ \/ UNCHANGED <<stream, attached>>
           \/ stream' = [stream EXCEPT !.ok = FALSE] /\ attached' = FALSE
        /\ \E k \in {"fresh", "stale", "error"} : P!SendEvent(k)
    BY DEF P!FrameArrives, P!FrameUnusable, P!StreamBreaks, P!workervars, P!loopvars
  <1>2. PICK k \in {"fresh", "stale", "error"} : P!SendEvent(k)
    BY <1>1
  <1> DEFINE e == [node |-> stream.node, kind |-> k]
  <1>3. stream.node \in P!Nodes
    BY <1>0, <1>1 DEF LoopTypes
  <1>4. e \in Kinds /\ e.node = stream.node
    BY <1>3 DEF Kinds
  <1>5. events' = events \/ (Len(events) < 2 /\ events' = Append(events, e))
    BY <1>2 DEF P!SendEvent, P!FRAME_QUEUE_DEPTH
  <1> HIDE DEF e
  <1>6. EventTypes' /\ EventsAsked'
    <2>1. CASE events' = events
      BY <1>0, <1>1, <2>1 DEF EventTypes, AllAsked, EventsAsked
    <2>2. CASE Len(events) < 2 /\ events' = Append(events, e)
      <3>1. /\ events' \in Seq(Kinds) /\ Len(events) \in Nat /\ Len(events') = Len(events) + 1
            /\ \A j \in 1..Len(events) : events'[j] = events[j]
            /\ events'[Len(events) + 1] = e
            /\ \A j \in 1..Len(events') : j \in 1..Len(events) \/ j = Len(events) + 1
        BY <1>0, <1>4, <2>2, QueueGrows DEF EventTypes
      <3>2. Len(events') <= 2
        BY <2>2, <3>1
      <3>3. ~lagging => e.node = asked /\ \A j \in 1..Len(events) : events[j].kind = "fresh" => events[j].node = asked
        BY <1>0, <1>1, <1>4 DEF AllAsked, StreamAsked, EventsAsked
      <3>4. EventsAsked'
        BY <1>1, <3>1, <3>3 DEF EventsAsked
      <3> QED
        BY <3>1, <3>2, <3>4 DEF EventTypes
    <2> QED
      BY <1>5, <2>1, <2>2
  <1>7. WorkerTypes' /\ CommandTypes'
    BY <1>0, <1>1 DEF WorkerTypes, CommandTypes
  <1>8. LoopTypes'
    BY <1>0, <1>1 DEF LoopTypes
  <1>9. StreamAsked' /\ CommandsAsked' /\ P!FrameIsOfItsScreen'
    BY <1>0, <1>1 DEF LoopTypes, AllAsked, StreamAsked, CommandsAsked, P!FrameIsOfItsScreen
  <1>10. HeardOK'
    BY <1>0, <1>1 DEF HeardOK, Waits
  <1>11. ReleasedOK'
    BY <1>0, <1>1 DEF LoopTypes, ReleasedOK, DetachComes
  <1> QED
    BY <1>6, <1>7, <1>8, <1>9, <1>10, <1>11 DEF StreamInv, StreamTypes, AllAsked

LEMMA NextStream ==
  ASSUME StreamInv, [P!Next]_pvars
  PROVE  StreamInv'
  <1>1. CASE UNCHANGED pvars
    <2>1. WorkerTypes' /\ EventTypes'
      BY <1>1 DEF StreamInv, StreamTypes, WorkerTypes, EventTypes, pvars
    <2>2. CommandTypes' /\ LoopTypes'
      BY <1>1 DEF StreamInv, StreamTypes, CommandTypes, LoopTypes, pvars
    <2>3. AllAsked'
      BY <1>1 DEF StreamInv, AllAsked, StreamAsked, CommandsAsked, EventsAsked, P!FrameIsOfItsScreen, pvars
    <2>4. HeardOK'
      BY <1>1 DEF StreamInv, HeardOK, Waits, pvars
    <2>5. ReleasedOK'
      BY <1>1 DEF StreamInv, ReleasedOK, DetachComes, pvars
    <2> QED
      BY <2>1, <2>2, <2>3, <2>4, <2>5 DEF StreamInv, StreamTypes
  <1>2. CASE P!Worker
    BY <1>2, NextBegin, NextCommand, NextGiveUp, WorkerGoesOn, Zenon DEF P!Worker
  <1>3. CASE P!Loop
    BY <1>3, NextTaken, NextReply, NextEvent, Zenon DEF P!Loop
  <1>4. CASE P!ShareStopped
    BY <1>4, WorkerGoesOn
  <1> QED
    BY <1>1, <1>2, <1>3, <1>4, Zenon DEF P!Next

LEMMA StreamPromises ==
  ASSUME StreamInv
  PROVE  P!TypeOK /\ P!FrameIsOfItsScreen /\ P!StreamsAreReleased
  <1>1. P!TypeOK
    <2>1. WorkerTypes /\ EventTypes /\ CommandTypes /\ LoopTypes
      BY DEF StreamInv, StreamTypes
    <2>2. events \in Seq([node : P!Nodes, kind : {"fresh", "stale", "error"}]) /\ Len(events) <= P!FRAME_QUEUE_DEPTH
      BY <2>1 DEF EventTypes, Kinds, P!FRAME_QUEUE_DEPTH
    <2> QED
      BY <2>1, <2>2 DEF WorkerTypes, CommandTypes, LoopTypes, P!TypeOK
  <1>2. P!StreamsAreReleased
    <2>1. DOMAIN commands = 1..Len(commands)
      BY LenProperties DEF StreamInv, StreamTypes, CommandTypes
    <2> QED
      BY <2>1 DEF StreamInv, ReleasedOK, DetachComes, P!StreamsAreReleased
  <1> QED
    BY <1>1, <1>2 DEF StreamInv, AllAsked
-----------------------------------------------------------------------------
PartsInv == K!TypeOK /\ ShareInv /\ FrameInv /\ SessionInv /\ StreamInv

LEMMA PartsKept == Init /\ [][Next]_vars => []PartsInv
  <1>1. Init => PartsInv
    BY AwakeStarts, ShareStarts, FrameStarts, SessionStarts, StreamStarts DEF Init, PartsInv
  <1>2. PartsInv /\ [Next]_vars => PartsInv'
    <2> SUFFICES ASSUME PartsInv, [Next]_vars
                 PROVE  PartsInv'
      OBVIOUS
    <2>1. [K!Next]_kvars /\ [S!Next]_svars /\ [F!Next]_fvars
      BY Zenon DEF Next, vars
    <2>2. [N!Next]_nvars /\ [P!Next]_pvars
      BY Zenon DEF Next, vars
    <2> QED
      BY <2>1, <2>2, AwakeTypes, NextShare, NextFrame, NextSession, NextStream DEF PartsInv
  <1> QED
    BY <1>1, <1>2, PTL

(* Nothing is held that nothing will ever end: a share that is on has a    *)
(* timer or a call that ends it, a frame is the one its owner knows, and   *)
(* what desktop_lock ended stays ended (runtime.py, glowowner.py,          *)
(* safety.py); and what the helper has open of the screen it knows of, and *)
(* between requests has closed once the grant was found gone or the screen *)
(* seen locked, but for what came in the last moment (session.rs).         *)
THEOREM NothingHeldUnknown == FairSpec => []HeldIsKnown
  <1>1. PartsInv => HeldIsKnown
    <2> SUFFICES ASSUME PartsInv
                 PROVE  HeldIsKnown
      OBVIOUS
    <2>1. F!TypeOK
      BY DEF PartsInv, FrameInv, FrameData, F!TypeOK, Outside
    <2> QED
      BY <2>1, SessionPromises DEF PartsInv, HeldIsKnown, ShareInv, FrameInv
  <1>2. FairSpec => Init /\ [][Next]_vars
    BY PTL DEF FairSpec
  <1> QED
    BY <1>1, <1>2, PartsKept, PTL

(* A picture is of the screen that was asked for, if the loop had nothing  *)
(* left of an earlier capture when this one began; every stream that the   *)
(* worker waited for is detached (pipewire_source.rs, capture.rs); and no  *)
(* picture is answered that was composed without the grant or behind a     *)
(* locked screen and not looked at again (capture.rs, image_copy.rs).      *)
THEOREM FramesStayTrue == FairSpec => []FramesAreTrue
  <1>1. PartsInv => FramesAreTrue
    BY SessionPromises, StreamPromises DEF PartsInv, FramesAreTrue
  <1>2. FairSpec => Init /\ [][Next]_vars
    BY PTL DEF FairSpec
  <1> QED
    BY <1>1, <1>2, PartsKept, PTL
=============================================================================
