-------------------------- MODULE NativeGateProofs --------------------------
(***************************************************************************)
(* Proofs about native protection, for every set of apps, every duration   *)
(* of a pass and life of a challenge, and all the bounds.                  *)
(***************************************************************************)
EXTENDS NativeGateProps, TLAPS

\* Whoever has saved is about to apply what is in the file, and is alone.
Locked ==
  /\ \A p \in Processes : todo[p] # None => todo[p] = file
  /\ \A p, q \in Processes : todo[p] # None /\ todo[q] # None => p = q

\* The number of a monitor tells which pass it is for.
Numbered ==
  /\ \A m \in monitor : m.n \in 1 .. issued
  /\ \A m, k \in monitor : m.n = k.n => m = k

\* The passes of f are of different numbers, and those that are not over are
\* watched.
Watching(f) ==
  /\ \A a \in Apps : f.pass[a] = NoPass \/ f.pass[a].n \in 1 .. issued
  /\ \A a, b \in Apps : a # b /\ f.pass[a].n = f.pass[b].n => f.pass[a] = NoPass
  /\ \A a \in Apps : f.pass[a].end > now => f.pass[a] \in monitor

\* The pass that is being granted is nobody's yet, its monitor is started
\* before it is stored, and the monitors to stop are those of no pass.
Granting(f) ==
  /\ main.pc \in {"start", "update"} =>
       /\ main.pass.n \in 1 .. issued
       /\ \A a \in Apps : f.pass[a].n # main.pass.n
  /\ main.pc = "start" => \A m \in monitor : m.n # main.pass.n
  /\ main.pc = "update" => main.pass \in monitor
  /\ main.pc = "apply" => \A a \in Apps : f.pass[a].n \notin main.stop

IInv == /\ TypeOK /\ Locked /\ Numbered /\ Watching(file) /\ Granting(file)
        /\ ShieldFollows /\ (StopCancels \/ RelockAhead)

-----------------------------------------------------------------------------
(* Types.                                                                  *)

MainType ==
  [ pc : {"idle", "start", "update", "apply", "expired", "consume", "hold"},
    app : Apps \cup {None}, pass : Pass, stop : SUBSET (1 .. MaxPasses) ]

\* Passes and challenges are for selected apps.
Selected(f) ==
  /\ \A a \in Apps : f.pass[a] # NoPass => a \in f.apps
  /\ f.asked # NotAsked => f.asked.app \in f.apps

LEMMA Bounds ==
  /\ MaxTime \in Nat /\ MaxPasses \in Nat /\ MaxFaults \in Nat /\ Life \in Nat
  /\ None \notin Apps /\ Durations \subseteq Nat /\ Durations # {} /\ None \notin File
  /\ 0 \in Times /\ Times \subseteq Nat
BY GateAssumption, NothingAssumption DEF Times

LEMMA NothingType ==
  /\ NoPass \in Pass /\ NoPass.n = 0 /\ NoPass.end = 0
  /\ NotAsked \in [app : Apps \cup {None}, at : Times] /\ NotAsked.app = None
  /\ Idle \in MainType /\ Idle.pc = "idle" /\ Idle.pass = NoPass
BY Bounds DEF NoPass, Pass, NotAsked, Idle, MainType

LEMMA StateTypes ==
  ASSUME TypeOK
  PROVE  /\ now \in Nat /\ file \in File /\ Selected(file) /\ file.apps \subseteq Apps
         /\ \A a \in Apps : file.pass[a] \in Pass
         /\ monitor \subseteq Pass /\ main \in MainType /\ issued \in Nat
         /\ todo \in [Processes -> File \cup {None}]
BY Bounds DEF TypeOK, Selected, File, MainType, Times

\* The record of the app's next part.
LEMMA MainAt ==
  ASSUME NEW pc \in {"idle", "start", "update", "apply", "expired", "consume", "hold"}
  PROVE  /\ [Idle EXCEPT !.pc = pc] \in MainType
         /\ [Idle EXCEPT !.pc = pc].pc = pc
BY NothingType DEF Idle, MainType

LEMMA MainStops ==
  ASSUME NEW S \in SUBSET (1 .. MaxPasses)
  PROVE  /\ [Idle EXCEPT !.pc = "apply", !.stop = S] \in MainType
         /\ [Idle EXCEPT !.pc = "apply", !.stop = S].pc = "apply"
         /\ [Idle EXCEPT !.pc = "apply", !.stop = S].stop = S
BY NothingType DEF Idle, MainType

LEMMA ReconciledType ==
  ASSUME NEW f \in File
  PROVE  /\ Reconciled(f) \in File /\ Selected(Reconciled(f))
         /\ Reconciled(f).apps = f.apps /\ Reconciled(f).enabled = f.enabled
         /\ \A a \in Apps : Reconciled(f).pass[a] = f.pass[a] \/ Reconciled(f).pass[a] = NoPass
         /\ \A a \in Apps \ f.apps : Reconciled(f).pass[a] = NoPass
<1>1. PICK pass, asked :
        /\ pass = [a \in Apps |->
                     IF a \in f.apps /\ f.pass[a].end > now THEN f.pass[a] ELSE NoPass]
        /\ asked = IF f.asked.app \notin f.apps \/ now - f.asked.at > Life
                   THEN NotAsked ELSE f.asked
  OBVIOUS
<1>2. Reconciled(f) = [f EXCEPT !.pass = pass, !.asked = asked]
  BY <1>1 DEF Reconciled
<1>3. /\ f.apps \subseteq Apps /\ f.pass \in [Apps -> Pass]
      /\ f.asked \in [app : Apps \cup {None}, at : Times]
  BY DEF File
<1>4. pass \in [Apps -> Pass] /\ \A a \in Apps : pass[a] = f.pass[a] \/ pass[a] = NoPass
  BY <1>1, <1>3, NothingType
<1>5. \A a \in Apps : pass[a] # NoPass => a \in f.apps
  BY <1>1
<1>6. asked \in [app : Apps \cup {None}, at : Times] /\ (asked # NotAsked => asked.app \in f.apps)
  BY <1>1, <1>3, NothingType
<1>7. /\ Reconciled(f) \in File /\ Reconciled(f).apps = f.apps
      /\ Reconciled(f).enabled = f.enabled
      /\ Reconciled(f).pass = pass /\ Reconciled(f).asked = asked
  BY <1>2, <1>4, <1>6 DEF File
<1>8. QED BY <1>4, <1>5, <1>6, <1>7 DEF Selected

-----------------------------------------------------------------------------
(* Steps that save.                                                        *)

\* Nothing has got a pass in g that it has not in f.
Fewer(f, g) == \A a \in Apps : g.pass[a] = f.pass[a] \/ g.pass[a] = NoPass

LEMMA WatchedStill ==
  ASSUME IInv, NEW g, Fewer(file, g)
  PROVE  Watching(g)
<1>1. Watching(file) /\ now \in Nat
  BY StateTypes DEF IInv
<1>2. \A a \in Apps : g.pass[a].end > now => g.pass[a] = file.pass[a]
  BY <1>1, NothingType DEF Fewer
<1>3. \A a \in Apps : g.pass[a] = NoPass \/ g.pass[a].n \in 1 .. issued
  BY <1>1 DEF Watching, Fewer
<1>4. ASSUME NEW a \in Apps, NEW b \in Apps, a # b, g.pass[a].n = g.pass[b].n
      PROVE  g.pass[a] = NoPass
  <2>1. CASE g.pass[b] = NoPass
    BY <1>3, <1>4, <2>1, NothingType
  <2>2. CASE g.pass[a] # NoPass /\ g.pass[b] # NoPass
    <3>1. g.pass[a] = file.pass[a] /\ g.pass[b] = file.pass[b]
      BY <2>2 DEF Fewer
    <3>2. QED BY <1>1, <1>4, <3>1 DEF Watching
  <2>3. QED BY <2>1, <2>2
<1>5. \A a \in Apps : g.pass[a].end > now => g.pass[a] \in monitor
  BY <1>1, <1>2 DEF Watching
<1>6. QED BY <1>3, <1>4, <1>5 DEF Watching

\* What is left to show of a step of the process p that saves f.
LEMMA SaveStep ==
  ASSUME IInv, NEW p \in Processes, NEW f \in File, Selected(f), Saves(p, f),
         Watching(f), Granting(f)', main' \in MainType, calls' \subseteq calls,
         UNCHANGED <<now, shield, monitor, missed, issued, faults>>
  PROVE  IInv'
<1>1. todo \in [Processes -> File \cup {None}] /\ \A q \in Processes : todo[q] = None
  BY StateTypes DEF IInv, Saves, Free
<1>2. file' = f /\ todo' = [todo EXCEPT ![p] = f]
  BY DEF Saves
<1>3. /\ todo' \in [Processes -> File \cup {None}] /\ todo'[p] = f /\ f # None
      /\ \A q \in Processes \ {p} : todo'[q] = None
  BY <1>1, <1>2, Bounds
<1>4. TypeOK'
  BY <1>2, <1>3 DEF IInv, TypeOK, Selected, MainType
<1>5. Locked'
  BY <1>2, <1>3 DEF Locked
<1>6. Numbered' /\ Watching(file)' /\ Granting(file)'
  BY <1>2 DEF IInv, Numbered, Watching, Granting
<1>7. ShieldFollows' /\ RelockAhead'
  BY <1>3 DEF ShieldFollows, RelockAhead
<1>8. QED BY <1>4, <1>5, <1>6, <1>7 DEF IInv

LEMMA ChangeStep ==
  ASSUME IInv, NEW f \in File, Selected(f), NEW S \in SUBSET (1 .. MaxPasses),
         Change(f, S), Fewer(file, f), \A a \in Apps : f.pass[a].n \notin S
  PROVE  IInv'
<1>1. /\ main' = [Idle EXCEPT !.pc = "apply", !.stop = S] /\ Saves("app", f)
      /\ UNCHANGED <<now, shield, monitor, calls, missed, issued, faults>>
  BY DEF Change
<1>2. main' \in MainType /\ main'.pc = "apply" /\ main'.stop = S
  BY <1>1, MainStops
<1>3. Granting(f)'
  BY <1>2 DEF Granting
<1>4. "app" \in Processes
  BY DEF Processes
<1>5. QED BY <1>1, <1>2, <1>3, <1>4, WatchedStill, SaveStep

LEMMA EnableStep ==
  ASSUME IInv, NEW m \in Durations, Enable(m)
  PROVE  IInv'
<1>1. PICK g, f : g = [file EXCEPT !.enabled = TRUE, !.minutes = m] /\ f = Reconciled(g)
  OBVIOUS
<1>2. g \in File /\ g.pass = file.pass
  BY <1>1, StateTypes DEF IInv, File
<1>3. f \in File /\ Selected(f) /\ Fewer(file, f)
  BY <1>1, <1>2, ReconciledType DEF Fewer
<1>4. Change(f, {})
  BY <1>1 DEF Enable
<1>5. QED BY <1>3, <1>4, ChangeStep

LEMMA DisableStep ==
  ASSUME IInv, Disable
  PROVE  IInv'
<1>1. PICK f : f = [ file EXCEPT !.enabled = FALSE, !.pass = [a \in Apps |-> NoPass],
                                 !.asked = NotAsked ]
  OBVIOUS
<1>2. /\ f \in File /\ f.asked = NotAsked
      /\ \A a \in Apps : f.pass[a] = NoPass
  BY <1>1, StateTypes, NothingType DEF IInv, File
<1>3. Selected(f) /\ Fewer(file, f) /\ \A a \in Apps : f.pass[a].n \notin 1 .. MaxPasses
  BY <1>2, NothingType DEF Selected, Fewer
<1>4. Change(f, 1 .. MaxPasses)
  BY <1>1 DEF Disable
<1>5. QED BY <1>2, <1>3, <1>4, ChangeStep

LEMMA SaveSelectionStep ==
  ASSUME IInv, NEW T \in SUBSET Apps, SaveSelection(T)
  PROVE  IInv'
<1>1. PICK g, h, f, S :
        /\ g = [file EXCEPT !.apps = T] /\ h = Reconciled(g)
        /\ f = IF T = {} THEN [h EXCEPT !.enabled = FALSE, !.asked = NotAsked] ELSE h
        /\ S = { file.pass[a].n : a \in Apps \ T } \ {0}
  OBVIOUS
<1>2. g \in File /\ g.pass = file.pass /\ g.apps = T
  BY <1>1, StateTypes DEF IInv, File
<1>3. /\ h \in File /\ Selected(h) /\ h.apps = T
      /\ \A a \in Apps : h.pass[a] = file.pass[a] \/ h.pass[a] = NoPass
      /\ \A a \in Apps \ T : h.pass[a] = NoPass
  BY <1>1, <1>2, ReconciledType
<1>4. f \in File /\ Selected(f) /\ f.pass = h.pass
  BY <1>1, <1>3, NothingType DEF File, Selected
<1>5. Fewer(file, f)
  BY <1>3, <1>4 DEF Fewer
<1>6. S \in SUBSET (1 .. MaxPasses)
  BY <1>1, StateTypes, Bounds DEF IInv, Pass
<1>7. ASSUME NEW a \in Apps PROVE f.pass[a].n \notin S
  <2>1. CASE f.pass[a] = NoPass
    BY <1>1, <2>1, NothingType
  <2>2. CASE f.pass[a] # NoPass
    <3>1. f.pass[a] = file.pass[a] /\ a \in T
      BY <1>3, <1>4, <2>2
    <3>2. \A b \in Apps \ T : file.pass[b].n # file.pass[a].n
      BY <2>2, <3>1 DEF IInv, Watching
    <3>3. QED BY <1>1, <3>1, <3>2
  <2>3. QED BY <2>1, <2>2
<1>8. Change(f, S)
  BY <1>1 DEF SaveSelection
<1>9. QED BY <1>4, <1>5, <1>6, <1>7, <1>8, ChangeStep

LEMMA RevokePassStep ==
  ASSUME IInv, NEW a \in Apps, RevokePass(a)
  PROVE  IInv'
<1>1. PICK f, S : f = [file EXCEPT !.pass[a] = NoPass] /\ S = {file.pass[a].n} \ {0}
  OBVIOUS
<1>2. /\ f \in File /\ f.apps = file.apps /\ f.asked = file.asked
      /\ \A b \in Apps : f.pass[b] = IF b = a THEN NoPass ELSE file.pass[b]
  BY <1>1, StateTypes, NothingType DEF IInv, File
<1>3. Selected(f) /\ Fewer(file, f)
  BY <1>2, StateTypes DEF IInv, Selected, Fewer
<1>4. S \in SUBSET (1 .. MaxPasses)
  BY <1>1, StateTypes, Bounds DEF IInv, Pass
<1>5. ASSUME NEW b \in Apps PROVE f.pass[b].n \notin S
  <2>1. CASE f.pass[b] = NoPass
    BY <1>1, <2>1, NothingType
  <2>2. CASE f.pass[b] # NoPass
    <3>1. f.pass[b] = file.pass[b] /\ a # b
      BY <1>2, <2>2
    <3>2. file.pass[b].n # file.pass[a].n
      BY <2>2, <3>1 DEF IInv, Watching
    <3>3. QED BY <1>1, <3>1, <3>2
  <2>3. QED BY <2>1, <2>2
<1>6. Change(f, S)
  BY <1>1 DEF RevokePass
<1>7. QED BY <1>2, <1>3, <1>4, <1>5, <1>6, ChangeStep

\* The app is where it was, and nobody has got a pass.
LEMMA GrantingStill ==
  ASSUME IInv, NEW f, Fewer(file, f), UNCHANGED <<monitor, main, issued>>
  PROVE  Granting(f)'
<1>1. Granting(file) /\ main \in MainType /\ issued \in Nat
  BY StateTypes DEF IInv
<1>2. \A a \in Apps : f.pass[a].n = file.pass[a].n \/ f.pass[a].n = 0
  BY NothingType DEF Fewer
<1>3. main.pc \in {"start", "update"} => \A a \in Apps : f.pass[a].n # main.pass.n
  BY <1>1, <1>2 DEF Granting
<1>4. main.pc = "apply" => \A a \in Apps : f.pass[a].n \notin main.stop
  BY <1>1, <1>2, Bounds DEF Granting, MainType
<1>5. QED BY <1>1, <1>3, <1>4 DEF Granting

LEMMA MonitorCalledStep ==
  ASSUME IInv, NEW c \in calls, MonitorCalled(c)
  PROVE  IInv'
<1>1. PICK f : f = Reconciled(file)
  OBVIOUS
<1>2. f \in File /\ Selected(f) /\ Fewer(file, f)
  BY <1>1, StateTypes, ReconciledType DEF IInv, Fewer
<1>3. /\ Saves("monitor", f) /\ calls' \subseteq calls
      /\ UNCHANGED <<now, shield, monitor, main, missed, issued, faults>>
  BY <1>1 DEF MonitorCalled
<1>4. main' \in MainType /\ "monitor" \in Processes
  BY <1>3, StateTypes DEF IInv, Processes
<1>5. Watching(f) /\ Granting(f)'
  BY <1>2, <1>3, WatchedStill, GrantingStill
<1>6. QED BY <1>2, <1>3, <1>4, <1>5, SaveStep

LEMMA ShieldActionStep ==
  ASSUME IInv, NEW a \in Apps, ShieldAction(a)
  PROVE  IInv'
<1>1. PICK g, f, asked :
        /\ g = Reconciled(file) /\ asked = [app |-> a, at |-> now]
        /\ f = IF a \in Shielded(g) THEN [g EXCEPT !.asked = asked] ELSE g
  OBVIOUS
<1>2. /\ g \in File /\ Selected(g) /\ g.apps = file.apps
      /\ \A b \in Apps : g.pass[b] = file.pass[b] \/ g.pass[b] = NoPass
  BY <1>1, StateTypes, ReconciledType DEF IInv
<1>3. a \in Shielded(g) => a \in g.apps
  BY DEF Shielded
<1>4. asked \in [app : Apps \cup {None}, at : Times] /\ asked.app = a
  BY <1>1 DEF IInv, TypeOK
<1>5. f \in File /\ Selected(f) /\ f.pass = g.pass
  BY <1>1, <1>2, <1>3, <1>4 DEF File, Selected
<1>6. Fewer(file, f)
  BY <1>2, <1>5 DEF Fewer
<1>7. /\ Saves("action", f) /\ calls' \subseteq calls
      /\ UNCHANGED <<now, shield, monitor, main, missed, issued, faults>>
  BY <1>1 DEF ShieldAction
<1>8. main' \in MainType /\ "action" \in Processes
  BY <1>7, StateTypes DEF IInv, Processes
<1>9. Watching(f) /\ Granting(f)'
  BY <1>6, <1>7, WatchedStill, GrantingStill
<1>10. QED BY <1>5, <1>7, <1>8, <1>9, SaveStep

LEMMA StorePassStep ==
  ASSUME IInv, StorePass
  PROVE  IInv'
<1>1. PICK a, f, S :
        /\ a = main.app
        /\ f = [file EXCEPT !.pass[a] = main.pass, !.asked = NotAsked]
        /\ S = {file.pass[a].n} \ {0}
  OBVIOUS
<1>2. /\ main.pc = "update" /\ a \in file.apps /\ Saves("app", f)
      /\ main' = [Idle EXCEPT !.pc = "apply", !.stop = S]
      /\ UNCHANGED <<now, shield, monitor, calls, missed, issued, faults>>
  BY <1>1 DEF StorePass
<1>3. /\ a \in Apps /\ main.pass \in Pass /\ main.pass.n \in 1 .. issued
      /\ main.pass \in monitor
      /\ \A b \in Apps : file.pass[b].n # main.pass.n
  BY <1>2, StateTypes DEF IInv, Granting, MainType
<1>4. /\ f \in File /\ f.apps = file.apps /\ f.asked = NotAsked
      /\ \A b \in Apps : f.pass[b] = IF b = a THEN main.pass ELSE file.pass[b]
  BY <1>1, <1>3, StateTypes, NothingType DEF IInv, File
<1>5. Selected(f)
  BY <1>2, <1>4, StateTypes DEF IInv, Selected
<1>6. S \in SUBSET (1 .. MaxPasses)
  BY <1>1, <1>3, StateTypes, Bounds DEF IInv, Pass
<1>7. Watching(f)
  BY <1>3, <1>4 DEF IInv, Watching
<1>8. ASSUME NEW b \in Apps PROVE f.pass[b].n \notin S
  <2>1. CASE b = a
    BY <1>1, <1>3, <1>4, <2>1
  <2>2. CASE b # a
    <3>1. file.pass[b].n # file.pass[a].n \/ file.pass[b] = NoPass
      BY <1>3, <2>2 DEF IInv, Watching
    <3>2. QED BY <1>1, <1>4, <2>2, <3>1, NothingType
  <2>3. QED BY <2>1, <2>2
<1>9. main' \in MainType /\ main'.pc = "apply" /\ main'.stop = S /\ "app" \in Processes
  BY <1>2, <1>6, MainStops DEF Processes
<1>10. Granting(f)'
  BY <1>8, <1>9 DEF Granting
<1>11. QED BY <1>2, <1>4, <1>5, <1>7, <1>9, <1>10, SaveStep

\* What is saved without being applied is nothing the shield depends on.
LEMMA HoldStep ==
  ASSUME IInv, NEW f \in File, Selected(f), f.pass = file.pass, f.apps = file.apps,
         f.enabled = file.enabled, Free, file' = f, main' = [Idle EXCEPT !.pc = "hold"],
         UNCHANGED <<now, shield, monitor, calls, todo, missed, issued, faults>>
  PROVE  IInv'
<1>1. main' \in MainType /\ main'.pc = "hold"
  BY MainAt
<1>2. TypeOK'
  BY <1>1 DEF IInv, TypeOK, Selected, MainType
<1>3. Locked'
  BY DEF Locked, Free
<1>4. Numbered' /\ Watching(file)' /\ Granting(file)'
  BY <1>1 DEF IInv, Numbered, Watching, Granting
<1>5. ShieldFollows'
  BY DEF IInv, ShieldFollows, Shielded
<1>6. RelockAhead => RelockAhead'
  BY DEF RelockAhead, Watch
<1>7. QED BY <1>2, <1>3, <1>4, <1>5, <1>6 DEF IInv

LEMMA SetDurationStep ==
  ASSUME IInv, NEW m \in Durations, SetDuration(m)
  PROVE  IInv'
<1>1. PICK f : f = [file EXCEPT !.minutes = m]
  OBVIOUS
<1>2. /\ f \in File /\ f.pass = file.pass /\ f.apps = file.apps
      /\ f.enabled = file.enabled /\ f.asked = file.asked
  BY <1>1, StateTypes DEF IInv, File
<1>3. Selected(f)
  BY <1>2, StateTypes DEF IInv, Selected
<1>4. /\ Free /\ file' = f /\ main' = [Idle EXCEPT !.pc = "hold"]
      /\ UNCHANGED <<now, shield, monitor, calls, todo, missed, issued, faults>>
  BY <1>1 DEF SetDuration
<1>5. QED BY <1>2, <1>3, <1>4, HoldStep

LEMMA ConsumeChallengeStep ==
  ASSUME IInv, ConsumeChallenge
  PROVE  IInv'
<1>1. PICK f : f = [file EXCEPT !.asked = NotAsked]
  OBVIOUS
<1>2. /\ f \in File /\ f.pass = file.pass /\ f.apps = file.apps
      /\ f.enabled = file.enabled /\ f.asked = NotAsked
  BY <1>1, StateTypes, NothingType DEF IInv, File
<1>3. Selected(f)
  BY <1>2, StateTypes DEF IInv, Selected
<1>4. /\ Free /\ file' = f /\ main' = [Idle EXCEPT !.pc = "hold"]
      /\ UNCHANGED <<now, shield, monitor, calls, todo, missed, issued, faults>>
  BY <1>1 DEF ConsumeChallenge
<1>5. QED BY <1>2, <1>3, <1>4, HoldStep

-----------------------------------------------------------------------------
(* Steps that leave the file alone.                                        *)

\* What is left to show of a step that starts or stops monitors.
LEMMA QuietStep ==
  ASSUME IInv, UNCHANGED <<now, file, shield, todo, missed, faults>>,
         main' \in MainType, monitor' \subseteq Pass,
         calls' \subseteq (1 .. MaxPasses) \X {"start", "end"},
         issued' \in 0 .. MaxPasses, issued <= issued',
         Numbered', Granting(file)', StopCancels \/ calls \subseteq calls',
         \A a \in Apps : file.pass[a].end > now => file.pass[a] \in monitor'
  PROVE  IInv'
<1>1. TypeOK'
  BY DEF IInv, TypeOK, MainType
<1>2. Locked' /\ ShieldFollows'
  BY DEF IInv, Locked, ShieldFollows, Shielded
<1>3. issued \in Nat /\ issued' \in Nat
  BY StateTypes, Bounds DEF IInv
<1>4. \A a \in Apps : file.pass[a] = NoPass \/ file.pass[a].n \in 1 .. issued'
  BY <1>3 DEF IInv, Watching
<1>5. Watching(file)'
  BY <1>4 DEF IInv, Watching
<1>6. StopCancels \/ RelockAhead'
  <2>1. SUFFICES ASSUME ~StopCancels, NEW a \in file.apps \ shield, file.enabled
                 PROVE  Watch(a)' \/ missed \/ (\E p \in Processes : todo[p] # None)
    BY DEF RelockAhead
  <2>2. a \in Apps
    BY StateTypes DEF IInv
  <2>3. CASE file.pass[a].end > now
    BY <2>2, <2>3 DEF Watch
  <2>4. CASE ~(file.pass[a].end > now)
    <3>1. Watch(a) \/ missed \/ (\E p \in Processes : todo[p] # None)
      BY <2>1 DEF IInv, RelockAhead
    <3>2. Watch(a) => Watch(a)'
      BY <2>1, <2>4 DEF Watch
    <3>3. QED BY <3>1, <3>2
  <2>5. QED BY <2>3, <2>4
<1>7. QED BY <1>1, <1>2, <1>5, <1>6, Numbered', Granting(file)' DEF IInv

LEMMA StoppedFacts ==
  ASSUME IInv, NEW S, Stopped(S)
  PROVE  /\ monitor' \subseteq monitor /\ monitor' \subseteq Pass
         /\ \A m \in monitor : m.n \notin S => m \in monitor'
         /\ calls' \subseteq (1 .. MaxPasses) \X {"start", "end"}
         /\ StopCancels \/ calls \subseteq calls'
BY DEF IInv, TypeOK, Stopped

LEMMA StopStep ==
  ASSUME IInv, NEW S, Stopped(S), \A a \in Apps : file.pass[a].end > now => file.pass[a].n \notin S,
         main' \in MainType, main'.pc \notin {"start", "update", "apply"},
         UNCHANGED <<now, file, shield, todo, missed, issued, faults>>
  PROVE  IInv'
<1>1. issued' \in 0 .. MaxPasses /\ issued <= issued'
  BY StateTypes DEF IInv, TypeOK
<1>2. Numbered'
  BY StoppedFacts DEF IInv, Numbered
<1>3. Granting(file)'
  BY DEF Granting
<1>4. \A a \in Apps : file.pass[a].end > now => file.pass[a] \in monitor'
  BY StoppedFacts DEF IInv, Watching
<1>5. QED BY <1>1, <1>2, <1>3, <1>4, StoppedFacts, QuietStep

\* A pass that is not over keeps its monitor when those that are over go.
LEMMA NotExpired ==
  ASSUME IInv, NEW a \in Apps, file.pass[a].end > now
  PROVE  file.pass[a].n \notin Expired
<1>1. file.pass[a] \in monitor
  BY DEF IInv, Watching
<1>2. SUFFICES ASSUME NEW x \in monitor, x.end <= now, file.pass[a].n = x.n PROVE FALSE
  BY DEF Expired
<1>3. file.pass[a] = x
  BY <1>1, <1>2 DEF IInv, Numbered
<1>4. x.end \in Nat /\ now \in Nat
  BY <1>2, StateTypes DEF IInv, Pass
<1>5. QED BY <1>2, <1>3, <1>4

LEMMA StopExpiredStep ==
  ASSUME IInv, StopExpired
  PROVE  IInv'
<1>1. PICK S : S = Expired
  OBVIOUS
<1>2. Stopped(S) /\ UNCHANGED <<now, file, shield, todo, missed, issued, faults>>
  BY <1>1 DEF StopExpired
<1>3. main' = [Idle EXCEPT !.pc = "consume"] \/ main' = Idle
  BY DEF StopExpired
<1>4. main' \in MainType /\ main'.pc \notin {"start", "update", "apply"}
  <2>1. CASE main' = [Idle EXCEPT !.pc = "consume"]
    <3>1. main' \in MainType /\ main'.pc = "consume"
      BY <2>1, MainAt
    <3>2. QED BY <3>1
  <2>2. CASE main' = Idle
    BY <2>2, NothingType
  <2>3. QED BY <1>3, <2>1, <2>2
<1>5. \A a \in Apps : file.pass[a].end > now => file.pass[a].n \notin S
  BY <1>1, NotExpired
<1>6. QED BY <1>2, <1>4, <1>5, StopStep

LEMMA StopMonitorsStep ==
  ASSUME IInv, StopMonitors
  PROVE  IInv'
<1>1. PICK S : S = main.stop
  OBVIOUS
<1>2. /\ Stopped(S) /\ main' = Idle /\ main.pc = "apply"
      /\ UNCHANGED <<now, file, shield, todo, missed, issued, faults>>
  BY <1>1 DEF StopMonitors
<1>3. \A a \in Apps : file.pass[a].n \notin S
  BY <1>1, <1>2 DEF IInv, Granting
<1>4. QED BY <1>2, <1>3, NothingType, StopStep

LEMMA GrantFailsStep ==
  ASSUME IInv, GrantFails
  PROVE  IInv'
<1>1. PICK S : S = {main.pass.n}
  OBVIOUS
<1>2. /\ Stopped(S) /\ main' = Idle /\ main.pc = "update"
      /\ UNCHANGED <<now, file, shield, todo, missed, issued, faults>>
  BY <1>1 DEF GrantFails
<1>3. \A a \in Apps : file.pass[a].n \notin S
  BY <1>1, <1>2 DEF IInv, Granting
<1>4. QED BY <1>2, <1>3, NothingType, StopStep

LEMMA GrantPassStep ==
  ASSUME IInv, NEW a \in Apps, GrantPass(a)
  PROVE  IInv'
<1>1. PICK S, pass : S = Expired /\ pass = [n |-> issued + 1, end |-> now + file.minutes]
  OBVIOUS
<1>2. /\ Stopped(S) /\ issued < MaxPasses /\ issued' = issued + 1
      /\ main' = [Idle EXCEPT !.pc = "start", !.app = a, !.pass = pass]
      /\ UNCHANGED <<now, file, shield, todo, missed, faults>>
  BY <1>1 DEF GrantPass
<1>3. issued \in Nat /\ issued' \in 0 .. MaxPasses /\ issued <= issued' /\ issued' \in 1 .. issued'
  BY <1>2, StateTypes, Bounds DEF IInv
<1>4. file.minutes \in Nat /\ now \in Nat
  BY StateTypes, Bounds DEF IInv, File
<1>5. pass \in Pass /\ pass.n = issued'
  BY <1>1, <1>2, <1>3, <1>4 DEF Pass
<1>6. main' \in MainType /\ main'.pc = "start" /\ main'.pass = pass
  BY <1>2, <1>5, NothingType DEF Idle, MainType
<1>7. \A b \in Apps : file.pass[b].n # issued'
  BY <1>2, <1>3, NothingType DEF IInv, Watching
<1>8. \A m \in monitor : m.n \in 1 .. issued /\ m.n # issued'
  BY <1>2, <1>3 DEF IInv, Numbered
<1>9. Numbered'
  BY <1>2, <1>3, <1>8, StoppedFacts DEF IInv, Numbered
<1>10. Granting(file)'
  BY <1>2, <1>3, <1>5, <1>6, <1>7, <1>8, StoppedFacts DEF Granting
<1>11. \A b \in Apps : file.pass[b].end > now => file.pass[b] \in monitor'
  BY <1>1, <1>2, StoppedFacts, NotExpired DEF IInv, Watching
<1>12. QED BY <1>2, <1>3, <1>6, <1>9, <1>10, <1>11, StoppedFacts, QuietStep

LEMMA StartMonitoringStep ==
  ASSUME IInv, StartMonitoring
  PROVE  IInv'
<1>1. PICK pass : pass = main.pass
  OBVIOUS
<1>2. /\ main.pc = "start" /\ main \in MainType /\ pass \in Pass /\ pass.n \in 1 .. issued
      /\ \A m \in monitor : m.n # pass.n
      /\ \A a \in Apps : file.pass[a].n # pass.n
  BY <1>1, StateTypes DEF StartMonitoring, IInv, Granting, MainType
<1>3. /\ UNCHANGED <<now, file, shield, todo, missed, issued, faults>>
      /\ issued' \in 0 .. MaxPasses /\ issued <= issued'
  BY StateTypes DEF StartMonitoring, IInv, TypeOK
<1>4. CASE main' = Idle /\ UNCHANGED <<monitor, calls>>
  <2>1. main' \in MainType /\ Granting(file)'
    BY <1>4, NothingType DEF Granting
  <2>2. Numbered'
    BY <1>3, <1>4 DEF IInv, Numbered
  <2>3. monitor' \subseteq Pass /\ calls' \subseteq (1 .. MaxPasses) \X {"start", "end"}
    BY <1>4 DEF IInv, TypeOK
  <2>4. \A a \in Apps : file.pass[a].end > now => file.pass[a] \in monitor'
    BY <1>4 DEF IInv, Watching
  <2>5. QED BY <1>3, <1>4, <2>1, <2>2, <2>3, <2>4, QuietStep
<1>5. CASE /\ monitor' = monitor \cup {Watched(pass)}
           /\ calls' = calls \cup {<<pass.n, "start">>}
           /\ main' = [main EXCEPT !.pc = "update"]
  <2>1. monitor' = monitor \cup {pass}
    BY <1>5 DEF Watched
  <2>2. main' \in MainType /\ main'.pc = "update" /\ main'.pass = pass
    BY <1>1, <1>2, <1>5 DEF MainType
  <2>3. Granting(file)'
    BY <1>2, <1>3, <2>1, <2>2 DEF Granting
  <2>4. Numbered'
    BY <1>2, <1>3, <2>1 DEF IInv, Numbered
  <2>5. monitor' \subseteq Pass
    BY <1>2, <2>1 DEF IInv, TypeOK
  <2>6. pass.n \in 1 .. MaxPasses
    BY <1>2, <1>3, Bounds
  <2>7. calls' \subseteq (1 .. MaxPasses) \X {"start", "end"} /\ calls \subseteq calls'
    BY <1>5, <2>6 DEF IInv, TypeOK
  <2>8. \A a \in Apps : file.pass[a].end > now => file.pass[a] \in monitor'
    BY <2>1 DEF IInv, Watching
  <2>9. QED BY <1>3, <2>2, <2>3, <2>4, <2>5, <2>7, <2>8, QuietStep
<1>6. QED BY <1>1, <1>4, <1>5 DEF StartMonitoring

LEMMA ReleaseStep ==
  ASSUME IInv, Release
  PROVE  IInv'
<1>1. /\ UNCHANGED <<now, file, shield, monitor, calls, todo, missed, issued, faults>>
      /\ main' = Idle
  BY DEF Release
<1>2. main' \in MainType /\ Granting(file)'
  BY <1>1, NothingType DEF Granting
<1>3. Numbered' /\ monitor' \subseteq Pass
  BY <1>1 DEF IInv, TypeOK, Numbered
<1>4. /\ calls' \subseteq (1 .. MaxPasses) \X {"start", "end"}
      /\ issued' \in 0 .. MaxPasses /\ issued <= issued'
  BY <1>1, StateTypes DEF IInv, TypeOK
<1>5. \A a \in Apps : file.pass[a].end > now => file.pass[a] \in monitor'
  BY <1>1 DEF IInv, Watching
<1>6. QED BY <1>1, <1>2, <1>3, <1>4, <1>5, QuietStep

LEMMA ResumeStep ==
  ASSUME IInv, Resume
  PROVE  IInv'
<1>1. /\ main' = [Idle EXCEPT !.pc = "expired"]
      /\ UNCHANGED <<now, shield, monitor, calls, missed, issued, faults>>
  BY DEF Resume
<1>2. main' \in MainType /\ main'.pc = "expired"
  BY <1>1, MainAt
<1>3. \A f : Granting(f)'
  BY <1>2 DEF Granting
<1>4. CASE Saves("app", Reconciled(file))
  <2>1. PICK f : f = Reconciled(file)
    OBVIOUS
  <2>2. f \in File /\ Selected(f) /\ Fewer(file, f)
    BY <2>1, StateTypes, ReconciledType DEF IInv, Fewer
  <2>3. Saves("app", f) /\ "app" \in Processes /\ calls' \subseteq calls
    BY <1>1, <1>4, <2>1 DEF Processes
  <2>4. QED BY <1>1, <1>2, <1>3, <2>2, <2>3, WatchedStill, SaveStep
<1>5. CASE UNCHANGED <<file, todo>>
  <2>1. Granting(file)'
    BY <1>2 DEF Granting
  <2>2. Numbered' /\ monitor' \subseteq Pass
    BY <1>1 DEF IInv, TypeOK, Numbered
  <2>3. /\ calls' \subseteq (1 .. MaxPasses) \X {"start", "end"}
        /\ issued' \in 0 .. MaxPasses /\ issued <= issued'
    BY <1>1, StateTypes DEF IInv, TypeOK
  <2>4. \A a \in Apps : file.pass[a].end > now => file.pass[a] \in monitor'
    BY <1>1 DEF IInv, Watching
  <2>5. QED BY <1>1, <1>2, <1>5, <2>1, <2>2, <2>3, <2>4, QuietStep
<1>6. QED BY <1>4, <1>5 DEF Resume

-----------------------------------------------------------------------------
(* Steps that apply the shield, faults and time.                           *)

LEMMA ApplyStep ==
  ASSUME IInv, NEW p \in Processes, Apply(p),
         UNCHANGED <<now, file, monitor, calls, main, issued, faults>>
  PROVE  IInv'
<1>1. /\ todo \in [Processes -> File \cup {None}] /\ file.apps \subseteq Apps
      /\ now \in Nat /\ \A a \in Apps : file.pass[a].end \in Nat
  BY StateTypes DEF IInv, Pass
<1>2. todo[p] = file /\ \A q \in Processes \ {p} : todo[q] = None
  BY DEF IInv, Locked, Apply
<1>3. /\ todo' = [todo EXCEPT ![p] = None] /\ missed' = FALSE /\ shield' = Shielded(file)
  BY <1>2 DEF Apply
<1>4. \A q \in Processes : todo'[q] = None
  BY <1>1, <1>2, <1>3
<1>5. TypeOK'
  <2>1. todo' \in [Processes -> File \cup {None}]
    BY <1>1, <1>3
  <2>2. shield' \subseteq Apps
    BY <1>1, <1>3 DEF Shielded
  <2>3. QED BY <1>3, <2>1, <2>2 DEF IInv, TypeOK
<1>6. Locked' /\ Numbered' /\ Watching(file)' /\ Granting(file)'
  BY <1>4 DEF IInv, Locked, Numbered, Watching, Granting
<1>7. ShieldFollows'
  BY <1>3 DEF ShieldFollows, Shielded
<1>8. RelockAhead'
  <2>1. SUFFICES ASSUME NEW a \in file.apps \ shield', file.enabled
                 PROVE  Watch(a)'
    BY DEF RelockAhead
  <2>2. a \in Apps /\ file.pass[a].end > now
    BY <1>1, <1>3, <2>1 DEF Shielded
  <2>3. QED BY <2>2 DEF IInv, Watching, Watch
<1>9. QED BY <1>5, <1>6, <1>7, <1>8 DEF IInv

\* What is left to show of a step that loses something.
LEMMA LostStep ==
  ASSUME IInv, UNCHANGED <<now, file, shield, monitor, issued>>,
         main' \in MainType, Granting(file)', calls' \subseteq calls,
         todo' \in [Processes -> File \cup {None}],
         \A p \in Processes : todo'[p] = todo[p] \/ todo'[p] = None,
         missed' \in BOOLEAN, faults' \in 0 .. MaxFaults, missed => missed',
         missed' \/ todo' = todo,
         missed' \/ calls' = calls \/ \E p \in Processes : todo'[p] # None
  PROVE  IInv'
<1>1. TypeOK'
  BY DEF IInv, TypeOK, MainType
<1>2. Locked'
  BY DEF IInv, Locked
<1>3. Numbered' /\ Watching(file)'
  BY DEF IInv, Numbered, Watching
<1>4. ShieldFollows'
  BY DEF IInv, ShieldFollows, Shielded
<1>5. RelockAhead => RelockAhead'
  BY DEF RelockAhead, Watch
<1>6. QED BY <1>1, <1>2, <1>3, <1>4, <1>5 DEF IInv

LEMMA KillAppStep ==
  ASSUME IInv, KillApp
  PROVE  IInv'
<1>1. /\ main' = Idle /\ todo' = [todo EXCEPT !["app"] = None]
      /\ missed' = (missed \/ todo["app"] # None)
      /\ faults < MaxFaults /\ faults' = faults + 1
      /\ UNCHANGED <<now, file, shield, monitor, calls, issued>>
  BY DEF KillApp, Fault
<1>2. /\ todo \in [Processes -> File \cup {None}] /\ missed \in BOOLEAN
      /\ faults \in 0 .. MaxFaults
  BY DEF IInv, TypeOK
<1>3. main' \in MainType /\ Granting(file)'
  BY <1>1, NothingType DEF Granting
<1>4. /\ todo' \in [Processes -> File \cup {None}]
      /\ \A p \in Processes : todo'[p] = todo[p] \/ todo'[p] = None
  BY <1>1, <1>2
<1>5. missed' \in BOOLEAN /\ (missed => missed') /\ (missed' \/ todo["app"] = None)
  BY <1>1, <1>2
<1>6. missed' \/ todo' = todo
  BY <1>1, <1>2, <1>5
<1>7. faults' \in 0 .. MaxFaults /\ calls' \subseteq calls /\ calls' = calls
  BY <1>1, <1>2, Bounds
<1>8. QED BY <1>1, <1>3, <1>4, <1>5, <1>6, <1>7, LostStep

LEMMA KillExtensionStep ==
  ASSUME IInv, NEW p \in Processes, KillExtension(p)
  PROVE  IInv'
<1>1. /\ todo' = [todo EXCEPT ![p] = None] /\ missed' = TRUE
      /\ faults < MaxFaults /\ faults' = faults + 1
      /\ UNCHANGED <<now, file, shield, monitor, calls, main, issued>>
  BY DEF KillExtension, Fault
<1>2. todo \in [Processes -> File \cup {None}] /\ faults \in 0 .. MaxFaults
  BY DEF IInv, TypeOK
<1>3. main' \in MainType /\ Granting(file)'
  BY <1>1, StateTypes DEF IInv, Granting
<1>4. /\ todo' \in [Processes -> File \cup {None}]
      /\ \A q \in Processes : todo'[q] = todo[q] \/ todo'[q] = None
  BY <1>1, <1>2
<1>5. faults' \in 0 .. MaxFaults /\ calls' \subseteq calls
  BY <1>1, <1>2, Bounds
<1>6. QED BY <1>1, <1>3, <1>4, <1>5, LostStep

LEMMA MonitorFailsStep ==
  ASSUME IInv, NEW c \in calls, MonitorFails(c)
  PROVE  IInv'
<1>1. /\ missed' = TRUE /\ calls' \subseteq calls
      /\ faults < MaxFaults /\ faults' = faults + 1
      /\ UNCHANGED <<now, file, shield, monitor, main, todo, issued>>
  BY DEF MonitorFails, Fault
<1>2. todo \in [Processes -> File \cup {None}] /\ faults \in 0 .. MaxFaults
  BY DEF IInv, TypeOK
<1>3. main' \in MainType /\ Granting(file)'
  BY <1>1, StateTypes DEF IInv, Granting
<1>4. faults' \in 0 .. MaxFaults
  BY <1>1, <1>2, Bounds
<1>5. QED BY <1>1, <1>2, <1>3, <1>4, LostStep

LEMMA MonitorGivesUpStep ==
  ASSUME IInv, NEW c \in calls, MonitorGivesUp(c)
  PROVE  IInv'
<1>1. /\ calls' \subseteq calls /\ \E p \in Processes : todo[p] # None
      /\ UNCHANGED <<now, file, shield, monitor, main, todo, missed, issued, faults>>
  BY DEF MonitorGivesUp
<1>2. /\ todo \in [Processes -> File \cup {None}] /\ missed \in BOOLEAN
      /\ faults \in 0 .. MaxFaults
  BY DEF IInv, TypeOK
<1>3. main' \in MainType /\ Granting(file)'
  BY <1>1, StateTypes DEF IInv, Granting
<1>4. QED BY <1>1, <1>2, <1>3, LostStep

\* A pass that is over now had a monitor, and it ends now.
LEMMA TickStep ==
  ASSUME IInv, Tick
  PROVE  IInv'
<1>1. PICK ends : ends = { <<m.n, "end">> : m \in { x \in monitor : x.end = now' } }
  OBVIOUS
<1>2. /\ now < MaxTime /\ now' = now + 1 /\ calls' = calls \cup ends
      /\ UNCHANGED <<file, shield, monitor, main, todo, missed, issued, faults>>
  BY <1>1 DEF Tick
<1>3. /\ now \in Nat /\ now' \in Times /\ now' \in Nat /\ file.apps \subseteq Apps
      /\ \A a \in Apps : file.pass[a].end \in Nat
  BY <1>2, StateTypes, Bounds DEF IInv, Times, Pass
<1>4. ends \subseteq (1 .. MaxPasses) \X {"start", "end"}
  <2>1. SUFFICES ASSUME NEW m \in monitor PROVE m.n \in 1 .. MaxPasses
    BY <1>1
  <2>2. m.n \in 1 .. issued /\ issued \in 0 .. MaxPasses
    BY DEF IInv, Numbered, TypeOK
  <2>3. QED BY <2>2, Bounds
<1>5. TypeOK'
  BY <1>2, <1>3, <1>4 DEF IInv, TypeOK
<1>6. Locked' /\ Numbered' /\ Granting(file)'
  BY <1>2 DEF IInv, Locked, Numbered, Granting
<1>7. Watching(file)'
  BY <1>2, <1>3 DEF IInv, Watching
<1>8. Shielded(file) \subseteq Shielded(file)'
  BY <1>2, <1>3 DEF Shielded
<1>9. ShieldFollows'
  BY <1>2, <1>8 DEF IInv, ShieldFollows
<1>10. RelockAhead => RelockAhead'
  <2>1. SUFFICES ASSUME NEW a \in Apps, Watch(a)
                 PROVE  Watch(a)'
    BY <1>2, <1>3 DEF RelockAhead
  <2>2. CASE file.pass[a].end > now'
    BY <1>2, <1>3, <2>1, <2>2 DEF Watch
  <2>3. CASE file.pass[a].end = now'
    <3>1. file.pass[a] \in monitor
      BY <1>2, <1>3, <2>3 DEF IInv, Watching
    <3>2. ends # {}
      BY <1>1, <2>3, <3>1
    <3>3. QED BY <1>2, <1>3, <2>3, <3>2 DEF Watch
  <2>4. CASE ~(file.pass[a].end > now)
    BY <1>2, <1>3, <2>1, <2>4 DEF Watch
  <2>5. QED BY <1>2, <1>3, <2>2, <2>3, <2>4
<1>11. QED BY <1>5, <1>6, <1>7, <1>9, <1>10 DEF IInv

-----------------------------------------------------------------------------
(* The invariant.                                                          *)

LEMMA InitInv == Init => IInv
<1>1. SUFFICES ASSUME Init PROVE IInv
  OBVIOUS
<1>2. /\ now = 0 /\ shield = {} /\ monitor = {} /\ calls = {} /\ main = Idle
      /\ todo = [p \in Processes |-> None]
      /\ missed = FALSE /\ issued = 0 /\ faults = 0
  BY <1>1, Zenon DEF Init
<1>3. PICK minutes \in Durations :
        file = [ enabled |-> FALSE, minutes |-> minutes, apps |-> {},
                 pass |-> [a \in Apps |-> NoPass], asked |-> NotAsked ]
  <2>1. PICK minutes : minutes = CHOOSE m \in Durations : TRUE
    OBVIOUS
  <2>2. minutes \in Durations
    BY <2>1, Bounds, Zenon
  <2>3. QED BY <1>1, <2>1, <2>2, Zenon DEF Init
<1>4. /\ file \in File /\ file.apps = {} /\ file.asked = NotAsked
      /\ \A a \in Apps : file.pass[a] = NoPass
  BY <1>3, NothingType DEF File
<1>5. todo \in [Processes -> File \cup {None}] /\ \A p \in Processes : todo[p] = None
  BY <1>2
<1>6. now \in Times /\ main \in MainType /\ issued \in 0 .. MaxPasses /\ faults \in 0 .. MaxFaults
  BY <1>2, Bounds, NothingType
<1>7. TypeOK
  BY <1>2, <1>4, <1>5, <1>6 DEF TypeOK, MainType
<1>8. Locked /\ Numbered /\ Watching(file) /\ Granting(file)
  BY <1>2, <1>4, <1>5, NothingType DEF Locked, Numbered, Watching, Granting
<1>9. ShieldFollows /\ RelockAhead
  BY <1>2, <1>4 DEF ShieldFollows, RelockAhead
<1>10. QED BY <1>7, <1>8, <1>9 DEF IInv

LEMMA StutterStep ==
  ASSUME IInv, UNCHANGED vars
  PROVE  IInv'
<1>1. TypeOK' /\ Locked' /\ Numbered'
  BY DEF IInv, vars, TypeOK, Locked, Numbered
<1>2. Watching(file)' /\ Granting(file)'
  BY DEF IInv, vars, Watching, Granting
<1>3. ShieldFollows' /\ (RelockAhead => RelockAhead')
  BY DEF IInv, vars, ShieldFollows, Shielded, RelockAhead, Watch
<1>4. QED BY <1>1, <1>2, <1>3 DEF IInv

LEMMA NextStep == IInv /\ [Next]_vars => IInv'
<1>1. SUFFICES ASSUME IInv, [Next]_vars PROVE IInv'
  OBVIOUS
<1>2. CASE \E m \in Durations : Enable(m) \/ SetDuration(m)
  BY <1>1, <1>2, EnableStep, SetDurationStep
<1>3. CASE Disable \/ \E S \in SUBSET Apps : SaveSelection(S)
  BY <1>1, <1>3, DisableStep, SaveSelectionStep
<1>4. CASE \E a \in Apps : RevokePass(a) \/ GrantPass(a) \/ ShieldAction(a)
  BY <1>1, <1>4, RevokePassStep, GrantPassStep, ShieldActionStep
<1>5. CASE ConsumeChallenge \/ Release \/ Resume \/ StopExpired
  BY <1>1, <1>5, ConsumeChallengeStep, ReleaseStep, ResumeStep, StopExpiredStep
<1>6. CASE StartMonitoring \/ StorePass \/ GrantFails \/ StopMonitors
  BY <1>1, <1>6, StartMonitoringStep, StorePassStep, GrantFailsStep, StopMonitorsStep
<1>7. CASE \E c \in calls : MonitorCalled(c) \/ MonitorGivesUp(c) \/ MonitorFails(c)
  BY <1>1, <1>7, MonitorCalledStep, MonitorGivesUpStep, MonitorFailsStep
<1>8. CASE \E p \in Processes : ExtensionApplies(p) \/ KillExtension(p)
  BY <1>1, <1>8, ApplyStep, KillExtensionStep DEF ExtensionApplies
<1>9. CASE AppApplies
  BY <1>1, <1>9, ApplyStep DEF AppApplies, Processes
<1>10. CASE KillApp \/ Tick
  BY <1>1, <1>10, KillAppStep, TickStep
<1>11. CASE UNCHANGED vars
  BY <1>1, <1>11, StutterStep
<1>12. QED
  BY <1>1, <1>2, <1>3, <1>4, <1>5, <1>6, <1>7, <1>8, <1>9, <1>10, <1>11 DEF Next

LEMMA Inductive == Spec => []IInv
BY InitInv, NextStep, PTL DEF Spec

(***************************************************************************)
(* The saved state never has a pass or a challenge for an app that is not  *)
(* selected, and the numbers of passes, monitors and calls stay in range.  *)
(***************************************************************************)
THEOREM GateTyped == Spec => []TypeOK
<1>1. IInv => TypeOK
  BY DEF IInv
<1>2. QED BY <1>1, Inductive, PTL

(***************************************************************************)
(* With nobody inside the lock, no app is blocked that has a valid pass,   *)
(* is not selected, or while protection is off, unless a process was       *)
(* killed, or a relock failed, since the shield was last applied.          *)
(***************************************************************************)
THEOREM ShieldTrue == Spec => []ShieldFollows
<1>1. IInv => ShieldFollows
  BY DEF IInv
<1>2. QED BY <1>1, Inductive, PTL

(***************************************************************************)
(* Where a stop takes back no call that is due: a protected app that is    *)
(* open has a pass with a monitor which ends with it, or the system owes   *)
(* a call, or a process is about to apply the shield, or a relock was lost.*)
(***************************************************************************)
THEOREM RelockComes == ASSUME ~StopCancels PROVE Spec => []RelockAhead
<1>1. IInv => RelockAhead
  BY DEF IInv
<1>2. QED BY <1>1, Inductive, PTL
=============================================================================
