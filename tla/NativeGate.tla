----------------------------- MODULE NativeGate -----------------------------
(***************************************************************************)
(* The protection of apps by Screen Time: a file with the selected apps    *)
(* and their passes, which the app and two of its extensions change under  *)
(* a file lock; the shield, which the system puts on apps; and monitors,   *)
(* by which the system calls an extension when a pass is over.             *)
(*                                                                         *)
(* Inside the lock there are two steps, so that a process may be suspended *)
(* or killed between them: the file is saved, the shield is applied.       *)
(***************************************************************************)
EXTENDS Integers

CONSTANTS
  Apps, None,
  Durations,     \* lengths of a pass
  Life,          \* how long a challenge waits for the app
  StopCancels,   \* does stopping a monitor take back a call that is due?
  MaxTime, MaxPasses, MaxFaults   \* bounds

ASSUME GateAssumption ==
  /\ None \notin Apps /\ StopCancels \in BOOLEAN
  /\ Durations # {} /\ Durations \subseteq Nat \ {0} /\ Life \in Nat
  /\ MaxTime \in Nat /\ MaxPasses \in Nat /\ MaxFaults \in Nat

VARIABLES
  now,
  file,      \* state.json
  shield,    \* the apps that are blocked
  monitor,   \* the activities the system knows
  calls,     \* calls of the monitor extension it owes
  main,      \* what the app is doing
  todo,      \* the state a process still has to apply, with the lock in hand
  missed,    \* history: a relock was lost since the shield was last applied
  issued, faults

vars == <<now, file, shield, monitor, calls, main, todo, missed, issued, faults>>

Processes == {"app", "monitor", "action"}
Times == 0 .. MaxTime
NoPass == [n |-> 0, end |-> 0]
Pass == [n : 0 .. MaxPasses, end : Nat]
NotAsked == [app |-> None, at |-> 0]
File == [ enabled : BOOLEAN, minutes : Durations, apps : SUBSET Apps,
          pass : [Apps -> Pass], asked : [app : Apps \cup {None}, at : Times] ]

\* Nothing to apply is not a state.
ASSUME NothingAssumption == None \notin File

Idle == [pc |-> "idle", app |-> None, pass |-> NoPass, stop |-> {}]

TypeOK ==
  /\ now \in Times /\ shield \subseteq Apps
  /\ file \in File
  /\ \A a \in Apps : file.pass[a] # NoPass => a \in file.apps
  /\ file.asked # NotAsked => file.asked.app \in file.apps
  /\ monitor \subseteq Pass
  /\ calls \subseteq (1 .. MaxPasses) \X {"start", "end"}
  /\ main \in [ pc : {"idle", "start", "update", "apply", "expired", "consume", "hold"},
                app : Apps \cup {None}, pass : Pass, stop : SUBSET (1 .. MaxPasses) ]
  /\ todo \in [Processes -> File \cup {None}]
  /\ missed \in BOOLEAN /\ issued \in 0 .. MaxPasses /\ faults \in 0 .. MaxFaults

Init ==
  /\ now = 0 /\ shield = {} /\ monitor = {} /\ calls = {} /\ main = Idle
  /\ file = [ enabled |-> FALSE, minutes |-> CHOOSE m \in Durations : TRUE,
              apps |-> {}, pass |-> [a \in Apps |-> NoPass], asked |-> NotAsked ]
  /\ todo = [p \in Processes |-> None]
  /\ missed = FALSE /\ issued = 0 /\ faults = 0

-----------------------------------------------------------------------------
(* The state.                                                              *)

\* shieldedApplicationIDs.
Shielded(f) ==
  IF f.enabled THEN { a \in f.apps : f.pass[a].end <= now } ELSE {}

\* Mutant: what is no longer selected keeps its pass.
ReconciledByTime(f) ==
  [f EXCEPT !.pass = [a \in Apps |-> IF f.pass[a].end > now THEN f.pass[a] ELSE NoPass]]

Reconciled(f) ==
  [f EXCEPT
    !.pass = [a \in Apps |->
       IF a \in f.apps /\ f.pass[a].end > now THEN f.pass[a] ELSE NoPass],
    !.asked = IF @.app \notin f.apps \/ now - @.at > Life THEN NotAsked ELSE @]

\* Mutant: the lock is released before the shield is applied.
FreeToSave == main.pc # "hold"

Free == main.pc # "hold" /\ \A p \in Processes : todo[p] = None

\* A process takes the lock, and saves f.
Saves(p, f) == Free /\ file' = f /\ todo' = [todo EXCEPT ![p] = f]

\* stopMonitoring.
Stopped(S) ==
  /\ monitor' = { m \in monitor : m.n \notin S }
  /\ calls' = IF StopCancels THEN { c \in calls : c[1] \notin S } ELSE calls

Expired == { m.n : m \in { x \in monitor : x.end <= now } }

\* The shield of all apps, from the saved state and the time it is now; then
\* the lock is released.
Apply(p) ==
  /\ todo[p] # None
  /\ shield' = Shielded(todo[p])
  /\ todo' = [todo EXCEPT ![p] = None]
  /\ missed' = FALSE

-----------------------------------------------------------------------------
(* The app.                                                                *)

\* An operation that saves, applies and then stops the monitors S.
Change(f, S) ==
  /\ main.pc = "idle" /\ Saves("app", f)
  /\ main' = [Idle EXCEPT !.pc = "apply", !.stop = S]
  /\ UNCHANGED <<now, shield, monitor, calls, missed, issued, faults>>

Enable(minutes) ==
  /\ file.apps # {}
  /\ Change(Reconciled([file EXCEPT !.enabled = TRUE, !.minutes = minutes]), {})

Disable ==
  Change([ file EXCEPT !.enabled = FALSE, !.pass = [a \in Apps |-> NoPass],
                       !.asked = NotAsked ],
         1 .. MaxPasses)

SaveSelection(S) ==
  LET f == Reconciled([file EXCEPT !.apps = S]) IN
  Change(IF S = {} THEN [f EXCEPT !.enabled = FALSE, !.asked = NotAsked] ELSE f,
         { file.pass[a].n : a \in Apps \ S } \ {0})

RevokePass(a) ==
  Change([file EXCEPT !.pass[a] = NoPass], {file.pass[a].n} \ {0})

\* Neither of these applies anything.
SetDuration(minutes) ==
  /\ main.pc = "idle" /\ Free
  /\ file' = [file EXCEPT !.minutes = minutes]
  /\ main' = [Idle EXCEPT !.pc = "hold"]
  /\ UNCHANGED <<now, shield, monitor, calls, todo, missed, issued, faults>>

ConsumeChallenge ==
  /\ main.pc \in {"idle", "consume"} /\ Free
  /\ file' = [file EXCEPT !.asked = NotAsked]
  /\ main' = [Idle EXCEPT !.pc = "hold"]
  /\ UNCHANGED <<now, shield, monitor, calls, todo, missed, issued, faults>>

Release ==
  /\ main.pc = "hold" /\ main' = Idle
  /\ UNCHANGED <<now, file, shield, monitor, calls, todo, missed, issued, faults>>

\* The app comes to the foreground: it reconciles, if it gets the lock, stops
\* the monitors that are over, and looks for a challenge, with the lock again.
Resume ==
  /\ main.pc = "idle"
  /\ main' = [Idle EXCEPT !.pc = "expired"]
  /\ \/ Saves("app", Reconciled(file)) \/ UNCHANGED <<file, todo>>
  /\ UNCHANGED <<now, shield, monitor, calls, missed, issued, faults>>

StopExpired ==
  /\ main.pc = "expired" /\ todo["app"] = None
  /\ Stopped(Expired)
  /\ main' \in { [Idle EXCEPT !.pc = "consume"], Idle }
  /\ UNCHANGED <<now, file, shield, todo, missed, issued, faults>>

\* Mutant: the monitor ends when the pass is still good.
WatchedInShort(pass) == [pass EXCEPT !.end = @ - 1]

\* The monitor ends with the pass.
Watched(pass) == pass

GrantPass(a) ==
  /\ main.pc = "idle" /\ Free /\ issued < MaxPasses
  /\ file.enabled /\ a \in file.apps
  /\ Stopped(Expired)
  /\ issued' = issued + 1
  /\ main' = [ Idle EXCEPT !.pc = "start", !.app = a,
                 !.pass = [n |-> issued + 1, end |-> now + file.minutes] ]
  /\ UNCHANGED <<now, file, shield, todo, missed, faults>>

\* The system may refuse, and does so for an interval that is over.
StartMonitoring ==
  /\ main.pc = "start"
  /\ \/ /\ main.pass.end > now
        /\ monitor' = monitor \cup {Watched(main.pass)}
        /\ calls' = calls \cup {<<main.pass.n, "start">>}
        /\ main' = [main EXCEPT !.pc = "update"]
     \/ main' = Idle /\ UNCHANGED <<monitor, calls>>
  /\ UNCHANGED <<now, file, shield, todo, missed, issued, faults>>

StorePass ==
  LET a == main.app IN
  /\ main.pc = "update" /\ file.enabled /\ a \in file.apps
  /\ Saves("app", [file EXCEPT !.pass[a] = main.pass, !.asked = NotAsked])
  /\ main' = [Idle EXCEPT !.pc = "apply", !.stop = {file.pass[a].n} \ {0}]
  /\ UNCHANGED <<now, shield, monitor, calls, missed, issued, faults>>

\* No lock in time, or the file cannot be written.
GrantFails ==
  /\ main.pc = "update" /\ main' = Idle
  /\ Stopped({main.pass.n})
  /\ UNCHANGED <<now, file, shield, todo, missed, issued, faults>>

AppApplies ==
  /\ Apply("app")
  /\ UNCHANGED <<now, file, monitor, calls, main, issued, faults>>

\* After the update, outside the lock.
StopMonitors ==
  /\ main.pc = "apply" /\ todo["app"] = None /\ main' = Idle
  /\ Stopped(main.stop)
  /\ UNCHANGED <<now, file, shield, todo, missed, issued, faults>>

-----------------------------------------------------------------------------
(* The extensions.                                                         *)

\* intervalDidStart, intervalDidEnd: the same, whatever monitor it is for.
MonitorCalled(c) ==
  /\ Saves("monitor", Reconciled(file))
  /\ calls' = calls \ {c}
  /\ UNCHANGED <<now, shield, monitor, main, missed, issued, faults>>

\* It gives up waiting for a process that is about to apply the shield.
MonitorGivesUp(c) ==
  /\ \E p \in Processes : todo[p] # None
  /\ calls' = calls \ {c}
  /\ UNCHANGED <<now, file, shield, monitor, main, todo, missed, issued, faults>>

\* A tap on the button of the shield.
ShieldAction(a) ==
  LET f == Reconciled(file) IN
  /\ a \in shield
  /\ Saves("action", IF a \in Shielded(f) THEN [f EXCEPT !.asked = [app |-> a, at |-> now]]
                     ELSE f)
  /\ UNCHANGED <<now, shield, monitor, calls, main, missed, issued, faults>>

ExtensionApplies(p) ==
  /\ p # "app" /\ Apply(p)
  /\ UNCHANGED <<now, file, monitor, calls, main, issued, faults>>

-----------------------------------------------------------------------------
(* Faults, and time.                                                       *)

Fault == faults < MaxFaults /\ faults' = faults + 1

KillApp ==
  /\ Fault /\ main' = Idle
  /\ todo' = [todo EXCEPT !["app"] = None]
  /\ missed' = (missed \/ todo["app"] # None)
  /\ UNCHANGED <<now, file, shield, monitor, calls, issued>>

KillExtension(p) ==
  /\ Fault /\ p # "app" /\ todo[p] # None
  /\ todo' = [todo EXCEPT ![p] = None] /\ missed' = TRUE
  /\ UNCHANGED <<now, file, shield, monitor, calls, main, issued>>

\* The lock is held by a process that applies nothing, or the file cannot be
\* read or written: the relock is only logged.
MonitorFails(c) ==
  /\ Fault /\ calls' = calls \ {c} /\ missed' = TRUE
  /\ UNCHANGED <<now, file, shield, monitor, main, todo, issued>>

Tick ==
  /\ now < MaxTime /\ now' = now + 1
  /\ calls' = calls \cup { <<m.n, "end">> : m \in { x \in monitor : x.end = now' } }
  /\ UNCHANGED <<file, shield, monitor, main, todo, missed, issued, faults>>

Next ==
  \/ \E m \in Durations : Enable(m) \/ SetDuration(m)
  \/ Disable \/ (\E S \in SUBSET Apps : SaveSelection(S))
  \/ \E a \in Apps : RevokePass(a) \/ GrantPass(a) \/ ShieldAction(a)
  \/ ConsumeChallenge \/ Release \/ Resume \/ StopExpired
  \/ StartMonitoring \/ StorePass \/ GrantFails \/ AppApplies \/ StopMonitors
  \/ \E c \in calls : MonitorCalled(c) \/ MonitorGivesUp(c) \/ MonitorFails(c)
  \/ \E p \in Processes : ExtensionApplies(p) \/ KillExtension(p)
  \/ KillApp \/ Tick

Spec == Init /\ [][Next]_vars
=============================================================================
