--------------------------- MODULE NativeGateProps --------------------------
(***************************************************************************)
(* What the repository's README promises of native protection.             *)
(***************************************************************************)
EXTENDS NativeGate

(***************************************************************************)
(* "A renewed pass surviving an old monitor callback", and apps "unlocked  *)
(* separately": with nobody inside the lock, no app is blocked that has a  *)
(* valid pass, is not selected, or while protection is off - unless a      *)
(* process was killed before it could apply what it had saved.             *)
(***************************************************************************)
ShieldFollows ==
  ~missed /\ (\A p \in Processes : todo[p] = None) => shield \subseteq Shielded(file)

\* Something will look at the time again before app a matters.
Watch(a) ==
  LET pass == file.pass[a] IN
  IF pass.end > now THEN \E m \in monitor : m.n = pass.n /\ m.end = pass.end
  ELSE calls # {}

(***************************************************************************)
(* "Background relocking": a protected app that is open has a pass with a  *)
(* monitor which ends with it, or, once the pass is over, the system still *)
(* owes a call, or a process is about to apply the shield - also when that *)
(* call gives up on the lock.  Only a kill or a failed relock leaves an    *)
(* app open until the next look.                                           *)
(***************************************************************************)
RelockAhead ==
  \A a \in file.apps \ shield :
    file.enabled => Watch(a) \/ missed \/ (\E p \in Processes : todo[p] # None)
=============================================================================
