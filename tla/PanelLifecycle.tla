--------------------------- MODULE PanelLifecycle --------------------------
(***************************************************************************)
(* The panel (panel/panel.go) around one node of ServiceReload: Start,     *)
(* background retries of a node that failed, replacement of the panel when *)
(* its file changes and the end of the process (cmd/root.go).  What one    *)
(* panel does to its nodes it does one after the other, so one node shows  *)
(* it; the Xray core and the registry of the unlock check are left out.    *)
(*                                                                         *)
(* The handler of file changes and the exit take turns under panelMu.  The *)
(* three seconds in which further changes of the file are ignored, and     *)
(* files that cannot be loaded, only make replacements fewer: when one     *)
(* comes is open here (MaxReloads of them).                                *)
(***************************************************************************)
EXTENDS ServiceReload

CONSTANT MaxReloads  \* bound on changes of the configuration file

VARIABLES
  phase,      \* where Start or Close of the panel is
  retry,      \* where the goroutine of retryNodes is, "none" if there is none
  stop,       \* retryStop is closed
  registered, \* p.Service holds the service
  exiting,    \* the process is told to end
  reloads

panelVars == <<phase, retry, stop, registered, exiting, reloads>>
vars == <<serviceVars, panelVars>>

Init ==
  /\ kind \in Kinds
  /\ panel \in [info : Infos, users : SUBSET Users]
  /\ NoService
  /\ edits = 0 /\ faults = 0
  /\ phase = "down" /\ retry = "none" /\ stop = FALSE /\ registered = FALSE
  /\ exiting = FALSE /\ reloads = 0

----------------------------------------------------------------------------
(* Start: newNodeService, then startService, which closes what failed.     *)

Create ==
  /\ phase = "down" /\ ~exiting
  /\ UNCHANGED serviceVars
  /\ phase' = "starting"
  /\ UNCHANGED <<retry, stop, registered, exiting, reloads>>

StartSucceeds ==
  /\ phase = "starting"
  /\ StartService
  /\ phase' = "up" /\ registered' = TRUE
  /\ UNCHANGED <<retry, stop, exiting, reloads>>

StartGoesOn ==
  /\ phase = "starting"
  /\ StartFails
  /\ phase' = "up" /\ retry' = "waiting" /\ stop' = FALSE
  /\ UNCHANGED <<registered, exiting, reloads>>

----------------------------------------------------------------------------
(* retryNodes.                                                             *)

\* The timer is set anew after each attempt, so a closed channel wins.
RetryCreates ==
  /\ retry = "waiting" /\ ~stop
  /\ UNCHANGED serviceVars
  /\ retry' = "starting"
  /\ UNCHANGED <<phase, stop, registered, exiting, reloads>>

RetryStarts ==
  /\ retry = "starting"
  /\ \/ StartService /\ retry' = "started"
     \/ StartFails /\ retry' = "waiting"
  /\ UNCHANGED <<phase, stop, registered, exiting, reloads>>

\* Under access: the service is handed over, or closed if the panel closes.
RetryRegisters ==
  /\ retry = "started" /\ ~stop
  /\ retry' = "none" /\ registered' = TRUE
  /\ UNCHANGED <<serviceVars, phase, stop, exiting, reloads>>

RetryCloses ==
  /\ retry = "started" /\ stop
  /\ \/ BeginClose /\ UNCHANGED retry
     \/ Close /\ retry' = "none"
  /\ UNCHANGED <<phase, stop, registered, exiting, reloads>>

RetryStops ==
  /\ retry = "waiting" /\ stop
  /\ retry' = "none"
  /\ UNCHANGED <<serviceVars, phase, stop, registered, exiting, reloads>>

----------------------------------------------------------------------------
(* Close.                                                                  *)

CloseRetry ==
  /\ phase' = "closing" /\ stop' = TRUE
  /\ UNCHANGED <<serviceVars, retry, registered>>

\* The file changed and its configuration can be loaded.
ConfigChanges ==
  /\ phase = "up" /\ ~exiting /\ reloads < MaxReloads
  /\ reloads' = reloads + 1
  /\ CloseRetry
  /\ UNCHANGED exiting

\* SIGTERM: the lock is kept, so no panel is started again.
Exit ==
  /\ ~exiting
  /\ exiting' = TRUE
  /\ UNCHANGED <<serviceVars, phase, retry, stop, registered, reloads>>
ExitCloses ==
  /\ exiting /\ phase = "up"
  /\ CloseRetry
  /\ UNCHANGED <<exiting, reloads>>

\* Mutant of RetryDone: Close tells the goroutine to stop and goes on.
RetryIgnored == TRUE
\* Close waits for the goroutine.
RetryDone == retry = "none"

CloseService ==
  /\ phase = "closing" /\ RetryDone /\ registered
  /\ \/ BeginClose /\ UNCHANGED registered
     \/ Close /\ registered' = FALSE
  /\ UNCHANGED <<phase, retry, stop, exiting, reloads>>

CloseEnds ==
  /\ phase = "closing" /\ RetryDone /\ ~registered
  /\ phase' = "down"
  /\ UNCHANGED <<serviceVars, retry, stop, registered, exiting, reloads>>

----------------------------------------------------------------------------

Main == Create \/ StartSucceeds \/ StartGoesOn \/ ExitCloses \/ CloseService \/ CloseEnds
Retry == RetryCreates \/ RetryStarts \/ RetryRegisters \/ RetryCloses \/ RetryStops

Next ==
  \/ Main \/ Retry \/ ConfigChanges \/ Exit
  \/ (Service \/ Edit) /\ UNCHANGED panelVars

Spec == Init /\ [][Next]_vars

(* Start and Close go on, and so does the goroutine: its timer fires.       *)
FairSpec ==
  /\ Spec
  /\ ServiceFairness
  /\ WF_vars(Main) /\ WF_vars(Retry)

----------------------------------------------------------------------------
(* Properties.                                                             *)

PanelTypeOK ==
  /\ TypeOK
  /\ phase \in {"down", "starting", "up", "closing"}
  /\ retry \in {"none", "waiting", "starting", "started"}
  /\ {stop, registered, exiting} \subseteq BOOLEAN

\* Between two panels, and after the last, no server listens and no task runs:
\* neither a registered service nor one a retry was starting when the panel was
\* closed; so two panels never compete for a port or a ledger (Panel.Close).
NothingOutlivesPanel ==
  phase = "down" => /\ closed /\ box = NoBox /\ reload = NoReload
                    /\ retry = "none" /\ TasksDone

\* The panel's last word is carried out: the node runs the last info, if it can
\* be built, and its server knows every user; through failed starts, builds and
\* rollbacks, changes of the file, recoveries, certificates renewed for an older
\* info, and servers that stop.  A process told to end closes everything.
Converges == <>[](IF exiting THEN phase = "down" ELSE Settled)
=============================================================================
