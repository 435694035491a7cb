--------------------------- MODULE ServiceReload ---------------------------
(***************************************************************************)
(* One node of the services outside the Xray core (service/anytls,         *)
(* service/tuic, service/hysteria2): its server, what the monitors of      *)
(* node, users and certificate do to it, rollback, retry and Close.  The   *)
(* three are one program but for the parts named after them; kind says     *)
(* which one runs.                                                         *)
(*                                                                         *)
(* A step ends where another goroutine can run: reloadMu (taken while      *)
(* reload is not NoReload), mu, a call.  Monitors run under the read lock  *)
(* of lifecycleMu, so Close waits until all are idle.  Whether a server    *)
(* can be built (its certificate issued, its port bound) and started, and  *)
(* its users replaced, is open, MaxFaults failures.  Left out: rules,      *)
(* reports, the domain the certificate is issued for, the firewall rules   *)
(* of port hopping, the front listener of the PROXY protocol, which lives  *)
(* and dies with the box, users that are malformed for good, and two       *)
(* executions of one task at once after a recovery.                        *)
(***************************************************************************)
EXTENDS Integers

CONSTANTS
  Kinds,      \* services looked at, of "anytls", "tuic", "hysteria2"
  Infos,      \* node infos the panel may give
  Refused,    \* those of another type of node, or without a port
  Broken,     \* those no server can be built from
  Users,      \* credentials the panel may list
  MaxEdits,   \* bound on changes of the panel and certificates renewed
  MaxFaults   \* bound on failures of servers to be built, started, to stay up,
              \* to take new users, and on recoveries

ASSUME KindsAreKnown == Kinds \subseteq {"anytls", "tuic", "hysteria2"}
ASSUME BrokenAreInfos == Broken \subseteq Infos
ASSUME RefusedAreInfos == Refused \subseteq Infos

VARIABLES
  kind,
  panel,       \* info and users the panel has now
  nodeInfo, authUsers, builtUsers,
  lifecycle,   \* "open", "closing" while Close waits for lifecycleMu, "closed"
  mark,        \* rebuildPending; whether rebuildBackoff is not zero; whether
               \* rebuildRetryAt is ahead
  box,         \* the box or server: what it was built from, its users and
               \* whether it is up, or NoBox
  recovery,    \* "sleeping" while triggerRecovery has the tasks stopped
  late,        \* a serve goroutine has found its server down, not yet marked
  reload,      \* the reload that holds reloadMu, or NoReload
  node, user, cert,  \* where the monitors are
  edits, faults

serviceVars ==
  <<kind, panel, nodeInfo, authUsers, builtUsers,
    lifecycle, mark, box, late, reload, recovery, node, user, cert, edits, faults>>
world == <<kind, panel, edits>>
known == <<authUsers, builtUsers>>
life == <<lifecycle, recovery>>
monitors == <<node, user, cert>>

NoBox == [state |-> "none"]
NoReload == [step |-> "none"]
FirstMark == [pending |-> TRUE, backoff |-> TRUE, waiting |-> FALSE]
NoMark == [pending |-> FALSE, backoff |-> FALSE, waiting |-> FALSE]
closed == lifecycle = "closed"
Idle == [pc |-> "idle"]

\* The users a server checks credentials against: hysteria2 asks the service.
HasOwnUsers == kind # "hysteria2"
OwnUsers(set) == IF HasOwnUsers THEN set ELSE {}

Built(info, users, state) ==
  [info |-> info, users |-> OwnUsers(users), state |-> state]

\* needsRebuild, awaitingRebuild
NeedsRebuild == mark.pending /\ ~mark.waiting
AwaitingRebuild == mark.pending

\* setRebuildPending: the first failure is retried in the next period.
Marked == [pending |-> TRUE, backoff |-> TRUE, waiting |-> mark.backoff]
SetRebuildPending(p) == mark' = IF p THEN Marked ELSE NoMark

Fault == faults < MaxFaults /\ faults' = faults + 1
NoFault == UNCHANGED faults

----------------------------------------------------------------------------
(* New and Start.                                                          *)

NoService ==
  /\ nodeInfo = panel.info /\ authUsers = {} /\ builtUsers = {}
  /\ lifecycle = "closed" /\ mark = NoMark /\ box = NoBox /\ late = FALSE
  /\ reload = NoReload /\ recovery = "none"
  /\ node = Idle /\ user = Idle /\ cert = Idle

\* Start fetches again, and fails where the info is refused or no server can be
\* built: tuic wants at least one user.  A server that cannot be started is
\* retried.
CanBuildTuic(users) == kind = "tuic" => users # {}
CanStart == panel.info \notin Refused \cup Broken /\ CanBuildTuic(panel.users)
StartService ==
  /\ CanStart
  /\ nodeInfo' = panel.info /\ authUsers' = panel.users
  /\ builtUsers' = OwnUsers(panel.users)
  /\ \/ NoFault /\ mark' = NoMark
        /\ box' = Built(panel.info, panel.users, "up")
     \/ HasOwnUsers /\ Fault /\ mark' = FirstMark
        /\ box' = Built(panel.info, panel.users, "down")
  /\ lifecycle' = "open"
  /\ UNCHANGED <<world, monitors, late, reload, recovery>>
StartFails ==
  /\ \/ ~CanStart /\ NoFault
     \/ CanStart /\ Fault
  /\ UNCHANGED <<world, nodeInfo, known, life, monitors, mark, box, late,
                 reload>>

----------------------------------------------------------------------------
(* reloadNode(info), called by the monitor named by.                        *)

\* Under reloadMu the info is replaced first, then the old server closed.
StartReload(by, new) ==
  /\ reload = NoReload /\ ~closed
  /\ reload' = [step |-> "build", by |-> by, new |-> new, old |-> nodeInfo]
  /\ nodeInfo' = new
  /\ box' = NoBox

\* buildSingBox copies authUsers and creates the inbound with them.
\* buildServerConfig binds the port and newServer releases it when it fails.
CanBuild == nodeInfo \notin Broken /\ CanBuildTuic(authUsers)
BuildFails == (~CanBuild /\ NoFault) \/ (CanBuild /\ Fault)

\* Records are compared by their addresses.  Every info nodeMonitor passes is a
\* fresh record; certMonitor may pass the one the service has, and then there is
\* nothing to go back to, or one that nodeMonitor has replaced by its equal.
MayBeSameInfo == reload.by = "cert" /\ reload.old = reload.new

\* The info goes back to the one that ran.
KeepInfo == reload.old

Unlock == reload' = NoReload
EndOf(by) ==
  /\ node' = IF by = "node" THEN Idle ELSE node
  /\ cert' = IF by = "cert" THEN Idle ELSE cert

Build ==
  /\ reload.step \in {"build", "rollback"}
  /\ CanBuild
  /\ reload' = [step |-> "record", by |-> reload.by,
                rollback |-> reload.step = "rollback", users |-> authUsers]
  /\ UNCHANGED <<world, nodeInfo, known, life, monitors, mark, box, late,
                 faults>>

FailBuild ==
  /\ reload.step = "build"
  /\ BuildFails
  /\ nodeInfo' = KeepInfo
  /\ \/ /\ MayBeSameInfo
        /\ SetRebuildPending(TRUE) /\ Unlock /\ EndOf(reload.by)
     \/ /\ reload' = [reload EXCEPT !.step = "rollback"]
        /\ UNCHANGED <<mark, node, cert>>
  /\ UNCHANGED <<world, known, life, box, late, user>>

\* Mutant of RollbackResult: a rollback that failed counts as one.
RollbackForgiven == FALSE
RollbackResult == TRUE
FailRollback ==
  /\ reload.step = "rollback"
  /\ BuildFails
  /\ SetRebuildPending(RollbackResult) /\ Unlock /\ EndOf(reload.by)
  /\ UNCHANGED <<world, nodeInfo, known, life, box, late, user>>

\* recordBuiltUsers
\* Mutant of RecordBuilt: the users of now, not those the box was built with.
RecordNow(users) == OwnUsers(authUsers)
RecordBuilt(users) == OwnUsers(users)
Record ==
  /\ reload.step = "record"
  /\ builtUsers' = RecordBuilt(reload.users)
  /\ reload' = [reload EXCEPT !.step = "start"]
  /\ box' = Built(nodeInfo, reload.users, "down")
  /\ UNCHANGED <<world, nodeInfo, life, monitors, authUsers, mark, late,
                 faults>>

\* startBox; hysteria2's serve cannot fail here, only later.
StartBox ==
  /\ reload.step = "start"
  /\ \/ NoFault /\ box' = [box EXCEPT !.state = "up"] /\ SetRebuildPending(FALSE)
     \/ HasOwnUsers /\ Fault /\ UNCHANGED box /\ SetRebuildPending(TRUE)
  /\ Unlock /\ EndOf(reload.by)
  /\ UNCHANGED <<world, nodeInfo, known, life, late, user>>

----------------------------------------------------------------------------
(* The monitors.                                                            *)

\* The periodic tasks run: executions of one task never overlap here.
Running == lifecycle = "open" /\ recovery = "none"

\* nodeMonitor: a call, then the comparison, then reloadNode.
GetNodeInfo ==
  /\ node = Idle /\ Running
  /\ node' = [pc |-> "compare", info |-> panel.info]
  /\ UNCHANGED <<world, nodeInfo, known, life, mark, box, late, reload, user,
                 cert, faults>>

\* Mutant of Unchanged: the mark is not looked at.
UnchangedInfo == nodeInfo = node.info
Unchanged == ~NeedsRebuild /\ nodeInfo = node.info
Compare ==
  /\ node.pc = "compare"
  /\ node' = IF Unchanged THEN Idle ELSE [node EXCEPT !.pc = "reload"]
  /\ UNCHANGED <<world, nodeInfo, known, life, mark, box, late, reload, user,
                 cert, faults>>

\* nodeMonitor drops an info of another type, reloadNode one without a port.
RefuseNode ==
  /\ node.pc = "reload" /\ node.info \in Refused
  /\ node' = Idle
  /\ UNCHANGED <<world, nodeInfo, known, life, mark, box, late, reload, user,
                 cert, faults>>

ReloadNode ==
  /\ node.pc = "reload" /\ node.info \notin Refused
  /\ StartReload("node", node.info)
  /\ UNCHANGED <<world, known, life, monitors, mark, late, faults>>

\* certMonitor holds the info it read while the certificate is renewed.
RenewCert ==
  /\ cert = Idle /\ Running
  /\ cert' = [pc |-> "renew", info |-> nodeInfo]
  /\ UNCHANGED <<world, nodeInfo, known, life, mark, box, late, reload, node,
                 user, faults>>

NotRenewed ==
  /\ cert.pc = "renew"
  /\ cert' = Idle
  /\ UNCHANGED <<world, nodeInfo, known, life, mark, box, late, reload, node,
                 user, faults>>

Renewed ==
  /\ cert.pc = "renew" /\ edits < MaxEdits
  /\ edits' = edits + 1
  /\ StartReload("cert", cert.info)
  /\ cert' = [cert EXCEPT !.pc = "reload"]
  /\ UNCHANGED <<known, life, kind, panel, mark, late, node, user, faults>>

\* userMonitor: syncUsers, and if the server does not know somebody its users
\* are replaced, unless a rebuild will do it.
HasUnbuiltAuthUser == HasOwnUsers /\ ~(authUsers \subseteq builtUsers)

SyncUsers ==
  /\ user = Idle /\ Running
  /\ authUsers' = panel.users
  /\ user' = [pc |-> "check"]
  /\ UNCHANGED <<world, nodeInfo, life, builtUsers, mark, box, late, reload,
                 node, cert, faults>>

CheckUsers ==
  /\ user.pc = "check"
  /\ user' = IF HasUnbuiltAuthUser /\ ~AwaitingRebuild
             THEN [pc |-> "update"] ELSE Idle
  /\ UNCHANGED <<world, nodeInfo, known, life, mark, box, late, reload, node,
                 cert, faults>>

\* UpdateUsers of the inbounds: anytls replaces the users of a box that did not
\* start, tuic finds it closed.  A replacement that fails is only logged.
UpdateAnyTLS == kind = "anytls"
UpdateTuic == kind = "tuic" /\ box.state = "up"
CanUpdate == box # NoBox /\ (UpdateAnyTLS \/ UpdateTuic)
UpdateInboundUsers ==
  /\ user.pc = "update" /\ reload = NoReload
  /\ \/ /\ CanUpdate /\ NoFault
        /\ box' = [box EXCEPT !.users = authUsers]
        /\ builtUsers' = RecordBuilt(authUsers)
     \/ /\ (~CanUpdate /\ NoFault) \/ (CanUpdate /\ Fault)
        /\ UNCHANGED <<box, builtUsers>>
  /\ user' = Idle
  /\ UNCHANGED <<world, nodeInfo, life, authUsers, mark, late, reload, node,
                 cert>>

----------------------------------------------------------------------------
(* hysteria2: Serve returns, and its goroutine marks the node if the server *)
(* is still the service's.                                                  *)

ServeReturns ==
  /\ kind = "hysteria2" /\ box.state = "up" /\ Fault
  /\ box' = [box EXCEPT !.state = "down"]
  /\ UNCHANGED <<world, nodeInfo, known, life, monitors, mark, late, reload>>

NotSuperseded ==
  /\ kind = "hysteria2" /\ box.state = "down" /\ reload = NoReload
  /\ box' = [box EXCEPT !.state = "seen"]
  /\ late' = TRUE
  /\ UNCHANGED <<world, nodeInfo, known, life, monitors, mark, reload, faults>>

MarkDown ==
  /\ late
  /\ late' = FALSE
  /\ SetRebuildPending(TRUE)
  /\ UNCHANGED <<world, nodeInfo, known, life, monitors, box, reload, faults>>

----------------------------------------------------------------------------
(* Close, the clock and the panel.                                          *)

\* While Close waits for lifecycleMu no further task gets in, and those that run
\* come to their end.
BeginClose ==
  /\ lifecycle = "open"
  /\ lifecycle' = "closing"
  /\ UNCHANGED <<world, nodeInfo, known, monitors, mark, box, late, reload,
                 recovery, faults>>

\* Each kind takes its server off before or while it closes it.  Tasks that are
\* started later, by the timer or by a recovery, find the service closed.
TasksDone == node = Idle /\ user = Idle /\ cert = Idle
Close ==
  /\ lifecycle = "closing" /\ TasksDone /\ reload = NoReload
  /\ lifecycle' = "closed"
  /\ box' = NoBox
  /\ late' = FALSE /\ recovery' = "none"
  /\ UNCHANGED <<world, nodeInfo, known, monitors, mark, reload, faults>>

\* triggerRecovery, after failed calls in a row: all tasks are stopped, and five
\* seconds later started again.
TriggerRecovery ==
  /\ Running /\ (node = Idle \/ user = Idle)
  /\ Fault
  /\ recovery' = "sleeping"
  /\ UNCHANGED <<world, nodeInfo, known, monitors, lifecycle, mark, box, late,
                 reload>>
RestartTasks ==
  /\ recovery = "sleeping"
  /\ recovery' = "none"
  /\ UNCHANGED <<world, nodeInfo, known, monitors, lifecycle, mark, box, late,
                 reload, faults>>

BackoffOver ==
  /\ mark.waiting
  /\ mark' = [mark EXCEPT !.waiting = FALSE]
  /\ UNCHANGED <<world, nodeInfo, known, life, monitors, box, late, reload,
                 faults>>

Edit ==
  /\ edits < MaxEdits
  /\ edits' = edits + 1
  /\ \/ \E info \in Infos \ {panel.info} : panel' = [panel EXCEPT !.info = info]
     \/ \E set \in SUBSET Users \ {panel.users} : panel' = [panel EXCEPT !.users = set]
  /\ UNCHANGED <<nodeInfo, known, life, monitors, kind, mark, box, late,
                 reload, faults>>

Rebuild == Build \/ FailBuild \/ FailRollback \/ Record \/ StartBox
Tasks ==
  \/ GetNodeInfo \/ Compare \/ RefuseNode \/ ReloadNode
  \/ SyncUsers \/ CheckUsers \/ UpdateInboundUsers
  \/ RenewCert \/ NotRenewed \/ Renewed

Service ==
  \/ Rebuild \/ Tasks
  \/ ServeReturns \/ NotSuperseded \/ MarkDown
  \/ TriggerRecovery \/ RestartTasks
  \/ BackoffOver

(* Tasks are called again in every period and end, a mutex is not kept from   *)
(* one goroutine for ever, back-off ends.  Nothing is assumed of renewals     *)
(* beyond their end, nor of edits and failures.                               *)
ServiceFairness ==
  /\ WF_serviceVars(Rebuild)
  /\ WF_serviceVars(GetNodeInfo) /\ WF_serviceVars(Compare)
  /\ WF_serviceVars(RefuseNode) /\ SF_serviceVars(ReloadNode)
  /\ WF_serviceVars(SyncUsers) /\ WF_serviceVars(CheckUsers) /\ SF_serviceVars(UpdateInboundUsers)
  /\ WF_serviceVars(NotRenewed) /\ WF_serviceVars(RestartTasks)
  /\ SF_serviceVars(NotSuperseded) /\ WF_serviceVars(MarkDown) /\ WF_serviceVars(BackoffOver)

----------------------------------------------------------------------------
(* Properties.                                                             *)

TypeOK ==
  /\ kind \in Kinds
  /\ panel \in [info : Infos, users : SUBSET Users]
  /\ nodeInfo \in Infos /\ authUsers \subseteq Users /\ builtUsers \subseteq Users
  /\ mark \in [pending : BOOLEAN, backoff : BOOLEAN, waiting : BOOLEAN]
  /\ box # NoBox => /\ box.info \in Infos /\ box.users \subseteq Users
                    /\ box.state \in {"up", "down", "seen"}
  /\ late \in BOOLEAN /\ lifecycle \in {"open", "closing", "closed"}
  /\ recovery \in {"none", "sleeping"}

\* Whenever no reload is under way, the node has a server built from the info
\* it keeps, which is up; or it is marked, so that a later period retries.  On
\* hysteria2 the mark may still be on its way (reloadNode, serve).
NodeIsBuilt ==
  reload = NoReload /\ ~closed =>
    \/ box # NoBox /\ box.info = nodeInfo
         /\ \/ box.state = "up" \/ mark.pending \/ late
            \/ kind = "hysteria2" /\ box.state = "down"
    \/ box = NoBox /\ mark.pending

\* The users the service believes its server to know are those it knows:
\* hasUnbuiltAuthUser would otherwise leave a user out for good.
KnowsBuiltUsers ==
  reload.step \in {"none", "start"} /\ box # NoBox => box.users = builtUsers

\* The panel's last word is carried out: the node runs the last info, if it can
\* be built, and its server knows every user, through failed builds, rollbacks,
\* certificates renewed for an older info, and servers that stop.
Serves(info, users) ==
  /\ box # NoBox /\ box.state = "up" /\ box.info = info
  /\ HasOwnUsers => users \subseteq box.users
Settled ==
  \/ panel.info \in Refused \cup Broken
  \/ ~CanBuildTuic(panel.users)
  \/ Serves(panel.info, panel.users)
=============================================================================
