----------------------- MODULE PanelLifecycle_proofs -----------------------
(***************************************************************************)
(* For every set of infos and users and any number of edits, faults and    *)
(* reloads: a service is always built or marked, knows whom its server     *)
(* knows, and does not outlive the panel that started it.                  *)
(***************************************************************************)
EXTENDS PanelLifecycle, TLAPS

(* The shapes of the records: TypeOK and what it leaves out. *)
BoxType ==
  box = NoBox \/
  box \in [info : Infos, users : SUBSET Users, state : {"up", "down", "seen"}]

ReloadType ==
  \/ reload = NoReload
  \/ reload \in [step : {"build", "rollback"}, by : {"node", "cert"},
                 new : Infos, old : Infos]
  \/ reload \in [step : {"record", "start"}, by : {"node", "cert"},
                 rollback : BOOLEAN, users : SUBSET Users]

MonitorType ==
  /\ node = Idle \/ node \in [pc : {"compare", "reload"}, info : Infos]
  /\ user = Idle \/ user \in [pc : {"check", "update"}]
  /\ cert = Idle \/ cert \in [pc : {"renew", "reload"}, info : Infos]

ServiceTypes == TypeOK /\ BoxType /\ ReloadType /\ MonitorType

(* What the steps of a reload find: no server until it is recorded, and then *)
(* the one that was built for the info in force, not started yet.            *)
ReloadSteps ==
  /\ reload.step \in {"build", "rollback", "record"} => box = NoBox
  /\ reload.step = "start" =>
       box # NoBox /\ box.info = nodeInfo /\ box.state = "down"

(* A closed service has nothing that runs. *)
ClosedIsQuiet ==
  closed => box = NoBox /\ reload = NoReload /\ TasksDone /\ ~late /\ recovery = "none"

ServiceInv ==
  /\ ServiceTypes /\ ReloadSteps /\ ClosedIsQuiet
  /\ NodeIsBuilt /\ KnowsBuiltUsers

(* Exactly one owner: Start, the retry or the panel has the service, or it is *)
(* closed.                                                                    *)
OneOwner ==
  /\ phase \in {"down", "starting"} => retry = "none" /\ ~registered /\ closed
  /\ phase = "up" => registered \/ (retry # "none" /\ ~stop)
  /\ phase = "closing" => stop /\ (retry = "none" /\ ~registered => closed)
  /\ retry \in {"waiting", "starting"} => closed
  /\ retry # "none" => ~registered

PanelInv == ServiceInv /\ PanelTypeOK /\ OneOwner

(* The initial state: no service and no panel. *)
LEMMA PanelInit == Init => PanelInv
<1> SUFFICES ASSUME Init PROVE PanelInv
  OBVIOUS
<1>1. /\ box = NoBox /\ reload = NoReload /\ reload.step = "none" /\ closed
      /\ TasksDone /\ late = FALSE /\ recovery = "none" /\ kind \in Kinds
      /\ panel \in [info : Infos, users : SUBSET Users] /\ nodeInfo \in Infos
      /\ authUsers = {} /\ builtUsers = {}
      /\ mark \in [pending : BOOLEAN, backoff : BOOLEAN, waiting : BOOLEAN]
  BY DEF Init, NoService, NoReload, closed, TasksDone, NoMark
<1>2. ServiceTypes
  BY <1>1 DEF ServiceTypes, TypeOK, BoxType, ReloadType, MonitorType, closed, TasksDone
<1>3. ServiceInv
  BY <1>1, <1>2 DEF ServiceInv, ReloadSteps, ClosedIsQuiet, NodeIsBuilt, KnowsBuiltUsers
<1> QED BY <1>1, <1>2, <1>3 DEF PanelInv, PanelTypeOK, OneOwner, ServiceTypes, Init

(* Marks are records of three truth values. *)
LEMMA MarkType ==
  ASSUME mark \in [pending : BOOLEAN, backoff : BOOLEAN, waiting : BOOLEAN],
         NEW p \in BOOLEAN, SetRebuildPending(p)
  PROVE  /\ mark' \in [pending : BOOLEAN, backoff : BOOLEAN, waiting : BOOLEAN]
         /\ mark'.pending = p
BY DEF SetRebuildPending, Marked, NoMark

(* A reload goes through its steps: build, record, start, or roll back. *)
LEMMA RebuildKeepsService ==
  ASSUME ServiceInv, Rebuild
  PROVE  ServiceInv' /\ UNCHANGED lifecycle
<1> USE DEF ServiceInv, ServiceTypes, TypeOK, BoxType, ReloadType, MonitorType, ReloadSteps,
            ClosedIsQuiet, NodeIsBuilt, KnowsBuiltUsers,
            world, known, life, monitors, NoReload, NoBox, closed
<1>1. CASE Build
  <2>1. reload.step # "none" /\ ~closed
    BY <1>1 DEF Build, ReloadSteps, ClosedIsQuiet, NoReload
  <2> QED BY <1>1, <2>1 DEF Build
<1>2. CASE FailBuild
  <2>1. reload \in [step : {"build", "rollback"}, by : {"node", "cert"},
                    new : Infos, old : Infos] /\ ~closed /\ box = NoBox
    BY <1>2 DEF FailBuild, ReloadSteps, ClosedIsQuiet, NoReload, ReloadType
  <2>2. CASE SetRebuildPending(TRUE) /\ Unlock /\ EndOf(reload.by)
    <3>1. /\ mark' \in [pending : BOOLEAN, backoff : BOOLEAN, waiting : BOOLEAN]
          /\ mark'.pending = TRUE
      BY <2>2, MarkType DEF TypeOK
    <3> QED BY <1>2, <2>1, <2>2, <3>1 DEF FailBuild, Unlock, EndOf, KeepInfo
  <2>3. CASE /\ reload' = [reload EXCEPT !.step = "rollback"]
             /\ UNCHANGED <<mark, node, cert>>
    BY <1>2, <2>1, <2>3 DEF FailBuild, KeepInfo
  <2> QED BY <1>2, <2>2, <2>3 DEF FailBuild
<1>3. CASE FailRollback
  <2>1. reload \in [step : {"build", "rollback"}, by : {"node", "cert"},
                    new : Infos, old : Infos] /\ ~closed /\ box = NoBox
    BY <1>3 DEF FailRollback, ReloadSteps, ClosedIsQuiet, NoReload, ReloadType
  <2>2. /\ mark' \in [pending : BOOLEAN, backoff : BOOLEAN, waiting : BOOLEAN]
        /\ mark'.pending = TRUE
    BY <1>3, MarkType DEF FailRollback, TypeOK, RollbackResult
  <2> QED BY <1>3, <2>1, <2>2 DEF FailRollback, Unlock, EndOf
<1>4. CASE Record
  <2>1. reload \in [step : {"record", "start"}, by : {"node", "cert"},
                    rollback : BOOLEAN, users : SUBSET Users] /\ ~closed
    BY <1>4 DEF Record, ReloadSteps, ClosedIsQuiet, NoReload, ReloadType
  <2>2. /\ box' \in [info : Infos, users : SUBSET Users, state : {"up", "down", "seen"}]
        /\ box'.info = nodeInfo' /\ box'.state = "down" /\ box'.users = builtUsers'
        /\ builtUsers' \subseteq Users
    BY <1>4, <2>1 DEF Record, Built, RecordBuilt, OwnUsers, TypeOK, world, HasOwnUsers
  <2>3. box' # NoBox
    BY <2>2 DEF NoBox
  <2>4. /\ reload' \in [step : {"record", "start"}, by : {"node", "cert"},
                        rollback : BOOLEAN, users : SUBSET Users]
        /\ reload'.step = "start"
    BY <1>4, <2>1 DEF Record
  <2> QED BY <1>4, <2>1, <2>2, <2>3, <2>4 DEF Record
<1>5. CASE StartBox
  <2>1. /\ ~closed /\ box # NoBox /\ box.info = nodeInfo /\ box.state = "down"
        /\ box.users = builtUsers
        /\ box \in [info : Infos, users : SUBSET Users, state : {"up", "down", "seen"}]
    BY <1>5 DEF StartBox, ReloadSteps, ClosedIsQuiet, NoReload, KnowsBuiltUsers, BoxType
  <2>2. /\ box' \in [info : Infos, users : SUBSET Users, state : {"up", "down", "seen"}]
        /\ box'.info = nodeInfo' /\ box'.users = builtUsers'
        /\ box'.state = "up" \/ mark'.pending
        /\ mark' \in [pending : BOOLEAN, backoff : BOOLEAN, waiting : BOOLEAN]
    BY <1>5, <2>1, MarkType DEF StartBox, TypeOK, known
  <2> QED BY <1>5, <2>1, <2>2 DEF StartBox, Unlock, EndOf
<1> QED BY <1>1, <1>2, <1>3, <1>4, <1>5 DEF Rebuild

(* The monitors call, compare and hand over to a reload; the user monitor     *)
(* replaces the users of a server and remembers whom it replaced.             *)
LEMMA TasksKeepService ==
  ASSUME ServiceInv, Tasks
  PROVE  ServiceInv' /\ UNCHANGED lifecycle
<1> USE DEF ServiceInv, ServiceTypes, TypeOK, BoxType, ReloadType, MonitorType, ReloadSteps,
            ClosedIsQuiet, NodeIsBuilt, KnowsBuiltUsers,
            world, known, life, monitors, NoReload, NoBox, Idle, closed, TasksDone
<1>1. CASE GetNodeInfo
  BY <1>1 DEF GetNodeInfo, Running
<1>2. CASE Compare
  BY <1>2 DEF Compare
<1>3. CASE SyncUsers
  BY <1>3 DEF SyncUsers, Running
<1>4. CASE CheckUsers
  BY <1>4 DEF CheckUsers
<1>5. CASE RenewCert
  BY <1>5 DEF RenewCert, Running
<1>6. CASE NotRenewed
  BY <1>6 DEF NotRenewed
<1>7. CASE ReloadNode
  <2>1. ~closed /\ node \in [pc : {"compare", "reload"}, info : Infos]
    BY <1>7 DEF ReloadNode, StartReload, MonitorType, Idle
  <2>2. /\ reload' \in [step : {"build", "rollback"}, by : {"node", "cert"},
                         new : Infos, old : Infos]
        /\ reload'.step = "build" /\ nodeInfo' \in Infos /\ box' = NoBox
    BY <1>7, <2>1 DEF ReloadNode, StartReload, TypeOK
  <2> QED BY <1>7, <2>1, <2>2 DEF ReloadNode
<1>8. CASE Renewed
  <2>1. ~closed /\ cert \in [pc : {"renew", "reload"}, info : Infos]
    BY <1>8 DEF Renewed, StartReload, MonitorType, Idle
  <2>2. /\ reload' \in [step : {"build", "rollback"}, by : {"node", "cert"},
                         new : Infos, old : Infos]
        /\ reload'.step = "build" /\ nodeInfo' \in Infos /\ box' = NoBox
    BY <1>8, <2>1 DEF Renewed, StartReload, TypeOK
  <2> QED BY <1>8, <2>1, <2>2 DEF Renewed
<1>9. CASE UpdateInboundUsers
  <2>1. ~closed
    BY <1>9 DEF UpdateInboundUsers, ClosedIsQuiet, TasksDone, Idle
  <2>2. CASE /\ CanUpdate
             /\ box' = [box EXCEPT !.users = authUsers]
             /\ builtUsers' = RecordBuilt(authUsers)
    <3>1. box \in [info : Infos, users : SUBSET Users, state : {"up", "down", "seen"}]
      BY <2>2 DEF BoxType, CanUpdate
    <3>2. HasOwnUsers
      BY <2>2 DEF CanUpdate, UpdateAnyTLS, UpdateTuic, HasOwnUsers
    <3>3. /\ box' \in [info : Infos, users : SUBSET Users, state : {"up", "down", "seen"}]
          /\ box'.info = box.info /\ box'.state = box.state
          /\ box'.users = builtUsers' /\ builtUsers' \subseteq Users
      BY <1>9, <2>2, <3>1, <3>2 DEF UpdateInboundUsers, RecordBuilt, OwnUsers, TypeOK
    <3> QED BY <1>9, <2>1, <2>2, <3>1, <3>3 DEF UpdateInboundUsers
  <2>3. CASE UNCHANGED <<box, builtUsers>>
    BY <1>9, <2>1, <2>3 DEF UpdateInboundUsers
  <2> QED BY <1>9, <2>2, <2>3 DEF UpdateInboundUsers
<1>10. CASE RefuseNode
  BY <1>10 DEF RefuseNode
<1> QED BY <1>1, <1>2, <1>3, <1>4, <1>5, <1>6, <1>7, <1>8, <1>9, <1>10 DEF Tasks

(* The server stops, recoveries, back-off and the panel's edits. *)
LEMMA OthersKeepService ==
  ASSUME ServiceInv,
         \/ ServeReturns \/ NotSuperseded \/ MarkDown
         \/ TriggerRecovery \/ RestartTasks \/ BackoffOver \/ Edit
  PROVE  ServiceInv' /\ UNCHANGED lifecycle
<1> USE DEF ServiceInv, ServiceTypes, TypeOK, BoxType, ReloadType, MonitorType, ReloadSteps,
            ClosedIsQuiet, NodeIsBuilt, KnowsBuiltUsers,
            world, known, life, monitors, NoReload, NoBox, Idle, closed, TasksDone
<1>1. CASE ServeReturns
  <2>1. box \in [info : Infos, users : SUBSET Users, state : {"up", "down", "seen"}]
    BY <1>1 DEF ServeReturns, BoxType, NoBox
  <2>2. /\ box' \in [info : Infos, users : SUBSET Users, state : {"up", "down", "seen"}]
        /\ box'.info = box.info /\ box'.state = "down" /\ box'.users = box.users
    BY <1>1, <2>1 DEF ServeReturns
  <2> QED BY <1>1, <2>1, <2>2 DEF ServeReturns
<1>2. CASE NotSuperseded
  <2>1. box \in [info : Infos, users : SUBSET Users, state : {"up", "down", "seen"}]
    BY <1>2 DEF NotSuperseded, BoxType, NoBox
  <2>2. /\ box' \in [info : Infos, users : SUBSET Users, state : {"up", "down", "seen"}]
        /\ box'.info = box.info /\ box'.state = "seen" /\ box'.users = box.users
    BY <1>2, <2>1 DEF NotSuperseded
  <2> QED BY <1>2, <2>1, <2>2 DEF NotSuperseded
<1>3. CASE MarkDown
  <2>1. /\ mark' \in [pending : BOOLEAN, backoff : BOOLEAN, waiting : BOOLEAN]
        /\ mark'.pending = TRUE
    BY <1>3, MarkType DEF MarkDown, TypeOK
  <2>2. ~closed
    BY <1>3 DEF MarkDown, ClosedIsQuiet
  <2>3. NodeIsBuilt'
    BY <1>3, <2>1, <2>2 DEF MarkDown, NodeIsBuilt, closed, life, NoReload, NoBox
  <2>4. UNCHANGED <<world, nodeInfo, known, life, monitors, box, reload>> /\ late' = FALSE
    BY <1>3 DEF MarkDown
  <2>5. TypeOK'
    BY <2>1, <2>4 DEF TypeOK, world, known, life
  <2>6. BoxType' /\ ReloadType' /\ MonitorType'
    BY <2>4 DEF BoxType, ReloadType, MonitorType, monitors
  <2>7. ReloadSteps' /\ KnowsBuiltUsers'
    BY <2>4 DEF ReloadSteps, KnowsBuiltUsers, known
  <2> QED BY <2>2, <2>3, <2>4, <2>5, <2>6, <2>7 DEF ClosedIsQuiet, closed, life
<1>4. CASE TriggerRecovery
  BY <1>4 DEF TriggerRecovery, Running
<1>5. CASE RestartTasks
  BY <1>5 DEF RestartTasks
<1>6. CASE BackoffOver
  <2>1. /\ mark' \in [pending : BOOLEAN, backoff : BOOLEAN, waiting : BOOLEAN]
        /\ mark'.pending = mark.pending
    BY <1>6 DEF BackoffOver, TypeOK
  <2> QED BY <1>6, <2>1 DEF BackoffOver
<1>7. CASE Edit
  <2>1. panel' \in [info : Infos, users : SUBSET Users]
    BY <1>7 DEF Edit, TypeOK
  <2> QED BY <1>7, <2>1 DEF Edit
<1> QED BY <1>1, <1>2, <1>3, <1>4, <1>5, <1>6, <1>7

(* Start leaves a service that is built or marked, or a closed one. *)
LEMMA StartKeepsService ==
  ASSUME ServiceInv, closed, StartService \/ StartFails
  PROVE  ServiceInv' /\ (StartFails => closed')
<1> USE DEF ServiceInv, ServiceTypes, TypeOK, BoxType, ReloadType, MonitorType, ReloadSteps,
            ClosedIsQuiet, NodeIsBuilt, KnowsBuiltUsers,
            world, known, life, monitors, NoReload, NoBox, Idle, closed, TasksDone
<1>1. CASE StartFails
  BY <1>1 DEF StartFails
<1>2. CASE StartService
  <2>1. /\ box' \in [info : Infos, users : SUBSET Users, state : {"up", "down", "seen"}]
        /\ box'.info = nodeInfo' /\ box'.users = builtUsers'
        /\ box'.state = "up" \/ mark'.pending
        /\ mark' \in [pending : BOOLEAN, backoff : BOOLEAN, waiting : BOOLEAN]
        /\ nodeInfo' \in Infos /\ authUsers' \subseteq Users /\ builtUsers' \subseteq Users
    <3>1. /\ panel \in [info : Infos, users : SUBSET Users]
          /\ OwnUsers(panel.users) \subseteq Users
      BY DEF TypeOK, OwnUsers
    <3>2. \/ /\ mark' = NoMark /\ box' = Built(panel.info, panel.users, "up")
          \/ /\ mark' = FirstMark /\ box' = Built(panel.info, panel.users, "down")
      BY <1>2 DEF StartService
    <3>3. /\ nodeInfo' = panel.info /\ authUsers' = panel.users
          /\ builtUsers' = OwnUsers(panel.users)
      BY <1>2 DEF StartService
    <3>4. CASE mark' = NoMark /\ box' = Built(panel.info, panel.users, "up")
      BY <3>1, <3>3, <3>4 DEF Built, NoMark
    <3>5. CASE mark' = FirstMark /\ box' = Built(panel.info, panel.users, "down")
      BY <3>1, <3>3, <3>5 DEF Built, FirstMark
    <3> QED BY <3>2, <3>4, <3>5
  <2>2. /\ lifecycle' = "open" /\ reload' = NoReload /\ late' = FALSE
        /\ UNCHANGED <<kind, panel, node, user, cert, recovery>>
    BY <1>2 DEF StartService, ClosedIsQuiet, world, monitors, TypeOK
  <2>3. box' # NoBox
    BY <2>1 DEF NoBox
  <2>4. ~StartFails
    BY <2>2 DEF StartFails, life, closed
  <2> QED BY <2>1, <2>2, <2>3, <2>4 DEF closed, TypeOK, BoxType, ReloadType, MonitorType,
       ReloadSteps, ClosedIsQuiet, NodeIsBuilt, KnowsBuiltUsers, NoReload
<1> QED BY <1>1, <1>2

(* Close waits for the tasks and leaves nothing. *)
LEMMA CloseKeepsService ==
  ASSUME ServiceInv, BeginClose \/ Close
  PROVE  ServiceInv' /\ (Close => closed')
<1> USE DEF ServiceInv, ServiceTypes, TypeOK, BoxType, ReloadType, MonitorType, ReloadSteps,
            ClosedIsQuiet, NodeIsBuilt, KnowsBuiltUsers,
            world, known, life, monitors, NoReload, NoBox, Idle, closed, TasksDone
<1>1. CASE BeginClose
  <2>1. ~Close
    BY <1>1 DEF BeginClose, Close
  <2> QED BY <1>1, <2>1 DEF BeginClose
<1>2. CASE Close
  BY <1>2 DEF Close
<1> QED BY <1>1, <1>2

(* Every step keeps the invariant. *)
LEMMA PanelStep == PanelInv /\ [Next]_vars => PanelInv'
<1> SUFFICES ASSUME PanelInv, [Next]_vars PROVE PanelInv'
  OBVIOUS
<1> USE DEF PanelInv
<1>q. ASSUME UNCHANGED serviceVars PROVE ServiceInv' /\ UNCHANGED lifecycle
  BY <1>q DEF serviceVars, ServiceInv, ServiceTypes, TypeOK, BoxType, ReloadType, MonitorType,
       ReloadSteps, ClosedIsQuiet, NodeIsBuilt, KnowsBuiltUsers, world, known, life, monitors, NoReload, NoBox, Idle, closed, TasksDone
<1>t. ASSUME ServiceInv' PROVE TypeOK'
  BY <1>t DEF ServiceInv, ServiceTypes
<1>1. CASE Create
  BY <1>1, <1>q, <1>t DEF Create, PanelTypeOK, OneOwner, closed
<1>2. CASE StartSucceeds
  BY <1>2, <1>t, StartKeepsService DEF StartSucceeds, PanelTypeOK, OneOwner
<1>3. CASE StartGoesOn
  BY <1>3, <1>t, StartKeepsService DEF StartGoesOn, PanelTypeOK, OneOwner
<1>4. CASE ExitCloses
  BY <1>4, <1>q, <1>t DEF ExitCloses, CloseRetry, PanelTypeOK, OneOwner, closed
<1>5. CASE CloseService
  BY <1>5, <1>t, CloseKeepsService DEF CloseService, RetryDone, PanelTypeOK, OneOwner
<1>6. CASE CloseEnds
  BY <1>6, <1>q, <1>t DEF CloseEnds, RetryDone, PanelTypeOK, OneOwner, closed
<1>7. CASE RetryCreates
  BY <1>7, <1>q, <1>t DEF RetryCreates, PanelTypeOK, OneOwner, closed
<1>8. CASE RetryStarts
  BY <1>8, <1>t, StartKeepsService DEF RetryStarts, PanelTypeOK, OneOwner
<1>9. CASE RetryRegisters
  BY <1>9, <1>q, <1>t DEF RetryRegisters, PanelTypeOK, OneOwner, closed
<1>10. CASE RetryCloses
  BY <1>10, <1>t, CloseKeepsService DEF RetryCloses, PanelTypeOK, OneOwner
<1>11. CASE RetryStops
  BY <1>11, <1>q, <1>t DEF RetryStops, PanelTypeOK, OneOwner, closed
<1>12. CASE ConfigChanges
  BY <1>12, <1>q, <1>t DEF ConfigChanges, CloseRetry, PanelTypeOK, OneOwner, closed
<1>13. CASE Exit
  BY <1>13, <1>q, <1>t DEF Exit, PanelTypeOK, OneOwner, closed
<1>14. CASE (Service \/ Edit) /\ UNCHANGED panelVars
  <2>1. ServiceInv' /\ UNCHANGED lifecycle
    BY <1>14, RebuildKeepsService, TasksKeepService, OthersKeepService DEF Service
  <2> QED BY <1>14, <2>1, <1>t DEF panelVars, PanelTypeOK, OneOwner, closed
<1>15. CASE UNCHANGED vars
  BY <1>15, <1>q, <1>t DEF vars, panelVars, PanelTypeOK, OneOwner, closed
<1> QED BY <1>1, <1>2, <1>3, <1>4, <1>5, <1>6, <1>7, <1>8, <1>9, <1>10, <1>11, <1>12, <1>13, <1>14, <1>15 DEF Next, Main, Retry

(* A service is built or marked and has one owner, for every set of infos and *)
(* users and any number of edits, faults and reloads: the inductive invariant. *)
THEOREM PanelInvariant == Spec => []PanelInv
<1>1. PanelInv /\ [Next]_vars => PanelInv'
  BY PanelStep
<1> QED BY PanelInit, <1>1, PTL DEF Spec

(* Every variable of the service and of the panel keeps its type. *)
THEOREM PanelTypes == Spec => []PanelTypeOK
<1>1. PanelInv => PanelTypeOK
  BY DEF PanelInv
<1> QED BY PanelInvariant, <1>1, PTL

(* A service that is not reloading has a server built from the info it keeps, *)
(* or is marked for a rebuild.                                                *)
THEOREM BuiltOrMarked == Spec => []NodeIsBuilt
<1>1. PanelInv => NodeIsBuilt
  BY DEF PanelInv, ServiceInv
<1> QED BY PanelInvariant, <1>1, PTL

(* The users a service believes its server to know are those it knows. *)
THEOREM KnowsUsers == Spec => []KnowsBuiltUsers
<1>1. PanelInv => KnowsBuiltUsers
  BY DEF PanelInv, ServiceInv
<1> QED BY PanelInvariant, <1>1, PTL

(* Between two panels, and after the last, nothing of a service is left. *)
THEOREM NoneOutlives == Spec => []NothingOutlivesPanel
<1>1. PanelInv => NothingOutlivesPanel
  BY DEF PanelInv, ServiceInv, OneOwner, ClosedIsQuiet, NothingOutlivesPanel
<1> QED BY PanelInvariant, <1>1, PTL
============================================================================
