---------------------------- MODULE NodeController ----------------------------
(***************************************************************************)
(* The node monitor of an Xray node (Controller.nodeInfoMonitor,           *)
(* src/service/controller/controller.go): once per period it asks the      *)
(* panel for the node's info and its users and makes the Xray core and the *)
(* limiter follow.  When the info changed it tears the inbound down and    *)
(* builds a new one, under a new tag if type, port or id changed;          *)
(* otherwise it removes and adds users.  Any call may fail half-way; the   *)
(* flag rebuildPending makes a later period start again, with back-off.    *)
(*                                                                         *)
(* A step is one call into the panel, the core or the limiter: between two *)
(* of them connections arrive and the panel changes its mind.  A user list *)
(* gives each user a variant, which stands for all that userIdentity keeps *)
(* of the record; 0 means not listed.  Simplifications: back-off is either *)
(* over or not; routing rules, audit rules, counters and automatic speed   *)
(* limits are left out; removing what the core has does not fail (Xray     *)
(* reports only what it does not have, and the code accepts that).         *)
(***************************************************************************)
EXTENDS Integers, FiniteSets

CONSTANTS
  Infos,     \* node infos the panel may hand out
  TagOf,     \* buildNodeTag of an info
  Users,     \* keys of users
  Variants,  \* records of a user, apart from ValidUntil and KickVersion
  Bad,       \* variants whose credentials the core refuses
  MaxEdits,  \* bound of the model: changes made on the panel
  MaxFaults  \* bound of the model: calls that fail

ASSUME NodeAssumption ==
  /\ Infos # {} /\ "none" \notin Infos
  /\ Users # {}
  /\ Variants \subseteq Nat \ {0}
  /\ Bad \subseteq Variants
  /\ MaxEdits \in Nat /\ MaxFaults \in Nat

Tags  == {TagOf[i] : i \in Infos}
Lists == [Users -> Variants \cup {0}]
Empty == [u \in Users |-> 0]

NoInbound == [info |-> "none", users |-> Empty]
NoLimiter == [u \in Users |-> -1]

VARIABLES
  panelInfo, panelUsers,  \* the panel
  nodeInfo, userList,     \* Controller: what the node was built from
  rebuildPending,
  backoff,                \* rebuildBackoff is not zero
  waiting,                \* rebuildRetryAt is in the future
  pc, newInfo, newUsers, oldTag,  \* nodeInfoMonitor
  inbound,                \* inbounds of the core, with their users
  outbound,               \* tags that have an outbound
  limiter,                \* InboundInfo: user list of each tag's limiter
  lastList,               \* history variable: list of the last full turn
  edits, faults

panel    == <<panelInfo, panelUsers, edits>>
rebuild  == <<rebuildPending, backoff, waiting>>
fetched  == <<newInfo, newUsers, oldTag>>
core     == <<inbound, outbound>>
vars == <<panel, nodeInfo, userList, rebuild, pc, fetched, core, limiter, lastList, faults>>

PC == {"idle", "users", "decide", "remove", "inbound", "outbound", "forget",
       "addUsers", "limiter", "diff", "update"}

Tag == TagOf[nodeInfo]

TypeOK ==
  /\ panelInfo \in Infos /\ panelUsers \in Lists
  /\ nodeInfo \in Infos /\ userList \in Lists
  /\ rebuildPending \in BOOLEAN /\ backoff \in BOOLEAN /\ waiting \in BOOLEAN
  /\ waiting => backoff /\ rebuildPending
  /\ pc \in PC
  /\ newInfo \in Infos /\ newUsers \in Lists /\ oldTag \in Tags
  /\ inbound \in [Tags -> [info : Infos, users : Lists] \cup {NoInbound}]
  /\ outbound \subseteq Tags
  /\ limiter \in [Tags -> Lists \cup {NoLimiter}]
  /\ lastList \in Lists
  /\ edits \in 0..MaxEdits /\ faults \in 0..MaxFaults

\* The users of a list that the core takes.
Accepted(list) == [u \in Users |-> IF list[u] \in Bad THEN 0 ELSE list[u]]

\* A node after Start.
Init ==
  /\ panelInfo \in Infos /\ panelUsers \in Lists
  /\ nodeInfo = panelInfo /\ userList = panelUsers
  /\ rebuildPending = FALSE /\ backoff = FALSE /\ waiting = FALSE
  /\ pc = "idle"
  /\ newInfo = panelInfo /\ newUsers = panelUsers /\ oldTag = Tag
  /\ inbound = [t \in Tags |-> IF t = Tag
                               THEN [info |-> nodeInfo, users |-> Accepted(userList)]
                               ELSE NoInbound]
  /\ outbound = {Tag}
  /\ limiter = [t \in Tags |-> IF t = Tag THEN userList ELSE NoLimiter]
  /\ lastList = userList
  /\ edits = 0 /\ faults = 0

-----------------------------------------------------------------------------
(* setRebuildPending: the first retry is due at once, later ones wait *)

MarkPending ==
  /\ rebuildPending' = TRUE
  /\ backoff' = TRUE
  /\ waiting' = backoff

\* Mutant of ClearPending: the time of the next retry stays.
ClearPendingFlag == rebuildPending' = FALSE /\ backoff' = FALSE /\ UNCHANGED waiting

ClearPending == rebuildPending' = FALSE /\ backoff' = FALSE /\ waiting' = FALSE

NeedsRebuild == rebuildPending /\ ~waiting

\* The turn ends; what it fetched is of no more use.
EndTurn ==
  /\ pc' = "idle"
  /\ newInfo' = nodeInfo /\ newUsers' = lastList' /\ oldTag' = Tag

\* A call fails and the monitor returns.
Fail ==
  /\ faults < MaxFaults
  /\ faults' = faults + 1
  /\ UNCHANGED <<panel, nodeInfo, userList, rebuild, limiter, lastList>>
  /\ EndTurn

-----------------------------------------------------------------------------
(* One turn of nodeInfoMonitor *)

GetNodeInfo ==
  /\ pc = "idle"
  /\ newInfo' = panelInfo
  /\ pc' = "users"
  /\ UNCHANGED <<panel, nodeInfo, userList, rebuild, newUsers, oldTag, core, limiter, lastList, faults>>

GetUserList ==
  /\ pc = "users"
  /\ newUsers' = panelUsers
  /\ pc' = "decide"
  /\ UNCHANGED <<panel, nodeInfo, userList, rebuild, newInfo, oldTag, core, limiter, lastList, faults>>

FetchFails ==
  /\ pc = "users"
  /\ Fail
  /\ UNCHANGED core

\* Mutant of StartRebuild: the flag is left to the end of the turn.
StartRebuildUnmarked ==
  /\ pc = "decide"
  /\ NeedsRebuild \/ nodeInfo # newInfo
  /\ oldTag' = Tag
  /\ pc' = "remove"
  /\ UNCHANGED <<panel, nodeInfo, userList, rebuild, newInfo, newUsers, core, limiter, lastList, faults>>

StartRebuild ==
  /\ pc = "decide"
  /\ NeedsRebuild \/ nodeInfo # newInfo
  /\ MarkPending
  /\ oldTag' = Tag
  /\ pc' = "remove"
  /\ UNCHANGED <<panel, nodeInfo, userList, newInfo, newUsers, core, limiter, lastList, faults>>

NoRebuild ==
  /\ pc = "decide"
  /\ ~NeedsRebuild /\ nodeInfo = newInfo
  /\ pc' = "diff"
  /\ UNCHANGED <<panel, nodeInfo, userList, rebuild, fetched, core, limiter, lastList, faults>>

\* Mutant of RemoveOldTag: the tag that is about to be built is removed.
RemoveNewTag ==
  /\ pc = "remove"
  /\ inbound' = [inbound EXCEPT ![TagOf[newInfo]] = NoInbound]
  /\ outbound' = outbound \ {TagOf[newInfo]}
  /\ nodeInfo' = newInfo
  /\ pc' = "inbound"
  /\ UNCHANGED <<panel, userList, rebuild, fetched, limiter, lastList, faults>>

\* removeOldTag, then the node takes over the new info.  A tag without handlers
\* counts as removed.
RemoveOldTag ==
  /\ pc = "remove"
  /\ inbound' = [inbound EXCEPT ![oldTag] = NoInbound]
  /\ outbound' = outbound \ {oldTag}
  /\ nodeInfo' = newInfo
  /\ pc' = "inbound"
  /\ UNCHANGED <<panel, userList, rebuild, fetched, limiter, lastList, faults>>

\* addNewTag.  The core refuses a tag it already has.
AddInbound ==
  /\ pc = "inbound"
  /\ inbound[Tag] = NoInbound
  /\ inbound' = [inbound EXCEPT ![Tag] = [info |-> newInfo, users |-> Empty]]
  /\ pc' = "outbound"
  /\ UNCHANGED <<panel, nodeInfo, userList, rebuild, fetched, outbound, limiter, lastList, faults>>

AddOutbound ==
  /\ pc = "outbound"
  /\ Tag \notin outbound
  /\ outbound' = outbound \cup {Tag}
  /\ pc' = "forget"
  /\ UNCHANGED <<panel, nodeInfo, userList, rebuild, fetched, inbound, limiter, lastList, faults>>

\* A port in use, a missing certificate, a config that does not build.
AddNewTagFails ==
  /\ pc \in {"inbound", "outbound"}
  /\ Fail
  /\ UNCHANGED core

ForgetOldLimiter ==
  /\ pc = "forget"
  /\ limiter' = [limiter EXCEPT ![oldTag] = NoLimiter]
  /\ pc' = "addUsers"
  /\ UNCHANGED <<panel, nodeInfo, userList, rebuild, fetched, core, lastList, faults>>

\* The users of the own inbound become those of a list.
SetUsers(list) ==
  inbound' = [inbound EXCEPT ![Tag] = [info |-> @.info, users |-> list]]

\* addUsers: the users the core does not have yet; bad ones are skipped.
WithAdded(has, list) ==
  [u \in Users |-> IF has[u] # 0 THEN has[u] ELSE Accepted(list)[u]]

AddAllUsers ==
  /\ pc = "addUsers"
  /\ SetUsers(WithAdded(inbound[Tag].users, newUsers))
  /\ pc' = "limiter"
  /\ UNCHANGED <<panel, nodeInfo, userList, rebuild, fetched, outbound, limiter, lastList, faults>>

AddLimiter ==
  /\ pc = "limiter"
  /\ limiter' = [limiter EXCEPT ![Tag] = newUsers]
  /\ ClearPending
  /\ userList' = newUsers
  /\ lastList' = newUsers
  /\ EndTurn
  /\ UNCHANGED <<panel, nodeInfo, core, faults>>

-----------------------------------------------------------------------------
(* A turn without rebuild *)

\* compareUserList, removeUsers, addNewUser.
Deleted == {u \in Users : userList[u] # 0 /\ newUsers[u] # userList[u]}
Added   == {u \in Users : newUsers[u] # 0 /\ newUsers[u] # userList[u]}
AddedList == [u \in Users |-> IF u \in Added THEN newUsers[u] ELSE 0]
WithoutDeleted(has) == [u \in Users |-> IF u \in Deleted THEN 0 ELSE has[u]]

\* Mutant of DiffUsers: additions first, so a user that changed is then removed.
DiffUsersSwapped ==
  /\ pc = "diff"
  /\ IF inbound[Tag] = NoInbound THEN UNCHANGED inbound
     ELSE SetUsers(WithoutDeleted(WithAdded(inbound[Tag].users, AddedList)))
  /\ pc' = "update"
  /\ UNCHANGED <<panel, nodeInfo, userList, rebuild, fetched, outbound, limiter, lastList, faults>>

DiffUsers ==
  /\ pc = "diff"
  /\ IF inbound[Tag] = NoInbound THEN UNCHANGED inbound
     ELSE SetUsers(WithAdded(WithoutDeleted(inbound[Tag].users), AddedList))
  /\ pc' = "update"
  /\ UNCHANGED <<panel, nodeInfo, userList, rebuild, fetched, outbound, limiter, lastList, faults>>

\* A change that has no inbound to go to, or no limiter.
SyncFailed ==
  \/ inbound[Tag] = NoInbound /\ Deleted \cup Added # {}
  \/ limiter[Tag] = NoLimiter

\* UpdateInboundLimiter, then the list is taken over unless something failed.
Update ==
  /\ pc = "update"
  /\ limiter' = IF limiter[Tag] = NoLimiter THEN limiter
                ELSE [limiter EXCEPT ![Tag] = newUsers]
  /\ userList' = IF SyncFailed THEN userList ELSE newUsers
  /\ lastList' = newUsers
  /\ EndTurn
  /\ UNCHANGED <<panel, nodeInfo, rebuild, core, faults>>

-----------------------------------------------------------------------------
BackoffOver ==
  /\ waiting
  /\ waiting' = FALSE
  /\ UNCHANGED <<panel, nodeInfo, userList, rebuildPending, backoff, pc, fetched, core, limiter, lastList, faults>>

EditInfo ==
  /\ edits < MaxEdits
  /\ \E i \in Infos \ {panelInfo} : panelInfo' = i
  /\ edits' = edits + 1
  /\ UNCHANGED <<panelUsers, nodeInfo, userList, rebuild, pc, fetched, core, limiter, lastList, faults>>

EditUser ==
  /\ edits < MaxEdits
  /\ \E u \in Users, v \in Variants \cup {0} :
       v # panelUsers[u] /\ panelUsers' = [panelUsers EXCEPT ![u] = v]
  /\ edits' = edits + 1
  /\ UNCHANGED <<panelInfo, nodeInfo, userList, rebuild, pc, fetched, core, limiter, lastList, faults>>

Turn ==
  \/ GetNodeInfo \/ GetUserList
  \/ StartRebuild \/ NoRebuild
  \/ RemoveOldTag \/ AddInbound \/ AddOutbound
  \/ ForgetOldLimiter \/ AddAllUsers \/ AddLimiter
  \/ DiffUsers \/ Update

Next ==
  \/ Turn \/ FetchFails \/ AddNewTagFails
  \/ BackoffOver
  \/ EditInfo \/ EditUser

\* The monitor is called again after each turn, and time passes.
Spec == Init /\ [][Next]_vars /\ WF_vars(Turn) /\ WF_vars(BackoffOver)

-----------------------------------------------------------------------------
Built(t) == /\ inbound[t] # NoInbound /\ inbound[t].info = nodeInfo
            /\ t \in outbound
            /\ limiter[t] # NoLimiter

(* Between turns a node that is not marked for a rebuild has its inbound,
   outbound and limiter as its info asks, and no other tag has handlers:
   whatever step of a rebuild failed, a later turn starts it again. *)
NodeIsBuilt ==
  pc = "idle" /\ ~rebuildPending =>
    /\ Built(Tag)
    /\ \A t \in Tags \ {Tag} : inbound[t] = NoInbound /\ t \notin outbound

\* A connection of u under t would pass the core and guardDataPath.
Serves(t, u) == inbound[t].users[u] # 0 /\ limiter[t][u] > 0

(* Only users of the last list, or of the one being put in place, get through,
   in the middle of a rebuild and after one that failed as well. *)
ServesOnlyListed ==
  \A t \in Tags, u \in Users :
    Serves(t, u) => lastList[u] # 0 \/ newUsers[u] # 0

(* The inductive invariant.  Handlers exist only under the node's own tag; a turn
   that rebuilds is marked from before it removes anything; and what the core has
   while a rebuild is under way is what its steps have put there. *)
Rebuilding == {"remove", "inbound", "outbound", "forget", "addUsers", "limiter"}

OnlyOwnTag == \A t \in Tags \ {Tag} : inbound[t] = NoInbound /\ t \notin outbound

RebuildSteps ==
  /\ pc \in Rebuilding => rebuildPending
  /\ pc \in Rebuilding \ {"remove"} => nodeInfo = newInfo
  /\ pc = "remove" => oldTag = Tag
  /\ pc = "inbound" => inbound[Tag] = NoInbound
  /\ pc \in {"inbound", "outbound"} => Tag \notin outbound
  /\ pc \in {"outbound", "forget", "addUsers", "limiter"} =>
       inbound[Tag] # NoInbound /\ inbound[Tag].info = nodeInfo
  /\ pc = "outbound" => inbound[Tag].users = Empty
  /\ pc \in {"forget", "addUsers", "limiter"} => Tag \in outbound

NodeInv ==
  /\ TypeOK
  /\ OnlyOwnTag
  /\ RebuildSteps
  /\ ~rebuildPending => Built(Tag)
  /\ pc \in {"idle", "users"} => newUsers = lastList
  /\ ServesOnlyListed

(* When the panel stops changing and calls stop failing, the node comes to serve
   exactly what the panel says. *)
Converges ==
  <>[] /\ inbound[TagOf[panelInfo]] = [info |-> panelInfo, users |-> Accepted(panelUsers)]
       /\ TagOf[panelInfo] \in outbound
       /\ limiter[TagOf[panelInfo]] = panelUsers

=============================================================================
