------------------------ MODULE NodeController_proofs ------------------------
(***************************************************************************)
(* Proofs about the node monitor, for any infos, tags, users, edits and    *)
(* faults: NodeInv is inductive; the type invariant, NodeIsBuilt and       *)
(* ServesOnlyListed follow.                                                *)
(***************************************************************************)
EXTENDS NodeController, TLAPS

\* The values that mean "nothing there" differ from what can be there.
LEMMA Sentinels ==
  /\ Empty \in Lists
  /\ NoLimiter \notin Lists
  /\ \A i \in Infos, l \in Lists : [info |-> i, users |-> l] # NoInbound
<1>1. Empty \in Lists
  BY DEF Empty, Lists
<1>2. NoLimiter \notin Lists
  BY NodeAssumption DEF NoLimiter, Lists
<1>3. \A i \in Infos, l \in Lists : [info |-> i, users |-> l] # NoInbound
  BY NodeAssumption DEF NoInbound
<1>. QED BY <1>1, <1>2, <1>3

LEMMA OwnTag == ASSUME TypeOK PROVE Tag \in Tags
BY DEF TypeOK, Tag, Tags

\* What the core takes of a list is a list.
LEMMA AcceptedType == ASSUME NEW l \in Lists PROVE Accepted(l) \in Lists
BY DEF Accepted, Lists

\* New users for the own inbound leave its info and all other inbounds alone.
LEMMA SetUsersStep ==
  ASSUME TypeOK, NEW l \in Lists, inbound[Tag] # NoInbound, SetUsers(l)
  PROVE  /\ inbound' \in [Tags -> [info : Infos, users : Lists] \cup {NoInbound}]
         /\ \A t \in Tags \ {Tag} : inbound'[t] = inbound[t]
         /\ inbound'[Tag] # NoInbound
         /\ inbound'[Tag].info = inbound[Tag].info
         /\ inbound'[Tag].users = l
<1>1. Tag \in Tags
  BY OwnTag
<1>2. inbound[Tag] \in [info : Infos, users : Lists]
  BY <1>1 DEF TypeOK
<1>3. inbound' = [inbound EXCEPT ![Tag] = [info |-> inbound[Tag].info, users |-> l]]
  BY DEF SetUsers
<1>4. [info |-> inbound[Tag].info, users |-> l] # NoInbound
  BY <1>2, Sentinels
<1>5. inbound'[Tag] = [info |-> inbound[Tag].info, users |-> l]
  BY <1>1, <1>3 DEF TypeOK
<1>6. inbound' \in [Tags -> [info : Infos, users : Lists] \cup {NoInbound}]
  BY <1>1, <1>2, <1>3 DEF TypeOK
<1>7. \A t \in Tags \ {Tag} : inbound'[t] = inbound[t]
  BY <1>1, <1>3 DEF TypeOK
<1>. QED BY <1>4, <1>5, <1>6, <1>7

\* The users a turn puts into the inbound.
LEMMA NewUserLists ==
  ASSUME TypeOK, NEW has \in Lists, NEW l \in Lists
  PROVE  /\ WithAdded(has, l) \in Lists
         /\ \A u \in Users : WithAdded(has, l)[u] # 0 => has[u] # 0 \/ l[u] # 0
         /\ WithoutDeleted(has) \in Lists
         /\ \A u \in Users : WithoutDeleted(has)[u] # 0 =>
              /\ has[u] # 0
              /\ userList[u] = 0 \/ newUsers[u] = userList[u]
         /\ AddedList \in Lists
         /\ \A u \in Users : AddedList[u] # 0 => newUsers[u] # 0
<1>1. WithAdded(has, l) \in Lists
  BY AcceptedType DEF WithAdded, Lists
<1>2. \A u \in Users : WithAdded(has, l)[u] # 0 => has[u] # 0 \/ l[u] # 0
  BY DEF WithAdded, Accepted
<1>3. WithoutDeleted(has) \in Lists
  BY DEF WithoutDeleted, Lists
<1>4. \A u \in Users : WithoutDeleted(has)[u] # 0 =>
              /\ has[u] # 0
              /\ userList[u] = 0 \/ newUsers[u] = userList[u]
  BY DEF WithoutDeleted, Deleted
<1>5. AddedList \in Lists
  BY DEF AddedList, TypeOK, Lists
<1>6. \A u \in Users : AddedList[u] # 0 => newUsers[u] # 0
  BY DEF AddedList
<1>. QED BY <1>1, <1>2, <1>3, <1>4, <1>5, <1>6

\* Every step keeps the types: users are added only to an inbound that is there.
LEMMA TypeStep == ASSUME TypeOK, RebuildSteps, [Next]_vars PROVE TypeOK'
<1>. USE NodeAssumption
<1>0. Tag \in Tags /\ panelUsers \in Lists /\ Empty \in Lists
  BY OwnTag, Sentinels DEF TypeOK
<1>1. CASE GetNodeInfo
  BY <1>1 DEF GetNodeInfo, TypeOK, PC, panel, rebuild, core
<1>2. CASE GetUserList
  BY <1>2 DEF GetUserList, TypeOK, PC, panel, rebuild, core
<1>3. CASE FetchFails \/ AddNewTagFails
  BY <1>0, <1>3 DEF FetchFails, AddNewTagFails, Fail, EndTurn, TypeOK, PC, panel, rebuild, core
<1>4. CASE StartRebuild
  BY <1>0, <1>4 DEF StartRebuild, MarkPending, TypeOK, PC, panel, core
<1>5. CASE NoRebuild
  BY <1>5 DEF NoRebuild, TypeOK, PC, panel, rebuild, fetched, core
<1>6. CASE RemoveOldTag
  BY <1>6 DEF RemoveOldTag, TypeOK, PC, panel, rebuild, fetched
<1>7. CASE AddInbound
  <2>1. [info |-> newInfo, users |-> Empty] \in [info : Infos, users : Lists]
    BY <1>0 DEF TypeOK
  <2>2. inbound' \in [Tags -> [info : Infos, users : Lists] \cup {NoInbound}]
    BY <1>7, <2>1 DEF AddInbound, TypeOK
  <2>. QED BY <1>7, <2>2 DEF AddInbound, TypeOK, PC, panel, rebuild, fetched
<1>8. CASE AddOutbound
  BY <1>0, <1>8 DEF AddOutbound, TypeOK, PC, panel, rebuild, fetched
<1>9. CASE ForgetOldLimiter
  BY <1>9 DEF ForgetOldLimiter, TypeOK, PC, panel, rebuild, fetched, core
<1>10. CASE AddAllUsers
  <2>0. inbound[Tag] # NoInbound
    BY <1>10 DEF AddAllUsers, RebuildSteps
  <2>1. inbound[Tag].users \in Lists
    BY <1>0, <2>0 DEF TypeOK
  <2>2. inbound' \in [Tags -> [info : Infos, users : Lists] \cup {NoInbound}]
    BY <1>10, <2>0, <2>1, NewUserLists, SetUsersStep DEF AddAllUsers, TypeOK
  <2>. QED BY <1>10, <2>2 DEF AddAllUsers, TypeOK, PC, panel, rebuild, fetched
<1>11. CASE AddLimiter
  <2>1. limiter' \in [Tags -> Lists \cup {NoLimiter}]
    BY <1>11 DEF AddLimiter, TypeOK
  <2>. QED BY <1>0, <1>11, <2>1 DEF AddLimiter, ClearPending, EndTurn, TypeOK, PC, panel, core
<1>12. CASE DiffUsers
  <2>1. CASE inbound[Tag] = NoInbound
    BY <1>12, <2>1 DEF DiffUsers, TypeOK, PC, panel, rebuild, fetched
  <2>2. CASE inbound[Tag] # NoInbound
    <3>1. inbound[Tag].users \in Lists
      BY <1>0, <2>2 DEF TypeOK
    <3>2. WithAdded(WithoutDeleted(inbound[Tag].users), AddedList) \in Lists
      BY <3>1, NewUserLists
    <3>3. inbound' \in [Tags -> [info : Infos, users : Lists] \cup {NoInbound}]
      BY <1>12, <2>2, <3>2, SetUsersStep DEF DiffUsers
    <3>. QED BY <1>12, <3>3 DEF DiffUsers, TypeOK, PC, panel, rebuild, fetched
  <2>. QED BY <2>1, <2>2
<1>13. CASE Update
  <2>1. limiter' \in [Tags -> Lists \cup {NoLimiter}] /\ userList' \in Lists
    BY <1>13 DEF Update, TypeOK
  <2>. QED BY <1>0, <1>13, <2>1 DEF Update, EndTurn, TypeOK, PC, panel, rebuild, core
<1>14. CASE BackoffOver
  BY <1>14 DEF BackoffOver, TypeOK, panel, fetched, core
<1>15. CASE EditInfo
  BY <1>15 DEF EditInfo, TypeOK, rebuild, fetched, core
<1>16. CASE EditUser
  BY <1>16 DEF EditUser, TypeOK, Lists, rebuild, fetched, core
<1>17. CASE UNCHANGED vars
  BY <1>17 DEF vars, TypeOK, panel, rebuild, fetched, core
<1>. QED
  BY <1>1, <1>2, <1>3, <1>4, <1>5, <1>6, <1>7, <1>8, <1>9, <1>10, <1>11, <1>12, <1>13,
     <1>14, <1>15, <1>16, <1>17 DEF Next, Turn

\* A tag without inbound serves nobody.
LEMMA NotServed ==
  ASSUME NEW t \in Tags, NEW u \in Users
  PROVE  /\ inbound[t] = NoInbound => ~Serves(t, u)
         /\ (inbound[t] = NoInbound => ~Serves(t, u))'
BY DEF Serves, NoInbound, Empty

LEMMA InvInit == ASSUME Init PROVE NodeInv
<1>. USE NodeAssumption
<1>1. Tag \in Tags /\ Empty \in Lists /\ panelUsers \in Lists /\ Accepted(userList) \in Lists
  BY Sentinels, AcceptedType DEF Init, Tag, Tags
<1>2. inbound \in [Tags -> [info : Infos, users : Lists] \cup {NoInbound}]
  BY <1>1 DEF Init
<1>3. TypeOK
  <2>1. outbound \subseteq Tags /\ limiter \in [Tags -> Lists \cup {NoLimiter}]
    BY <1>1 DEF Init
  <2>2. 0 \in 0..MaxEdits /\ 0 \in 0..MaxFaults
    OBVIOUS
  <2>. HIDE NodeAssumption
  <2>. QED BY <1>1, <1>2, <2>1, <2>2 DEF Init, TypeOK, PC
<1>4. inbound[Tag] # NoInbound /\ inbound[Tag].info = nodeInfo /\ limiter[Tag] # NoLimiter
  BY <1>1, Sentinels DEF Init
<1>5. OnlyOwnTag
  BY <1>1 DEF Init, OnlyOwnTag
<1>6. ServesOnlyListed
  <2>. SUFFICES ASSUME NEW t \in Tags, NEW u \in Users, Serves(t, u)
                PROVE  lastList[u] # 0
    BY DEF ServesOnlyListed
  <2>1. t = Tag
    BY <1>5, NotServed DEF OnlyOwnTag
  <2>. QED BY <1>1, <2>1 DEF Init, Serves, Accepted
<1>. QED BY <1>3, <1>4, <1>5, <1>6 DEF Init, NodeInv, RebuildSteps, Rebuilding, Built

\* A step that touches neither the core, the limiters nor the node's info keeps
\* what the invariant says of them.
LEMMA CoreUnchanged ==
  ASSUME NodeInv, UNCHANGED <<core, limiter, nodeInfo>>
  PROVE  /\ OnlyOwnTag'
         /\ Built(Tag)' <=> Built(Tag)
         /\ \A t \in Tags, u \in Users : Serves(t, u)' <=> Serves(t, u)
BY DEF NodeInv, OnlyOwnTag, Built, Serves, Tag, core

\* Before the users are put into a new inbound nobody is served.
LEMMA NobodyServed ==
  ASSUME NodeInv, pc \in {"inbound", "outbound"}, NEW t \in Tags, NEW u \in Users
  PROVE  ~Serves(t, u)
<1>1. CASE t # Tag
  BY <1>1, NotServed DEF NodeInv, OnlyOwnTag
<1>2. CASE t = Tag
  BY <1>2, NotServed DEF NodeInv, RebuildSteps, Serves, Empty
<1>. QED BY <1>1, <1>2

\* When only the own tag has an inbound and its limiter, if any, has the new
\* list, only users of that list are served.
LEMMA OnlyOwnServes ==
  ASSUME NodeInv, UNCHANGED inbound, lastList' = newUsers,
         limiter'[Tag] \in {NoLimiter, newUsers}
  PROVE  ServesOnlyListed'
<1>. SUFFICES ASSUME NEW t \in Tags, NEW u \in Users, Serves(t, u)'
              PROVE  newUsers[u] # 0
  BY DEF ServesOnlyListed
<1>1. t = Tag
  BY NotServed DEF NodeInv, OnlyOwnTag, Serves, NoInbound, Empty
<1>. QED BY <1>1 DEF Serves, NoLimiter

\* NodeInv is inductive.
LEMMA InvStep == ASSUME NodeInv, [Next]_vars PROVE NodeInv'
<1>. USE DEF NodeInv
<1>0. TypeOK' /\ Tag \in Tags /\ Tag' \in Tags
  <2>1. TypeOK'
    BY TypeStep
  <2>. QED BY <2>1, OwnTag DEF TypeOK, Tag, Tags
<1>1. CASE GetNodeInfo
  BY <1>0, <1>1, CoreUnchanged
     DEF GetNodeInfo, RebuildSteps, Rebuilding, ServesOnlyListed, Tag, rebuild, core
<1>2. CASE GetUserList
  BY <1>0, <1>2, CoreUnchanged
     DEF GetUserList, RebuildSteps, Rebuilding, ServesOnlyListed, Tag, rebuild, core
<1>3. CASE FetchFails
  BY <1>0, <1>3, CoreUnchanged
     DEF FetchFails, Fail, EndTurn, RebuildSteps, Rebuilding, ServesOnlyListed, Tag, rebuild, core
<1>4. CASE AddNewTagFails
  <2>1. \A t \in Tags, u \in Users : ~Serves(t, u)'
    BY <1>4, CoreUnchanged, NobodyServed DEF AddNewTagFails, Fail
  <2>. QED
    BY <1>0, <1>4, <2>1, CoreUnchanged
       DEF AddNewTagFails, Fail, EndTurn, RebuildSteps, Rebuilding, ServesOnlyListed, Tag, rebuild, core
<1>5. CASE StartRebuild
  BY <1>0, <1>5, CoreUnchanged
     DEF StartRebuild, MarkPending, RebuildSteps, Rebuilding, ServesOnlyListed, Tag, core
<1>6. CASE NoRebuild
  BY <1>0, <1>6, CoreUnchanged
     DEF NoRebuild, RebuildSteps, Rebuilding, ServesOnlyListed, Tag, rebuild, fetched, core
<1>7. CASE RemoveOldTag
  <2>1. \A t \in Tags : inbound'[t] = NoInbound /\ t \notin outbound'
    BY <1>7 DEF RemoveOldTag, OnlyOwnTag, RebuildSteps, TypeOK
  <2>2. ServesOnlyListed'
    BY <2>1, NotServed DEF ServesOnlyListed
  <2>3. OnlyOwnTag'
    BY <2>1 DEF OnlyOwnTag
  <2>4. RebuildSteps'
    BY <1>0, <1>7, <2>1 DEF RemoveOldTag, RebuildSteps, Rebuilding, rebuild, fetched
  <2>. QED BY <1>0, <1>7, <2>2, <2>3, <2>4 DEF RemoveOldTag, RebuildSteps, Rebuilding, rebuild
<1>8. CASE AddInbound
  <2>1. /\ Tag' = Tag
        /\ inbound'[Tag] = [info |-> newInfo, users |-> Empty]
        /\ \A t \in Tags \ {Tag} : inbound'[t] = NoInbound
    BY <1>0, <1>8 DEF AddInbound, OnlyOwnTag, Tag, TypeOK
  <2>2. inbound'[Tag] # NoInbound
    BY <2>1, Sentinels DEF TypeOK
  <2>3. ServesOnlyListed'
    <3>1. \A u \in Users : ~Serves(Tag, u)'
      BY <2>1 DEF Serves, Empty
    <3>. QED BY <2>1, <3>1, NotServed DEF ServesOnlyListed, Serves
  <2>4. OnlyOwnTag'
    BY <1>8, <2>1 DEF AddInbound, OnlyOwnTag
  <2>5. RebuildSteps'
    BY <1>8, <2>1, <2>2 DEF AddInbound, RebuildSteps, Rebuilding, rebuild, fetched
  <2>. QED BY <1>0, <1>8, <2>3, <2>4, <2>5 DEF AddInbound, RebuildSteps, Rebuilding, rebuild
<1>9. CASE AddOutbound
  <2>1. ServesOnlyListed'
    BY <1>9 DEF AddOutbound, ServesOnlyListed, Serves, fetched
  <2>2. OnlyOwnTag'
    BY <1>9 DEF AddOutbound, OnlyOwnTag, Tag
  <2>3. RebuildSteps'
    BY <1>9 DEF AddOutbound, RebuildSteps, Rebuilding, Tag, rebuild, fetched
  <2>. QED BY <1>0, <1>9, <2>1, <2>2, <2>3 DEF AddOutbound, RebuildSteps, Rebuilding, rebuild
<1>10. CASE ForgetOldLimiter
  <2>1. ServesOnlyListed'
    <3>1. \A t \in Tags, u \in Users : Serves(t, u)' => Serves(t, u)
      BY <1>10 DEF ForgetOldLimiter, Serves, NoLimiter, core, TypeOK
    <3>. QED BY <1>10, <3>1 DEF ForgetOldLimiter, ServesOnlyListed, fetched
  <2>2. OnlyOwnTag'
    BY <1>10 DEF ForgetOldLimiter, OnlyOwnTag, Tag, core
  <2>3. RebuildSteps'
    BY <1>10 DEF ForgetOldLimiter, RebuildSteps, Rebuilding, Tag, rebuild, fetched, core
  <2>. QED BY <1>0, <1>10, <2>1, <2>2, <2>3 DEF ForgetOldLimiter, RebuildSteps, Rebuilding, rebuild
<1>11. CASE AddAllUsers
  <2>. DEFINE has == inbound[Tag].users
  <2>1. inbound[Tag] # NoInbound /\ Tag' = Tag
    BY <1>11 DEF AddAllUsers, RebuildSteps, Tag
  <2>2. has \in Lists
    BY <1>0, <2>1 DEF TypeOK
  <2>3. newUsers \in Lists
    BY DEF TypeOK
  <2>4. /\ \A t \in Tags \ {Tag} : inbound'[t] = inbound[t]
        /\ inbound'[Tag] # NoInbound /\ inbound'[Tag].info = inbound[Tag].info
        /\ inbound'[Tag].users = WithAdded(has, newUsers)
    BY <1>11, <2>1, <2>2, <2>3, NewUserLists, SetUsersStep DEF AddAllUsers
  <2>5. ServesOnlyListed'
    <3>. SUFFICES ASSUME NEW t \in Tags, NEW u \in Users, Serves(t, u)'
                  PROVE  Serves(t, u) \/ newUsers[u] # 0
      BY <1>11 DEF AddAllUsers, ServesOnlyListed, fetched
    <3>1. CASE t # Tag
      BY <1>11, <2>4, <3>1 DEF AddAllUsers, Serves
    <3>2. CASE t = Tag
      <4>1. WithAdded(has, newUsers)[u] # 0 => has[u] # 0 \/ newUsers[u] # 0
        BY <2>2, <2>3, NewUserLists
      <4>. QED BY <1>11, <2>4, <3>2, <4>1 DEF AddAllUsers, Serves
    <3>. QED BY <3>1, <3>2
  <2>6. OnlyOwnTag'
    BY <1>11, <2>1, <2>4 DEF AddAllUsers, OnlyOwnTag
  <2>7. RebuildSteps'
    BY <1>11, <2>1, <2>4 DEF AddAllUsers, RebuildSteps, Rebuilding, rebuild, fetched
  <2>. QED BY <1>0, <1>11, <2>5, <2>6, <2>7 DEF AddAllUsers, RebuildSteps, Rebuilding, rebuild
<1>12. CASE AddLimiter
  <2>1. /\ Tag' = Tag /\ limiter'[Tag] = newUsers
        /\ newUsers' = newUsers /\ lastList' = newUsers
    BY <1>0, <1>12 DEF AddLimiter, EndTurn, Tag, TypeOK
  <2>2. ServesOnlyListed'
    BY <1>0, <1>12, <2>1, OnlyOwnServes DEF AddLimiter, core
  <2>3. OnlyOwnTag'
    BY <1>12, <2>1 DEF AddLimiter, OnlyOwnTag, core
  <2>4. RebuildSteps'
    BY <1>12 DEF AddLimiter, EndTurn, RebuildSteps, Rebuilding
  <2>5. Built(Tag)'
    BY <1>12, <2>1, Sentinels DEF AddLimiter, Built, RebuildSteps, core, TypeOK
  <2>. QED BY <1>0, <2>1, <2>2, <2>3, <2>4, <2>5
<1>13. CASE DiffUsers
  <2>1. CASE inbound[Tag] = NoInbound
    BY <1>0, <1>13, <2>1, CoreUnchanged
       DEF DiffUsers, RebuildSteps, Rebuilding, ServesOnlyListed, Tag, rebuild, fetched, core
  <2>2. CASE inbound[Tag] # NoInbound
    <3>. DEFINE has == inbound[Tag].users
                kept == WithoutDeleted(has)
    <3>1. has \in Lists /\ Tag' = Tag
      BY <1>0, <1>13, <2>2 DEF DiffUsers, Tag, TypeOK
    <3>2. kept \in Lists /\ AddedList \in Lists
      BY <3>1, NewUserLists
    <3>3. /\ \A t \in Tags \ {Tag} : inbound'[t] = inbound[t]
          /\ inbound'[Tag] # NoInbound /\ inbound'[Tag].info = inbound[Tag].info
          /\ inbound'[Tag].users = WithAdded(kept, AddedList)
      BY <1>13, <2>2, <3>2, NewUserLists, SetUsersStep DEF DiffUsers
    <3>4. ServesOnlyListed'
      <4>. SUFFICES ASSUME NEW t \in Tags, NEW u \in Users, Serves(t, u)'
                    PROVE  Serves(t, u) \/ newUsers[u] # 0
        BY <1>13 DEF DiffUsers, ServesOnlyListed, fetched
      <4>1. CASE t # Tag
        BY <1>13, <3>3, <4>1 DEF DiffUsers, Serves
      <4>2. CASE t = Tag
        <5>1. WithAdded(kept, AddedList)[u] # 0 => has[u] # 0 \/ newUsers[u] # 0
          BY <3>1, <3>2, NewUserLists
        <5>. QED BY <1>13, <3>3, <4>2, <5>1 DEF DiffUsers, Serves
      <4>. QED BY <4>1, <4>2
    <3>5. OnlyOwnTag'
      BY <1>13, <3>1, <3>3 DEF DiffUsers, OnlyOwnTag
    <3>6. RebuildSteps'
      BY <1>13 DEF DiffUsers, RebuildSteps, Rebuilding
    <3>7. Built(Tag) => Built(Tag)'
      BY <1>13, <3>1, <3>3 DEF DiffUsers, Built
    <3>. QED BY <1>0, <1>13, <3>4, <3>5, <3>6, <3>7 DEF DiffUsers, rebuild
  <2>. QED BY <2>1, <2>2
<1>14. CASE Update
  <2>1. /\ Tag' = Tag
        /\ limiter'[Tag] = IF limiter[Tag] = NoLimiter THEN NoLimiter ELSE newUsers
        /\ newUsers' = newUsers /\ lastList' = newUsers
    BY <1>0, <1>14 DEF Update, EndTurn, Tag, TypeOK
  <2>2. ServesOnlyListed'
    BY <1>0, <1>14, <2>1, OnlyOwnServes DEF Update, core
  <2>3. OnlyOwnTag'
    BY <1>14, <2>1 DEF Update, OnlyOwnTag, core
  <2>4. RebuildSteps'
    BY <1>14 DEF Update, EndTurn, RebuildSteps, Rebuilding
  <2>5. Built(Tag) => Built(Tag)'
    BY <1>14, <2>1, Sentinels DEF Update, Built, core, TypeOK
  <2>. QED BY <1>0, <1>14, <2>1, <2>2, <2>3, <2>4, <2>5 DEF Update, rebuild
<1>15. CASE BackoffOver
  BY <1>0, <1>15, CoreUnchanged
     DEF BackoffOver, RebuildSteps, Rebuilding, ServesOnlyListed, Tag, fetched, core
<1>16. CASE EditInfo \/ EditUser
  BY <1>0, <1>16, CoreUnchanged
     DEF EditInfo, EditUser, RebuildSteps, Rebuilding, ServesOnlyListed, Tag, rebuild, fetched, core
<1>17. CASE UNCHANGED vars
  BY <1>0, <1>17, CoreUnchanged
     DEF vars, RebuildSteps, Rebuilding, ServesOnlyListed, Tag, rebuild, fetched, core
<1>. QED
  BY <1>1, <1>2, <1>3, <1>4, <1>5, <1>6, <1>7, <1>8, <1>9, <1>10, <1>11, <1>12, <1>13,
     <1>14, <1>15, <1>16, <1>17 DEF Next, Turn

-----------------------------------------------------------------------------
\* The inductive invariant holds of every behaviour, whatever the panel does and
\* whichever calls fail.
THEOREM NodeInvariant == Spec => []NodeInv
<1>1. Init => NodeInv
  BY InvInit
<1>2. NodeInv /\ [Next]_vars => NodeInv'
  BY InvStep
<1>. QED BY <1>1, <1>2, PTL DEF Spec

\* Every variable of the node monitor keeps its type.
THEOREM NodeTypes == Spec => []TypeOK
<1>1. NodeInv => TypeOK
  BY DEF NodeInv
<1>. QED BY <1>1, NodeInvariant, PTL

\* A node that is not marked for a rebuild is built, and has handlers under no
\* other tag (nodeInfoMonitor marks it before it takes anything down).
THEOREM BuiltOrMarked == Spec => []NodeIsBuilt
<1>1. NodeInv => NodeIsBuilt
  BY DEF NodeInv, OnlyOwnTag, NodeIsBuilt
<1>. QED BY <1>1, NodeInvariant, PTL

\* Nobody gets through who is on neither the list in force nor the one that is
\* being put in place, at any step of any turn.
THEOREM OnlyListed == Spec => []ServesOnlyListed
<1>1. NodeInv => ServesOnlyListed
  BY DEF NodeInv
<1>. QED BY <1>1, NodeInvariant, PTL

=============================================================================
