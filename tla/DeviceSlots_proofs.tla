-------------------------- MODULE DeviceSlots_proofs --------------------------
(***************************************************************************)
(* Proofs about the limiter's ledger, for any devices, connections, limits *)
(* and lists: the type invariant, and that no removed device has a slot.   *)
(* SlotHasUser is inductive together with what a check under way carries:  *)
(* an admission or renewal that reaches the ledger started from an entry,  *)
(* so the entry it finds unchanged under the lock is one.  The two action  *)
(* properties follow from the few things a step can do to the ledger.      *)
(***************************************************************************)
EXTENDS DeviceSlots, FiniteSetTheorems, TLAPS

Checking == {"admit", "ask", "asking", "renew"}

\* A check that is under way started from an entry of the device.
LoadedEntry == \A c \in Conns : pc[c] \in Checking => loaded[c] # Gone

SlotsInv == TypeOK /\ LoadedEntry /\ SlotHasUser

\* What the ledger's two operations keep of its type.
LEMMA LedgerType ==
  ASSUME TypeOK, NEW s \in SUBSET Devices, Keep(s) \/ (\E d \in Devices : Register(s, d))
  PROVE  slots' \subseteq Devices /\ age' \in [Devices -> 0..Expiry + 1]
<1>1. 0 \in 0..Expiry + 1
  BY SlotsAssumption
<1>2. CASE Keep(s)
  BY <1>1, <1>2 DEF Keep, TypeOK
<1>3. CASE \E d \in Devices : Register(s, d)
  BY <1>1, <1>3 DEF Register, TypeOK
<1>. QED BY <1>2, <1>3

\* A connection that is closed or let pass is not under way any more.
LEMMA ConnsType ==
  ASSUME TypeOK, LoadedEntry, NEW c \in Conns,
         CloseConn(c) \/ Pass(c, "admitted") \/ Pass(c, "on"),
         version' = version, limit' = limit
  PROVE  /\ pc' \in [Conns -> PC] /\ ver' \in [Conns -> Nat \cup {Gone}]
         /\ loaded' \in [Conns -> Nat \cup {Gone}]
         /\ grant' \in [Conns -> {"unasked", "refused", NoSlot} \cup Devices]
         /\ LoadedEntry'
<1>1. CASE CloseConn(c)
  BY <1>1 DEF CloseConn, TypeOK, LoadedEntry, PC, Checking
<1>2. CASE Pass(c, "admitted") \/ Pass(c, "on")
  BY <1>2 DEF Pass, TypeOK, LoadedEntry, PC, Checking
<1>. QED BY <1>1, <1>2

\* Before anybody connects.
LEMMA SlotsInit == Init => SlotsInv
BY SlotsAssumption DEF Init, SlotsInv, TypeOK, LoadedEntry, SlotHasUser, PC, Checking, Gone

\* Every step of a connection, of the panel's list and of the clock.
LEMMA SlotsStep == SlotsInv /\ [Next]_vars => SlotsInv'
<1>. SUFFICES ASSUME SlotsInv, [Next]_vars PROVE SlotsInv'
  OBVIOUS
<1>. USE SlotsAssumption
<1>. TypeOK /\ LoadedEntry /\ SlotHasUser
  BY DEF SlotsInv
<1>0. Fresh \subseteq slots /\ Fresh \in SUBSET Devices /\ slots \in SUBSET Devices
  BY DEF Fresh, TypeOK
<1>1. ASSUME NEW c \in Conns, Connect(c) PROVE SlotsInv'
  BY <1>1 DEF Connect, SlotsInv, TypeOK, LoadedEntry, SlotHasUser, PC, Checking, ledger, list
<1>2. ASSUME NEW c \in Conns, Admit(c) PROVE SlotsInv'
  <2>0. DeviceOf[c] \in Devices
    OBVIOUS
  <2>1. CASE AdmitRevoked(c)
    BY <2>1, ConnsType DEF AdmitRevoked, SlotsInv, TypeOK, SlotHasUser, ledger, list
  <2>2. CASE AdmitKnown(c) \/ AdmitIntoRoom(c) \/ AdmitByKick(c)
    <3>1. PICK s \in SUBSET slots : Register(s, DeviceOf[c])
      BY <1>0, <2>2 DEF AdmitKnown, AdmitIntoRoom, AdmitByKick
    <3>2. /\ UNCHANGED list /\ held' = held /\ kicks' \subseteq Devices
          /\ Pass(c, "admitted") /\ Authorized(c) /\ pc[c] = "admit"
      BY <1>0, <2>2 DEF AdmitKnown, AdmitIntoRoom, AdmitByKick, Evicted, TypeOK
    <3>3. version[DeviceOf[c]] # Gone
      BY <3>2 DEF Authorized, LoadedEntry, Checking
    <3>4. s \in SUBSET Devices
      BY <1>0
    <3>. QED
      BY <2>0, <3>1, <3>2, <3>3, <3>4, LedgerType, ConnsType
      DEF SlotsInv, TypeOK, SlotHasUser, Register, list
  <2>3. CASE AdmitMustAsk(c)
    <3>1. slots' \subseteq Devices /\ age' \in [Devices -> 0..Expiry + 1]
      BY <1>0, <2>3, LedgerType DEF AdmitMustAsk
    <3>. QED BY <1>0, <2>3, <3>1
      DEF AdmitMustAsk, Keep, SlotsInv, TypeOK, LoadedEntry, SlotHasUser, PC, Checking, list
  <2>4. CASE AdmitRefused(c)
    <3>1. slots' \subseteq Devices /\ age' \in [Devices -> 0..Expiry + 1]
      BY <1>0, <2>4, LedgerType DEF AdmitRefused
    <3>. QED BY <1>0, <2>4, <3>1, ConnsType
      DEF AdmitRefused, Keep, SlotsInv, TypeOK, SlotHasUser, list
  <2>. QED BY <1>2, <2>1, <2>2, <2>3, <2>4 DEF Admit
<1>3. ASSUME NEW c \in Conns, Guard(c) PROVE SlotsInv'
  BY <1>3 DEF Guard, SlotsInv, TypeOK, LoadedEntry, SlotHasUser, PC, Checking, ledger, list
<1>4. ASSUME NEW c \in Conns, Hold(c) \/ NotGranted(c) PROVE SlotsInv'
  BY <1>4 DEF Hold, NotGranted, SlotsInv, TypeOK, LoadedEntry, SlotHasUser, PC, Checking, ledger, list
<1>5. ASSUME NEW c \in Conns, NEW t \in Devices \cup {NoSlot}, Granted(c, t) PROVE SlotsInv'
  BY <1>5 DEF Granted, SlotsInv, TypeOK, LoadedEntry, SlotHasUser, PC, Checking, ledger, list
<1>6. ASSUME NEW c \in Conns, Revoked(c) \/ RenewFails(c) \/ Disconnect(c) PROVE SlotsInv'
  BY <1>6, ConnsType DEF Revoked, RenewFails, Disconnect, SlotsInv, TypeOK, SlotHasUser, ledger, list
<1>7. ASSUME NEW c \in Conns, StartRenew(c) PROVE SlotsInv'
  BY <1>7 DEF StartRenew, SlotsInv, TypeOK, LoadedEntry, SlotHasUser, PC, Checking, ledger, list
<1>8. ASSUME NEW c \in Conns, LoadEntry(c) PROVE SlotsInv'
  <2>1. CASE version[DeviceOf[c]] = Gone
    BY <1>8, <2>1, ConnsType DEF LoadEntry, SlotsInv, TypeOK, SlotHasUser, ledger, list
  <2>2. CASE version[DeviceOf[c]] # Gone
    BY <1>8, <2>2 DEF LoadEntry, SlotsInv, TypeOK, LoadedEntry, SlotHasUser, PC, Checking, ledger, list
  <2>. QED BY <2>1, <2>2
<1>9. ASSUME NEW c \in Conns, Renew(c) PROVE SlotsInv'
  <2>1. version[DeviceOf[c]] # Gone /\ DeviceOf[c] \in Devices
    BY <1>9 DEF Renew, Authorized, LoadedEntry, Checking
  <2>2. slots' \subseteq Devices /\ age' \in [Devices -> 0..Expiry + 1]
    BY <1>0, <1>9, <2>1, LedgerType DEF Renew
  <2>. QED BY <1>9, <2>1, <2>2, ConnsType DEF Renew, Register, SlotsInv, TypeOK, SlotHasUser, list
<1>10. ASSUME NEW c \in Conns, Downlink(c) PROVE SlotsInv'
  <2>1. CASE Verified(DeviceOf[c])
    BY <1>10, <2>1 DEF Downlink, SlotsInv, TypeOK, LoadedEntry, SlotHasUser, ledger, list, conns
  <2>2. CASE ~Verified(DeviceOf[c])
    BY <1>10, <2>2, ConnsType DEF Downlink, SlotsInv, TypeOK, SlotHasUser, ledger, list
  <2>. QED BY <2>1, <2>2
<1>11. ASSUME NEW d \in Devices, NEW v \in Entries[d], SyncUser(d, v) PROVE SlotsInv'
  <2>1. v \in Nat \cup {Gone}
    OBVIOUS
  <2>2. slots' \subseteq Devices /\ age' \in [Devices -> 0..Expiry + 1]
    BY <1>0, <1>11, LedgerType DEF SyncUser, TypeOK, ledger
  <2>3. SlotHasUser'
    BY <1>0, <1>11 DEF SyncUser, Keep, SlotHasUser, TypeOK, ledger
  <2>. QED BY <1>11, <2>1, <2>2, <2>3 DEF SyncUser, SlotsInv, TypeOK, LoadedEntry, conns
<1>12. ASSUME NEW n \in Limits, SyncLimit(n) PROVE SlotsInv'
  BY <1>12 DEF SyncLimit, SlotsInv, TypeOK, LoadedEntry, SlotHasUser, ledger, conns
<1>13. CASE Sweep
  <2>1. slots' \subseteq Devices /\ age' \in [Devices -> 0..Expiry + 1]
    BY <1>0, <1>13, LedgerType DEF Sweep
  <2>. QED BY <1>0, <1>13, <2>1 DEF Sweep, Keep, SlotsInv, TypeOK, LoadedEntry, SlotHasUser, list, conns
<1>14. CASE ReportKicks
  BY <1>14 DEF ReportKicks, SlotsInv, TypeOK, LoadedEntry, SlotHasUser, ledger, list, conns
<1>15. CASE Tick
  <2>1. age' \in [Devices -> 0..Expiry + 1]
    BY <1>15 DEF Tick, TypeOK, IsFresh
  <2>. QED BY <1>15, <2>1 DEF Tick, SlotsInv, TypeOK, LoadedEntry, SlotHasUser, list, conns
<1>16. CASE UNCHANGED vars
  BY <1>16 DEF vars, ledger, list, conns, SlotsInv, TypeOK, LoadedEntry, SlotHasUser
<1>. QED
  BY <1>1, <1>2, <1>3, <1>4, <1>5, <1>6, <1>7, <1>8, <1>9, <1>10, <1>11, <1>12,
     <1>13, <1>14, <1>15, <1>16 DEF Next

\* The inductive invariant of the limiter's ledger (admitSlot, EnsureOnline,
\* UpdateInboundLimiter).
THEOREM SlotsInvariant == Spec => []SlotsInv
BY SlotsInit, SlotsStep, PTL DEF Spec

\* Every variable of the ledger and of its connections keeps its type.
THEOREM SlotsTypes == Spec => []TypeOK
<1>1. SlotsInv => TypeOK
  BY DEF SlotsInv
<1>. QED BY <1>1, SlotsInvariant, PTL

\* A device the panel does not list has no slot, whatever admission or renewal
\* was under way when it was removed (admitSlot judges under the lock).
THEOREM OnlyListedHold == Spec => []SlotHasUser
<1>1. SlotsInv => SlotHasUser
  BY DEF SlotsInv
<1>. QED BY <1>1, SlotsInvariant, PTL

-----------------------------------------------------------------------------
(* Who gets a slot and who loses one                                         *)

\* The six things a step does to the ledger.
KeepsLedger == slots' = slots /\ (age' = age \/ Tick)
DropsSilent == Keep(Fresh)
DropsListed == \E d \in Devices : Keep(slots \ {d}) /\ version'[d] # version[d]
Renews(d)   == d \in slots /\ Register(slots, d)
TakesRoom(d) ==
  /\ limit = 0 \/ Cardinality(Fresh) < limit
  /\ Register(Fresh, d) \/ Register(slots, d)
Evicts(d) ==
  /\ d \notin slots /\ limit > 0
  /\ \E gone \in SUBSET Fresh :
       /\ Cardinality(Fresh \ gone) = limit - 1
       /\ Register(Fresh \ gone, d)
       /\ kicks' = kicks \cup gone

LEMMA LedgerSteps ==
  ASSUME SlotsInv, IsFiniteSet(slots), [Next]_vars
  PROVE  \/ KeepsLedger \/ DropsSilent \/ DropsListed
         \/ \E d \in Devices : Renews(d) \/ TakesRoom(d) \/ Evicts(d)
<1>. TypeOK /\ SlotsAssumption
  BY SlotsAssumption DEF SlotsInv
<1>. USE DEF ledger
<1>1. ASSUME NEW c \in Conns, Admit(c)
      PROVE  \/ KeepsLedger \/ DropsSilent
             \/ \E d \in Devices : Renews(d) \/ TakesRoom(d) \/ Evicts(d)
  <2>0. DeviceOf[c] \in Devices
    BY DEF SlotsAssumption
  <2>1. CASE AdmitRevoked(c)
    BY <2>1 DEF AdmitRevoked, KeepsLedger
  <2>2. CASE AdmitKnown(c)
    BY <2>0, <2>2 DEF AdmitKnown, Renews
  <2>3. CASE AdmitIntoRoom(c)
    <3>1. limit = 0 \/ Cardinality(Fresh) < limit
      <4>1. Cardinality(Fresh) \in Nat
        <5>1. Fresh \in SUBSET slots
          BY DEF Fresh
        <5>. QED BY <5>1, FS_Subset, FS_CardinalityType
      <4>2. limit \in Nat /\ ~Full(Fresh)
        BY <2>3 DEF TypeOK, SlotsAssumption, AdmitIntoRoom
      <4>. QED BY <4>1, <4>2 DEF Full
    <3>. QED BY <2>0, <2>3, <3>1 DEF AdmitIntoRoom, TakesRoom
  <2>4. CASE AdmitMustAsk(c) \/ AdmitRefused(c)
    BY <2>4 DEF AdmitMustAsk, AdmitRefused, DropsSilent
  <2>5. CASE AdmitByKick(c)
    BY <2>0, <2>5 DEF AdmitByKick, Evicts, Evicted, Full
  <2>. QED BY <1>1, <2>1, <2>2, <2>3, <2>4, <2>5 DEF Admit
<1>2. ASSUME NEW c \in Conns, Renew(c)
      PROVE  \E d \in Devices : Renews(d) \/ TakesRoom(d)
  BY <1>2 DEF Renew, Renews, TakesRoom, Verified, Fresh, SlotsAssumption
<1>3. ASSUME NEW c \in Conns,
             \/ Connect(c) \/ Guard(c) \/ Hold(c) \/ NotGranted(c)
             \/ (\E target \in Devices \cup {NoSlot} : Granted(c, target))
             \/ Revoked(c) \/ StartRenew(c) \/ LoadEntry(c) \/ RenewFails(c)
             \/ Downlink(c) \/ Disconnect(c)
      PROVE  KeepsLedger
  BY <1>3 DEF Connect, Guard, Hold, NotGranted, Granted, Revoked, StartRenew, LoadEntry,
              RenewFails, Downlink, Disconnect, KeepsLedger
<1>4. ASSUME NEW d \in Devices, NEW v \in Entries[d], SyncUser(d, v)
      PROVE  KeepsLedger \/ DropsListed
  BY <1>4 DEF SyncUser, KeepsLedger, DropsListed, TypeOK
<1>5. ASSUME (\E n \in Limits : SyncLimit(n)) \/ ReportKicks \/ Tick \/ UNCHANGED vars
      PROVE  KeepsLedger
  BY <1>5 DEF SyncLimit, ReportKicks, Tick, vars, KeepsLedger
<1>6. Sweep => DropsSilent
  BY DEF Sweep, DropsSilent
<1>. QED BY <1>1, <1>2, <1>3, <1>4, <1>5, <1>6 DEF Next

\* Only finitely many devices ever had a slot.
LEMMA FiniteStep ==
  ASSUME SlotsInv, [Next]_vars, IsFiniteSet(slots)
  PROVE  IsFiniteSet(slots')
<1>1. Fresh \subseteq slots
  BY DEF Fresh
<1>2. \E d : slots' \subseteq slots \cup {d}
  BY <1>1, LedgerSteps
  DEF KeepsLedger, DropsSilent, DropsListed, Renews, TakesRoom, Evicts, Keep, Register
<1>. QED BY <1>2, FS_AddElement, FS_Subset

\* A device that enters the ledger is judged by the fresh slots: what is left of
\* them and the device itself.
LEMMA FreshAfter ==
  ASSUME TypeOK, NEW s \in SUBSET slots, NEW d \in Devices, Register(s, d)
  PROVE  Fresh' = (Fresh \cap s) \cup {d}
BY SlotsAssumption DEF TypeOK, Fresh, IsFresh, Register

LEMMA FitsStep ==
  ASSUME SlotsInv, IsFiniteSet(slots), [Next]_vars,
         limit > 0, slots' \ slots # {}
  PROVE  Cardinality(Fresh') <= limit
<1>. TypeOK /\ limit \in Nat
  BY SlotsAssumption DEF SlotsInv, TypeOK
<1>1. Fresh \subseteq slots /\ IsFiniteSet(Fresh) /\ Cardinality(Fresh) \in Nat
  BY FS_Subset, FS_CardinalityType DEF Fresh
<1>2. ~ (KeepsLedger \/ DropsSilent \/ DropsListed)
  BY <1>1 DEF KeepsLedger, DropsSilent, DropsListed, Keep
<1>3. PICK d \in Devices : Renews(d) \/ TakesRoom(d) \/ Evicts(d)
  BY <1>2, LedgerSteps
<1>4. ~ Renews(d)
  BY DEF Renews, Register
<1>5. CASE TakesRoom(d)
  <2>1. Cardinality(Fresh) < limit
    BY <1>5 DEF TakesRoom
  <2>2. Fresh' = Fresh \cup {d}
    BY <1>1, <1>5, FreshAfter DEF TakesRoom
  <2>3. Cardinality(Fresh \cup {d}) =
          IF d \in Fresh THEN Cardinality(Fresh) ELSE Cardinality(Fresh) + 1
    BY <1>1, FS_AddElement
  <2>. QED BY <1>1, <2>1, <2>2, <2>3
<1>6. CASE Evicts(d)
  <2>1. PICK gone \in SUBSET Fresh :
          Cardinality(Fresh \ gone) = limit - 1 /\ Register(Fresh \ gone, d)
    BY <1>6 DEF Evicts
  <2>2. Fresh' = (Fresh \ gone) \cup {d}
    BY <1>1, <2>1, FreshAfter
  <2>3. IsFiniteSet(Fresh \ gone)
    BY <1>1, FS_Subset
  <2>4. Cardinality((Fresh \ gone) \cup {d}) =
          IF d \in Fresh \ gone THEN Cardinality(Fresh \ gone)
                               ELSE Cardinality(Fresh \ gone) + 1
    BY <2>3, FS_AddElement
  <2>. QED BY <2>1, <2>2, <2>4
<1>. QED BY <1>3, <1>4, <1>5, <1>6

LEMMA KickStep ==
  ASSUME SlotsInv, IsFiniteSet(slots), [Next]_vars,
         NEW d \in Fresh, d \notin slots', version'[d] = version[d]
  PROVE  d \in kicks' /\ Cardinality(Fresh') = limit
<1>. TypeOK /\ limit \in Nat
  BY SlotsAssumption DEF SlotsInv, TypeOK
<1>1. Fresh \subseteq slots /\ IsFiniteSet(Fresh) /\ d \in slots
  BY FS_Subset DEF Fresh
<1>2. ~ (KeepsLedger \/ DropsSilent \/ DropsListed)
  BY <1>1 DEF KeepsLedger, DropsSilent, DropsListed, Keep
<1>3. PICK e \in Devices : Renews(e) \/ TakesRoom(e) \/ Evicts(e)
  BY <1>2, LedgerSteps
<1>4. ~ (Renews(e) \/ TakesRoom(e))
  BY <1>1 DEF Renews, TakesRoom, Register
<1>5. PICK gone \in SUBSET Fresh :
        /\ Cardinality(Fresh \ gone) = limit - 1
        /\ Register(Fresh \ gone, e)
        /\ kicks' = kicks \cup gone
  BY <1>3, <1>4 DEF Evicts
<1>6. e \notin slots
  BY <1>3, <1>4 DEF Evicts
<1>7. d \in gone
  BY <1>5 DEF Register
<1>8. Fresh' = (Fresh \ gone) \cup {e} /\ e \notin Fresh
  BY <1>1, <1>5, <1>6, FreshAfter
<1>9. IsFiniteSet(Fresh \ gone)
  BY <1>1, FS_Subset
<1>10. Cardinality((Fresh \ gone) \cup {e}) = Cardinality(Fresh \ gone) + 1
  BY <1>8, <1>9, FS_AddElement
<1>. QED BY <1>5, <1>7, <1>8, <1>10

LEMMA SlotsFinite == Spec => []IsFiniteSet(slots)
<1>1. Init => IsFiniteSet(slots)
  BY FS_EmptySet DEF Init
<1>2. SlotsInv /\ IsFiniteSet(slots) /\ [Next]_vars => IsFiniteSet(slots)'
  BY FiniteStep
<1>. QED BY <1>1, <1>2, SlotsInvariant, PTL DEF Spec

\* A device that gets a slot fits, however many were admitted, removed or
\* expired while the panel was asked (admitSlot, VerifyOnline).
THEOREM NewSlotsFit == Spec => NewSlotFits
<1>1. SlotsInv /\ IsFiniteSet(slots) /\ [Next]_vars =>
        [limit > 0 /\ slots' \ slots # {} => Cardinality(Fresh') <= limit]_vars
  BY FitsStep
<1>. QED BY <1>1, SlotsInvariant, SlotsFinite, PTL DEF Spec, NewSlotFits

\* A device that is online is pushed out only for another one of a full account,
\* and the kick is noted for the panel (evictOnlineSlot).
THEOREM KicksMakeRoom == Spec => KickedOnlyForRoom
<1>1. SlotsInv /\ IsFiniteSet(slots) /\ [Next]_vars =>
        [ \A d \in Fresh :
            d \notin slots' /\ version'[d] = version[d]
              => d \in kicks' /\ Cardinality(Fresh') = limit ]_vars
  BY KickStep
<1>. QED BY <1>1, SlotsInvariant, SlotsFinite, PTL DEF Spec, KickedOnlyForRoom

===============================================================================
