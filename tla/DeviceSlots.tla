------------------------------ MODULE DeviceSlots ------------------------------
(***************************************************************************)
(* The device limit of one account on one node: the ledger of online slots *)
(* kept by the limiter (src/common/limiter/limiter.go).  Every connection  *)
(* of a device passes admitSlot; later its uplink data renews the slot     *)
(* (EnsureOnline) and its downlink data only checks it (VerifyOnline).  A  *)
(* full account lets another device in only if the panel confirms it,      *)
(* which is asked over HTTP with the lock released.  Meanwhile slots       *)
(* expire, the panel's user list changes, and the report cycle sweeps the  *)
(* ledger and reports the devices that were kicked.                        *)
(*                                                                         *)
(* The module has the slots of the official devices, which own a user      *)
(* entry each; the slots of third-party clients (their addresses) are kept *)
(* in the same way and the panel never confirms them.  The limit across    *)
(* nodes (GlobalDeviceChecker) is off, as without Redis in the config.     *)
(* A step is the code between two points where another goroutine can run:  *)
(* slotMu, the panel call, a load of the user entry.                       *)
(***************************************************************************)
EXTENDS Integers, FiniteSets

CONSTANTS
  Devices,     \* official devices of the account
  Conns,       \* connections
  DeviceOf,    \* DeviceOf[c]: the device of connection c
  Limits,      \* device limits the panel sets
  Expiry,      \* ticks of silence a slot outlives (OnlineSlotExpiry, 60 s)
  Entries      \* Entries[d]: KickVersions the panel lists d with, or Gone

Gone   == -1       \* no user entry
NoSlot == "none"   \* a confirmation that names no device to kick

ASSUME SlotsAssumption ==
  /\ DeviceOf \in [Conns -> Devices]
  /\ Limits \subseteq Nat /\ Limits # {}
  /\ Expiry \in Nat
  /\ Entries \in [Devices -> SUBSET (Nat \cup {Gone})]
  /\ \A d \in Devices : 0 \in Entries[d]

VARIABLES
  slots,   \* UserOnlineSlots: devices with an entry
  age,     \* ticks since an entry's LastSeen, Expiry + 1 for any more
  version, \* UserInfo: KickVersion of the device's entry, Gone without one
  limit,   \* DeviceLimit of the account
  kicks,   \* deviceKickBuffer: kicks not reported yet
  held,    \* reclaimer.held: devices the panel is not asked about
  pc,      \* where a connection is
  ver,     \* kickVersion of its guards, set once it is admitted
  loaded,  \* KickVersion its current check started from
  grant    \* what it got from the panel: "unasked", "refused", or a target

ledger == <<slots, age>>
list   == <<version, limit>>
conns  == <<pc, ver, loaded, grant>>
vars   == <<ledger, list, kicks, held, conns>>

PC == {"out", "admit", "ask", "asking", "admitted", "on", "checked", "renew"}

TypeOK ==
  /\ slots \subseteq Devices
  /\ age \in [Devices -> 0..Expiry + 1]
  /\ version \in [Devices -> Nat \cup {Gone}]
  /\ limit \in Limits
  /\ kicks \subseteq Devices
  /\ held \subseteq Devices
  /\ pc \in [Conns -> PC]
  /\ ver \in [Conns -> Nat \cup {Gone}]
  /\ loaded \in [Conns -> Nat \cup {Gone}]
  /\ grant \in [Conns -> {"unasked", "refused", NoSlot} \cup Devices]

Init ==
  /\ slots = {}
  /\ age = [d \in Devices |-> 0]
  /\ version = [d \in Devices |-> 0]
  /\ limit \in Limits
  /\ kicks = {}
  /\ held = {}
  /\ pc = [c \in Conns |-> "out"]
  /\ ver = [c \in Conns |-> Gone]
  /\ loaded = [c \in Conns |-> Gone]
  /\ grant = [c \in Conns |-> "unasked"]

-----------------------------------------------------------------------------
IsFresh(d) == age[d] <= Expiry
Fresh == {d \in slots : IsFresh(d)}

\* Entry of d renewed in the ledger s; entries that are gone have age 0.
Register(s, d) ==
  /\ slots' = s \cup {d}
  /\ age' = [e \in Devices |-> IF e = d \/ e \notin s THEN 0 ELSE age[e]]

Keep(s) ==
  /\ slots' = s
  /\ age' = [e \in Devices |-> IF e \notin s THEN 0 ELSE age[e]]

\* The connection leaves the limiter, or is refused.
CloseConn(c) ==
  /\ pc' = [pc EXCEPT ![c] = "out"]
  /\ ver' = [ver EXCEPT ![c] = Gone]
  /\ loaded' = [loaded EXCEPT ![c] = Gone]
  /\ grant' = [grant EXCEPT ![c] = "unasked"]

\* admitSlot or EnsureOnline has let it pass.
Pass(c, next) ==
  /\ pc' = [pc EXCEPT ![c] = next]
  /\ loaded' = [loaded EXCEPT ![c] = Gone]
  /\ grant' = [grant EXCEPT ![c] = "unasked"]
  /\ UNCHANGED ver

-----------------------------------------------------------------------------
(* GetUserBucket, admitSlot *)

\* The user entry is loaded before the lock is taken.
Connect(c) ==
  /\ pc[c] = "out"
  /\ version[DeviceOf[c]] # Gone
  /\ pc' = [pc EXCEPT ![c] = "admit"]
  /\ loaded' = [loaded EXCEPT ![c] = version[DeviceOf[c]]]
  /\ UNCHANGED <<ledger, list, kicks, held, ver, grant>>

\* Mutant of Authorized: the entry is not checked again under the lock.
AuthorizedOnce(c) == loaded[c] # Gone

\* currentDeviceLimit: the entry exists and has the version loaded before.
Authorized(c) == version[DeviceOf[c]] = loaded[c]

AdmitRevoked(c) ==
  /\ pc[c] = "admit"
  /\ ~Authorized(c)
  /\ CloseConn(c)
  /\ UNCHANGED <<ledger, list, kicks, held>>

\* A device that has an entry, fresh or not, renews it.
AdmitKnown(c) ==
  /\ pc[c] = "admit"
  /\ Authorized(c)
  /\ DeviceOf[c] \in slots
  /\ Register(slots, DeviceOf[c])
  /\ Pass(c, "admitted")
  /\ UNCHANGED <<list, kicks, held>>

Full(s) == limit > 0 /\ Cardinality(s) >= limit

AdmitIntoRoom(c) ==
  /\ pc[c] = "admit"
  /\ Authorized(c)
  /\ DeviceOf[c] \notin slots
  /\ ~Full(Fresh)
  /\ Register(Fresh, DeviceOf[c])
  /\ Pass(c, "admitted")
  /\ UNCHANGED <<list, kicks, held>>

\* Full, and the panel was not asked yet: ask it without the lock.
AdmitMustAsk(c) ==
  /\ pc[c] = "admit"
  /\ Authorized(c)
  /\ DeviceOf[c] \notin slots
  /\ Full(Fresh)
  /\ grant[c] = "unasked"
  /\ Keep(Fresh)
  /\ pc' = [pc EXCEPT ![c] = "ask"]
  /\ UNCHANGED <<list, kicks, held, ver, loaded, grant>>

AdmitRefused(c) ==
  /\ pc[c] = "admit"
  /\ Authorized(c)
  /\ DeviceOf[c] \notin slots
  /\ Full(Fresh)
  /\ grant[c] = "refused"
  /\ Keep(Fresh)
  /\ CloseConn(c)
  /\ UNCHANGED <<list, kicks, held>>

\* Mutant of Evicted: only the device the user chose leaves.
EvictedTarget(target) ==
  {{IF target \in Fresh THEN target ELSE CHOOSE d \in Fresh : \A e \in Fresh : age[d] >= age[e]}}

\* Sets of devices evictOnlineSlot may remove one after another, the target
\* first and then the oldest, until one more device fits.
Evicted(target) ==
  LET chosen == IF target \in Fresh THEN {target} ELSE {}
      others == Fresh \ chosen
  IN  {gone \in SUBSET Fresh :
         /\ Cardinality(Fresh \ gone) = limit - 1
         /\ chosen \subseteq gone
         /\ \A d \in gone \ chosen, e \in others \ gone : age[d] >= age[e]}

\* Mutant of AdmitByKick: of several devices only the chosen one is noted.
AdmitByKickNotesChosen(c) ==
  /\ pc[c] = "admit"
  /\ Authorized(c)
  /\ DeviceOf[c] \notin slots
  /\ Full(Fresh)
  /\ grant[c] \notin {"unasked", "refused"}
  /\ \E gone \in Evicted(grant[c]) :
       /\ Register(Fresh \ gone, DeviceOf[c])
       /\ kicks' = kicks \cup (gone \cap {grant[c]})
  /\ Pass(c, "admitted")
  /\ UNCHANGED <<list, held>>

AdmitByKick(c) ==
  /\ pc[c] = "admit"
  /\ Authorized(c)
  /\ DeviceOf[c] \notin slots
  /\ Full(Fresh)
  /\ grant[c] \notin {"unasked", "refused"}
  /\ \E gone \in Evicted(grant[c]) :
       /\ Register(Fresh \ gone, DeviceOf[c])
       /\ kicks' = kicks \cup gone
  /\ Pass(c, "admitted")
  /\ UNCHANGED <<list, held>>

Admit(c) ==
  \/ AdmitRevoked(c) \/ AdmitKnown(c) \/ AdmitIntoRoom(c)
  \/ AdmitMustAsk(c) \/ AdmitRefused(c) \/ AdmitByKick(c)

\* guardDataPath: the guards get the KickVersion of the entry as it is by now,
\* 0 without an entry.
Guard(c) ==
  /\ pc[c] = "admitted"
  /\ pc' = [pc EXCEPT ![c] = "on"]
  /\ ver' = [ver EXCEPT ![c] = IF version[DeviceOf[c]] = Gone THEN 0 ELSE version[DeviceOf[c]]]
  /\ UNCHANGED <<ledger, list, kicks, held, loaded, grant>>

-----------------------------------------------------------------------------
(* ConsumeReclaimGrant *)

\* Connections of one device ask the panel once; the others count as refused.
Hold(c) ==
  /\ pc[c] = "ask"
  /\ IF DeviceOf[c] \in held
     THEN /\ pc' = [pc EXCEPT ![c] = "admit"]
          /\ grant' = [grant EXCEPT ![c] = "refused"]
          /\ UNCHANGED held
     ELSE /\ pc' = [pc EXCEPT ![c] = "asking"]
          /\ held' = held \cup {DeviceOf[c]}
          /\ UNCHANGED grant
  /\ UNCHANGED <<ledger, list, kicks, ver, loaded>>

Granted(c, target) ==
  /\ pc[c] = "asking"
  /\ pc' = [pc EXCEPT ![c] = "admit"]
  /\ grant' = [grant EXCEPT ![c] = target]
  /\ held' = held \ {DeviceOf[c]}
  /\ UNCHANGED <<ledger, list, kicks, ver, loaded>>

\* Refused by the panel, or the call failed.
NotGranted(c) ==
  /\ pc[c] = "asking"
  /\ pc' = [pc EXCEPT ![c] = "admit"]
  /\ grant' = [grant EXCEPT ![c] = "refused"]
  /\ held' = held \cup {DeviceOf[c]}
  /\ UNCHANGED <<ledger, list, kicks, ver, loaded>>

-----------------------------------------------------------------------------
(* guardState.check on the data of an open connection *)

\* VerifyOnline: a fresh slot, or room for one.
Verified(d) ==
  \/ limit = 0
  \/ d \in Fresh
  \/ Cardinality(Fresh) < limit

Revoked(c) ==
  /\ pc[c] = "on"
  /\ version[DeviceOf[c]] # ver[c]
  /\ CloseConn(c)
  /\ UNCHANGED <<ledger, list, kicks, held>>

\* Uplink data: the guard checks its version ...
StartRenew(c) ==
  /\ pc[c] = "on"
  /\ version[DeviceOf[c]] = ver[c]
  /\ pc' = [pc EXCEPT ![c] = "checked"]
  /\ UNCHANGED <<ledger, list, kicks, held, ver, loaded, grant>>

\* ... EnsureOnline loads the entry anew ...
LoadEntry(c) ==
  /\ pc[c] = "checked"
  /\ IF version[DeviceOf[c]] = Gone
     THEN CloseConn(c)
     ELSE /\ pc' = [pc EXCEPT ![c] = "renew"]
          /\ loaded' = [loaded EXCEPT ![c] = version[DeviceOf[c]]]
          /\ UNCHANGED <<ver, grant>>
  /\ UNCHANGED <<ledger, list, kicks, held>>

\* ... and judges under the lock.
Renew(c) ==
  /\ pc[c] = "renew"
  /\ Authorized(c) /\ Verified(DeviceOf[c])
  /\ Register(slots, DeviceOf[c])
  /\ Pass(c, "on")
  /\ UNCHANGED <<list, kicks, held>>

RenewFails(c) ==
  /\ pc[c] = "renew"
  /\ ~Authorized(c) \/ ~Verified(DeviceOf[c])
  /\ CloseConn(c)
  /\ UNCHANGED <<ledger, list, kicks, held>>

\* Downlink data: VerifyOnline changes nothing.
Downlink(c) ==
  /\ pc[c] = "on"
  /\ version[DeviceOf[c]] = ver[c]
  /\ IF Verified(DeviceOf[c]) THEN UNCHANGED conns ELSE CloseConn(c)
  /\ UNCHANGED <<ledger, list, kicks, held>>

\* The connection ends by itself; its slot is left to expire.
Disconnect(c) ==
  /\ pc[c] = "on"
  /\ CloseConn(c)
  /\ UNCHANGED <<ledger, list, kicks, held>>

-----------------------------------------------------------------------------
(* The report cycle and the clock *)

\* UpdateInboundLimiter: the panel removes, adds or kicks a device.  A list with
\* several changes is several steps.  The entry keeps the larger version.
SyncUser(d, v) ==
  /\ v # version[d]
  /\ v > version[d] \/ v = Gone
  /\ version' = [version EXCEPT ![d] = v]
  /\ IF version[d] = Gone THEN UNCHANGED ledger ELSE Keep(slots \ {d})
  /\ UNCHANGED <<limit, kicks, held, conns>>

SyncLimit(n) ==
  /\ n # limit
  /\ limit' = n
  /\ UNCHANGED <<ledger, version, kicks, held, conns>>

\* GetOnlineDevice.
Sweep ==
  /\ Keep(Fresh)
  /\ UNCHANGED <<list, kicks, held, conns>>

\* TakeDeviceKicks.
ReportKicks ==
  /\ kicks' = {}
  /\ UNCHANGED <<ledger, list, held, conns>>

\* A tick is longer than reclaimRetryAfter, so every hold is over.
Tick ==
  /\ age' = [d \in Devices |-> IF d \in slots /\ IsFresh(d) THEN age[d] + 1 ELSE age[d]]
  /\ held' = {}
  /\ UNCHANGED <<slots, list, kicks, conns>>

-----------------------------------------------------------------------------
Next ==
  \/ \E c \in Conns :
       \/ Connect(c) \/ Admit(c) \/ Guard(c)
       \/ Hold(c) \/ NotGranted(c)
       \/ \E target \in Devices \cup {NoSlot} : Granted(c, target)
       \/ Revoked(c) \/ StartRenew(c) \/ LoadEntry(c) \/ Renew(c) \/ RenewFails(c)
       \/ Downlink(c) \/ Disconnect(c)
  \/ \E d \in Devices : \E v \in Entries[d] : SyncUser(d, v)
  \/ \E n \in Limits : SyncLimit(n)
  \/ Sweep
  \/ ReportKicks
  \/ Tick

Spec == Init /\ [][Next]_vars

-----------------------------------------------------------------------------
(* Only devices the panel lists have a slot: an admission that waited for the
   panel, or a renewal under way, does not bring back a device that was removed
   meanwhile. *)
SlotHasUser == \A d \in slots : version[d] # Gone

(* A device that gets a slot fits: fresh slots are then within the limit that
   holds at that moment, however many devices were admitted, removed or expired
   while the panel was asked. *)
NewSlotFits ==
  [][ limit > 0 /\ slots' \ slots # {} => Cardinality(Fresh') <= limit ]_vars

(* A device that is online is pushed out only if another takes its place in a
   full account, and the kick is noted for the panel; room that appeared while
   the panel was asked saves the device. *)
KickedOnlyForRoom ==
  [][ \A d \in Fresh :
        d \notin slots' /\ version'[d] = version[d]
          => d \in kicks' /\ Cardinality(Fresh') = limit ]_vars

(* What the comments of OnlineSlotExpiry and admitSlot say: a device without
   activity for longer than the expiry is offline and its slot is free, and a
   new slot is judged by what is left.  (admitSlot renews an expired entry that
   no sweep removed, without counting.) *)
FreshWithinLimit == limit > 0 => Cardinality(Fresh) <= limit

=============================================================================
