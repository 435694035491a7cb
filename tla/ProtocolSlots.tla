---------------------------- MODULE ProtocolSlots ----------------------------
(***************************************************************************)
(* The device limit as the anytls, tuic and hysteria2 services keep it     *)
(* (service/*/traffic.go, anytls and tuic hook.go, hysteria2 auth.go and   *)
(* eventlogger.go, on common/limiter/device_online.go).  Unlike the        *)
(* limiter of DeviceSlots they keep one ledger per credential, and the     *)
(* official devices of an account share one: the maps are references, so   *)
(* an admission that waits for the panel may hold a ledger that a sync of  *)
(* the user list has replaced.  An anytls or tuic stream leaves its slot   *)
(* to expire; a hysteria2 session gives it back, and is closed through a   *)
(* mark that its next traffic event finds.                                 *)
(*                                                                         *)
(* One account.  onlineSlots and slotLastActive are changed together, so a *)
(* ledger is one function.  Whether the global limit is in force, and what *)
(* it answers, is open here (GlobalDevices has it); so is the panel's      *)
(* answer to a device that wants the place of another.  Who is kicked is   *)
(* noted for the panel as in DeviceSlots.  Left out: traffic and speed     *)
(* limits, the addresses reported for a device, ValidUntil, and two        *)
(* goroutines of one connection inside these checks at once.               *)
(***************************************************************************)
EXTENDS Integers, FiniteSets

CONSTANTS
  Kinds,     \* services modelled: "anytls" (tuic is the same), "hysteria2"
  Creds,     \* credentials of the account
  DeviceOf,  \* DeviceOf[k]: the official device of credential k, if it is one's
  Conns,     \* connections, one of each at a time
  CredOf,    \* CredOf[c]: the credential of connection c
  HostOf,    \* HostOf[c]: its address
  Lists,     \* lists the panel gives: KickVersion of each credential, or Gone
  Limits,    \* device limits it gives
  Expiry,    \* ticks of silence a slot outlives (OnlineSlotExpiry)
  MaxLive,   \* bound on connections at a time
  Books      \* identities of ledgers

Gone   == -1    \* the credential is not listed
Absent == -1    \* a slot without entry
NoBook == 0
Nobody == "nobody" \* a confirmation that names no device to kick

Official == DOMAIN DeviceOf
Devices  == {DeviceOf[k] : k \in Official}
Slots    == Devices \cup {HostOf[c] : c \in {d \in Conns : CredOf[d] \notin Official}}

ASSUME ProtocolAssumption ==
  /\ Kinds \subseteq {"anytls", "hysteria2"}
  /\ IsFiniteSet(Creds) /\ IsFiniteSet(Conns)
  /\ Official \subseteq Creds /\ CredOf \in [Conns -> Creds]
  /\ Lists \subseteq [Creds -> Nat \cup {Gone}]
  /\ Limits \subseteq Nat /\ Expiry \in Nat \ {0} /\ MaxLive \in Nat
  /\ Books \subseteq Nat \ {NoBook} /\ IsFiniteSet(Books)
  /\ Cardinality(Books) > Cardinality(Creds) + Cardinality(Conns)

\* Keys of devices have a prefix no address has (clientKeyPrefix).
ASSUME HostsAreNoDevices ==
  \A c \in Conns : CredOf[c] \notin Official => HostOf[c] \notin Devices

VARIABLES
  kind,
  users,     \* the KickVersion each credential is listed with, or Gone
  limit,     \* DeviceLimit of the account, 0 for none
  enforcing, \* the global limit is in force (globalChecker.Enforcing)
  book,      \* book[k]: the ledger of credential k, or NoBook
  ledger,    \* ledger[b][s]: ticks since slot s was active, Expiry + 1 for more
  at,        \* where a connection is
  seen,      \* the KickVersion its admission started from
  ver,       \* the KickVersion its counter or its connection id carries
  held,      \* the ledger its admission holds while the panel is asked
  marking,   \* connections a goroutine is about to mark (guardOnline)
  blocked    \* blockedIDs

list  == <<users, limit, enforcing>>
books == <<book, ledger, held>>
conns == <<at, seen, ver>>
marks == <<marking, blocked>>
vars  == <<kind, list, books, conns, marks>>

At == {"out", "routed", "checking", "asking", "denied", "open", "rechecking",
       "guarding", "closing"}
Ages == {Absent} \cup 0..Expiry + 1

TypeOK ==
  /\ kind \in Kinds
  /\ users \in [Creds -> Nat \cup {Gone}]
  /\ limit \in Limits /\ enforcing \in BOOLEAN
  /\ book \in [Creds -> Books \cup {NoBook}]
  /\ ledger \in [Books -> [Slots -> Ages]]
  /\ at \in [Conns -> At]
  /\ seen \in [Conns -> Nat \cup {Gone}] /\ ver \in [Conns -> Nat \cup {Gone}]
  /\ held \in [Conns -> Books \cup {NoBook}]
  /\ marking \subseteq Conns /\ blocked \subseteq Conns

Empty == [s \in Slots |-> Absent]

\* Before the first list.
Init ==
  /\ kind \in Kinds
  /\ users = [k \in Creds |-> Gone]
  /\ limit \in Limits /\ enforcing \in BOOLEAN
  /\ book = [k \in Creds |-> NoBook]
  /\ ledger = [b \in Books |-> Empty]
  /\ at = [c \in Conns |-> "out"]
  /\ seen = [c \in Conns |-> Gone] /\ ver = [c \in Conns |-> Gone]
  /\ held = [c \in Conns |-> NoBook]
  /\ marking = {} /\ blocked = {}

-----------------------------------------------------------------------------
(* Ledgers *)

OnlineKey(k, host) == IF k \in Official THEN DeviceOf[k] ELSE host
Slot(c) == OnlineKey(CredOf[c], HostOf[c])

Online(e) == {s \in Slots : e[s] # Absent}
Fresh(e)  == {s \in Slots : e[s] \in 0..Expiry}
Without(e, gone) == [s \in Slots |-> IF s \in gone THEN Absent ELSE e[s]]

\* PurgeStaleDeviceSlots
Purged(e) == Without(e, Slots \ Fresh(e))

Used(bk, hd) == {bk[k] : k \in Creds} \cup {hd[c] : c \in Conns}
NewBook == CHOOSE b \in Books : b \notin Used(book, held)

\* A map nobody refers to any more is garbage.
SetBooks(bk, hd, lg) ==
  /\ book' = bk /\ held' = hd
  /\ ledger' = [b \in Books |-> IF b \in Used(bk, hd) THEN lg[b] ELSE Empty]

\* The ledger a check of c reads, none being the same as an empty one.
Entries(c) == IF book[CredOf[c]] = NoBook THEN Empty ELSE ledger[book[CredOf[c]]]

\* With the global limit in force the local one is off.
LocalLimit == IF enforcing THEN 0 ELSE limit

\* Mutant of HasRoom: counts the devices there are, not the one to come.
HasRoomForLast(n, e) == n = 0 \/ Cardinality(Fresh(e)) <= n
HasRoom(n, e) == n = 0 \/ Cardinality(Fresh(e)) < n

\* VerifyDeviceSlot
Verified(c) == limit = 0 \/ Slot(c) \in Fresh(Entries(c)) \/ HasRoom(limit, Entries(c))

-----------------------------------------------------------------------------
(* The user list *)

\* Mutant of SharedBook: every credential has a ledger of its own.
OwnBook(L, k) == IF book[k] # NoBook THEN book[k] ELSE NewBook

\* ReconcileDeviceSlots and ShareAccountSlots: the ledger of a listed device of
\* the account that has one already, or a new one.
SharedBook(L, k) ==
  LET known == {m \in Official : L[m] # Gone /\ book[m] # NoBook}
  IN  IF known = {} THEN NewBook ELSE book[CHOOSE m \in known : TRUE]

\* Devices that leave the ledger of k: not listed any more, or kicked.
Dropped(L, k) ==
  {d \in Devices : \A m \in Official : DeviceOf[m] = d => L[m] = Gone} \cup
  {DeviceOf[m] : m \in {n \in Official : /\ L[n] # Gone /\ users[n] \notin {Gone, L[n]}
                                        /\ book[n] = book[k]}}

SyncUsers(L, n) ==
  /\ \A k \in Creds : L[k] = Gone \/ L[k] >= users[k]
  /\ users' = L /\ limit' = n
  /\ SetBooks([k \in Creds |-> IF L[k] = Gone THEN NoBook
                               ELSE IF k \in Official THEN SharedBook(L, k)
                               ELSE book[k]],
              held,
              [b \in Books |-> IF \E k \in Creds : book[k] = b
                               THEN Without(ledger[b], Dropped(L, CHOOSE k \in Creds : book[k] = b))
                               ELSE ledger[b]])
  /\ UNCHANGED <<kind, enforcing, conns, marks>>

\* Redis fails or is back.
SwitchEnforcing ==
  /\ enforcing' = ~enforcing
  /\ UNCHANGED <<kind, users, limit, books, conns, marks>>

-----------------------------------------------------------------------------
(* allowConnection, Authenticate *)

Move(c, there) ==
  /\ at' = [at EXCEPT ![c] = there]
  /\ UNCHANGED <<seen, ver>>

CanArrive(c) ==
  /\ at[c] = "out" /\ c \notin marking
  /\ Cardinality({d \in Conns : at[d] # "out"}) < MaxLive
  /\ users[CredOf[c]] # Gone

Leave(c) ==
  /\ at' = [at EXCEPT ![c] = "out"]
  /\ seen' = [seen EXCEPT ![c] = Gone]
  /\ ver' = [ver EXCEPT ![c] = Gone]

\* RoutedConnection reads the record its counter will carry; an audit hit would
\* refuse the connection here.
Route(c) ==
  /\ kind = "anytls" /\ CanArrive(c)
  /\ at' = [at EXCEPT ![c] = "routed"]
  /\ ver' = [ver EXCEPT ![c] = users[CredOf[c]]]
  /\ UNCHANGED <<kind, list, books, seen, marks>>

\* The admission reads it anew.
Begin(c) ==
  /\ IF kind = "anytls" THEN at[c] = "routed" /\ users[CredOf[c]] # Gone ELSE CanArrive(c)
  /\ at' = [at EXCEPT ![c] = "checking"]
  /\ seen' = [seen EXCEPT ![c] = users[CredOf[c]]]
  /\ ver' = [ver EXCEPT ![c] = IF kind = "anytls" THEN ver[c] ELSE users[CredOf[c]]]
  /\ UNCHANGED <<kind, list, books, marks>>

BeginUnknown(c) ==
  /\ at[c] = "routed"
  /\ users[CredOf[c]] = Gone
  /\ Leave(c)
  /\ UNCHANGED <<kind, list, books, marks>>

\* Mutant of Authorized: the list is not read again under the lock.
AuthorizedOnce(c) == seen[c] # Gone
\* slot(..., version)
Authorized(c) == users[CredOf[c]] = seen[c]

\* releaseOnline: the slot goes only for a connection of the current version.
ReleaseSlot(c, v) ==
  IF users[CredOf[c]] = v /\ book[CredOf[c]] # NoBook
  THEN /\ ledger' = [ledger EXCEPT ![book[CredOf[c]]][Slot(c)] = Absent]
       /\ UNCHANGED <<book, held>>
  ELSE UNCHANGED books

\* CheckCurrent, which also asks Redis again when the break is over.
GloballyRefused(c) ==
  /\ at[c] = "checking"
  /\ ReleaseSlot(c, seen[c])
  /\ Leave(c)
  /\ UNCHANGED <<kind, list, marks>>

\* The connection is in; the other maps keep what they have.
Enter(c, bk, b, e) ==
  /\ SetBooks(bk, [held EXCEPT ![c] = NoBook],
              [ledger EXCEPT ![b] = [e EXCEPT ![Slot(c)] = 0]])
  /\ at' = [at EXCEPT ![c] = "open"]
  /\ seen' = [seen EXCEPT ![c] = Gone]
  /\ UNCHANGED ver

\* AdmitDeviceSlot finds the device online, or room.
Fits(c, e) == Slot(c) \in Online(e) \/ HasRoom(LocalLimit, e)

AdmitRevoked(c) ==
  /\ at[c] \in {"checking", "asking", "denied"}
  /\ ~Authorized(c)
  /\ SetBooks(book, [held EXCEPT ![c] = NoBook], ledger)
  /\ Leave(c)
  /\ UNCHANGED <<kind, list, marks>>

\* PanelReclaim never asks for a third party, and connections of one device ask
\* once (ReclaimGrant): the others are denied.
MayAsk(c) ==
  /\ CredOf[c] \in Official
  /\ \A d \in Conns : at[d] = "asking" => Slot(d) # Slot(c)

\* The first round, in the ledger of the credential, made if there is none.
Admit(c) ==
  LET b  == IF book[CredOf[c]] = NoBook THEN NewBook ELSE book[CredOf[c]]
      bk == [book EXCEPT ![CredOf[c]] = b]
      e  == Purged(ledger[b])
  IN  /\ at[c] = "checking" /\ Authorized(c)
      /\ \/ Fits(c, e) /\ Enter(c, bk, b, e)
         \/ /\ ~Fits(c, e)
            /\ SetBooks(bk, [held EXCEPT ![c] = b], [ledger EXCEPT ![b] = e])
            /\ Move(c, IF MayAsk(c) THEN "asking" ELSE "denied")
      /\ UNCHANGED <<kind, list, marks>>

\* Sets EvictDeviceSlot may remove one after another, the target first and then
\* the longest silent, until one more fits.
Evicted(e, target) ==
  LET chosen == {target} \cap Online(e)
  IN  {gone \in SUBSET Online(e) :
         /\ Cardinality(Online(e) \ gone) = LocalLimit - 1
         /\ chosen \subseteq gone
         /\ \A s \in gone \ chosen, o \in Online(e) \ gone : e[s] >= e[o]}

\* The second round, in the ledger the first one used: the panel agreed.
AdmitGranted(c, target) ==
  LET e == Purged(ledger[held[c]])
  IN  /\ at[c] = "asking" /\ Authorized(c)
      /\ \/ Fits(c, e) /\ Enter(c, book, held[c], e)
         \/ /\ ~Fits(c, e)
            /\ \E gone \in Evicted(e, target) :
                 Enter(c, book, held[c], Without(e, gone))
      /\ UNCHANGED <<kind, list, marks>>

\* The panel did not agree or was not asked: only room that came up helps.
AdmitDenied(c) ==
  LET e == Purged(ledger[held[c]])
  IN  /\ at[c] \in {"asking", "denied"} /\ Authorized(c)
      /\ \/ Fits(c, e) /\ Enter(c, book, held[c], e)
         \/ /\ ~Fits(c, e)
            /\ SetBooks(book, [held EXCEPT ![c] = NoBook], [ledger EXCEPT ![held[c]] = e])
            /\ Leave(c)
      /\ UNCHANGED <<kind, list, marks>>

-----------------------------------------------------------------------------
(* Data of an open connection *)

\* The service or the client ends it; hysteria2 is told by Disconnect.
Cut(c) == IF kind = "hysteria2" THEN Move(c, "closing") ELSE Leave(c)

\* EnsureDeviceSlot registers or renews the slot; CheckCurrent follows, without
\* the lock.
Ensured(c, recheck) ==
  LET k == CredOf[c]
      b == IF book[k] = NoBook THEN NewBook ELSE book[k]
      e == Entries(c)
  IN  /\ users[k] = ver[c]
      /\ \/ e[Slot(c)] = 0 /\ UNCHANGED <<books, conns>>
         \/ /\ e[Slot(c)] # 0
            /\ Slot(c) \in Fresh(e) \/ HasRoom(LocalLimit, e)
            /\ SetBooks([book EXCEPT ![k] = b], held, [ledger EXCEPT ![b] = [e EXCEPT ![Slot(c)] = 0]])
            /\ Move(c, recheck)

NotEnsured(c) ==
  \/ users[CredOf[c]] # ver[c]
  \/ Slot(c) \notin Fresh(Entries(c)) /\ ~HasRoom(LocalLimit, Entries(c))

\* LogTraffic finds a mark and takes it.
Marked(c) ==
  /\ at[c] = "open" /\ c \in blocked
  /\ blocked' = blocked \ {c}
  /\ Cut(c)
  /\ UNCHANGED <<kind, list, books, marking>>

\* ensureOnline
Uplink(c) ==
  /\ at[c] = "open" /\ c \notin blocked
  /\ \/ Ensured(c, "rechecking")
     \/ NotEnsured(c) /\ Cut(c) /\ UNCHANGED books
  /\ UNCHANGED <<kind, list, marks>>

\* verifyOnline changes nothing; the global limit answers if it is in force.
Downlink(c) ==
  /\ at[c] = "open" /\ c \notin blocked
  /\ \/ users[CredOf[c]] = ver[c] /\ (enforcing \/ Verified(c)) /\ UNCHANGED conns
     \/ (users[CredOf[c]] # ver[c] \/ enforcing \/ ~Verified(c)) /\ Cut(c)
  /\ UNCHANGED <<kind, list, books, marks>>

\* CheckCurrent after a renewal: a slot taken on another node is given back.
\* Before and after a break of Redis, too, it may be asked and refuse.
Recheck(c) ==
  /\ at[c] = "rechecking"
  /\ \/ Move(c, "open") /\ UNCHANGED books
     \/ ReleaseSlot(c, ver[c]) /\ Cut(c)
  /\ UNCHANGED <<kind, list, marks>>

\* The client or the network ends it.
Hangup(c) ==
  /\ at[c] = "open"
  /\ Cut(c)
  /\ UNCHANGED <<kind, list, books, marks>>

-----------------------------------------------------------------------------
(* hysteria2: guardOnline, marks and Disconnect *)

\* TCPRequest, UDPRequest
Request(c) ==
  /\ kind = "hysteria2" /\ at[c] = "open" /\ c \notin marking
  /\ \/ Ensured(c, "guarding") /\ UNCHANGED marking
     \/ NotEnsured(c) /\ marking' = marking \cup {c} /\ UNCHANGED <<books, conns>>
  /\ UNCHANGED <<kind, list, blocked>>

Guard(c) ==
  /\ at[c] = "guarding"
  /\ Move(c, "open")
  /\ \/ UNCHANGED <<books, marking>>
     \/ ReleaseSlot(c, ver[c]) /\ marking' = marking \cup {c}
  /\ UNCHANGED <<kind, list, blocked>>

\* The mark is set in a second critical section; the connection may have ended.
Mark(c) ==
  /\ c \in marking
  /\ marking' = marking \ {c}
  /\ blocked' = IF at[c] = "out" THEN blocked ELSE blocked \cup {c}
  /\ UNCHANGED <<kind, list, books, conns>>

\* An audit rule hit, or too many UDP sessions (trackUDPSession).
Reject(c) ==
  /\ kind = "hysteria2" /\ at[c] = "open" /\ c \notin blocked
  /\ blocked' = blocked \cup {c}
  /\ UNCHANGED <<kind, list, books, conns, marking>>

Disconnect(c) ==
  /\ at[c] = "closing"
  /\ ReleaseSlot(c, ver[c])
  /\ blocked' = blocked \ {c}
  /\ Leave(c)
  /\ UNCHANGED <<kind, list, marking>>

-----------------------------------------------------------------------------
(* The report cycle and the clock *)

\* Mutant of Swept: a slot is reported offline and stays in the ledger.
SweptFromReport(e) == e
Swept(e) == Purged(e)

\* collectUsage sweeps the ledgers of the credentials; TakeDeviceKicks
Report ==
  /\ ledger' = [b \in Books |-> IF \E k \in Creds : book[k] = b THEN Swept(ledger[b]) ELSE ledger[b]]
  /\ UNCHANGED <<kind, list, book, held, conns, marks>>

Tick ==
  /\ ledger' = [b \in Books |-> [s \in Slots |->
       IF ledger[b][s] \in 0..Expiry THEN ledger[b][s] + 1 ELSE ledger[b][s]]]
  /\ UNCHANGED <<kind, list, book, held, conns, marks>>

Admission(c) ==
  \/ Route(c) \/ Begin(c) \/ BeginUnknown(c) \/ GloballyRefused(c) \/ AdmitRevoked(c)
  \/ Admit(c) \/ AdmitDenied(c) \/ \E target \in Slots \cup {Nobody} : AdmitGranted(c, target)

Data(c) ==
  \/ Marked(c) \/ Uplink(c) \/ Downlink(c) \/ Recheck(c) \/ Hangup(c)
  \/ Request(c) \/ Guard(c) \/ Mark(c) \/ Reject(c) \/ Disconnect(c)

Next ==
  \/ \E c \in Conns : Admission(c) \/ Data(c)
  \/ \E L \in Lists, n \in Limits : SyncUsers(L, n)
  \/ SwitchEnforcing \/ Report \/ Tick

\* Time passes and the report cycle runs for ever.
Spec == Init /\ [][Next]_vars /\ WF_vars(Tick) /\ WF_vars(Report)

-----------------------------------------------------------------------------
(* The official devices of the account are counted in one ledger, whatever
   credentials come, go and change, and whichever of them first went online:
   with two ledgers the account would have its limit twice (ShareAccountSlots). *)
OneLedger ==
  \A k, m \in Official :
    users[k] # Gone /\ users[m] # Gone => book[k] = book[m] /\ book[k] # NoBook

(* A slot in the account's ledger belongs to a device the panel lists: neither
   an admission that waited for the panel in a ledger of its own, nor a renewal
   or a session that ends, brings back a device that was removed. *)
HoldersListed ==
  \A k \in Official : users[k] # Gone =>
    \A d \in Devices : ledger[book[k]][d] # Absent =>
      \E m \in Official : DeviceOf[m] = d /\ users[m] # Gone

(* While the local limit is in force, a slot that is taken or taken up again
   fits: whatever expired, was kicked, given back or registered while the panel
   was asked, the ledger then holds no more fresh slots than the limit. *)
SlotsFit ==
  [][ \A b \in Books :
        ~enforcing /\ limit > 0 /\ Fresh(ledger'[b]) \ Fresh(ledger[b]) # {}
          => Cardinality(Fresh(ledger'[b])) <= limit ]_vars

(* A slot whose device went silent is freed, whatever is still sent to it. *)
SendsUplink(s) ==
  \E c \in Conns : Slot(c) = s /\ (Admission(c) \/ Uplink(c) \/ Request(c))

SilentIsFreed ==
  \A s \in Slots :
    []<>(\A k \in Creds : book[k] # NoBook => ledger[book[k]][s] = Absent)
      \/ []<><<SendsUplink(s)>>_vars
=============================================================================
