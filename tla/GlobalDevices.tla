--------------------------- MODULE GlobalDevices ---------------------------
(***************************************************************************)
(* The device limit shared by the nodes of one panel through Redis         *)
(* (common/limiter/global.go), for the official devices of one account.    *)
(* Every Lua script is one atomic step on the record redis; between two    *)
(* scripts of one check, and between the upload of a new user list and its *)
(* use, other nodes, the panel and the clock may act.  A call to Redis may *)
(* fail at any of these points (MaxFaults of them).                        *)
(*                                                                         *)
(* Simplifications.  A list of users has a number, its place in history.   *)
(* One check of a node is in flight at a time.  One Tick is onlineTouchSec *)
(* (10 s), which is also the break after a failure and the life of the     *)
(* verified cache.  Deadlines of devices (ValidUntil) and the clock offset *)
(* are left out, so kick records are never cleaned up; so are the limit of *)
(* a lease, on which the scripts fall back for a node that has a lease but *)
(* no uploaded policy, and third-party addresses, which no script can      *)
(* evict.  An expired lease is dropped at the Tick, as every script sweeps *)
(* before it counts.  Connections are followed for the pairs of node and   *)
(* device in Watched; the checks of all pairs are modelled.  An entry of   *)
(* the verified cache for another version or limit than the list's is as   *)
(* good as none and is not kept.  A check is entered again when the limit  *)
(* moved under it; that a moved policy of the same limit has this effect   *)
(* too is left to the client's next attempt.                               *)
(***************************************************************************)
EXTENDS Integers, Sequences, FiniteSetsExt

CONSTANTS
  Nodes,      \* the nodes that share the Redis; a node is its own scope
  Devices,    \* the official devices of the account
  Watched,    \* the pairs of node and device whose connection is followed
  Limits,     \* the device limits the panel may give the account
  Expiry,     \* ticks a lease outlives its last renewal
  MaxEdits,   \* bound on changes the panel makes to the account
  MaxFaults   \* bound on calls to Redis that fail

ASSUME FiniteSystem == IsFiniteSet(Nodes) /\ IsFiniteSet(Devices)
ASSUME LimitsArePositive == Limits \subseteq Nat \ {0}
ASSUME WatchedArePairs == Watched \subseteq Nodes \X Devices
ASSUME BoundsAreNat == Expiry \in Nat /\ MaxEdits \in Nat

VARIABLES
  history,  \* the user lists of the panel, oldest first
  redis,    \* kick: version in force, v: version of the entry,
            \* lease: age of each node's lease, policy: limit per node
  users,    \* users[n]: number of the list the services of n work with
  fetched,  \* fetched[n]: number of the list uploaded but not installed, or 0
  pending,  \* pending[n]: number of the list Redis has not got, 0 if none
  known,    \* known[n][d]: version of a device seen in a list, not dropped
  link,     \* link[n]: "up", "cooling" after a failure, "retry" after the break
  check,    \* check[n]: the check in flight
  verified, \* the pairs the verified cache of the node remembers
  conn,     \* conn[<<n, d>>]: kick version of the connection, NoConn if none
  faults    \* calls to Redis that failed so far

vars == <<history, redis, users, fetched, pending, known, link,
          check, verified, conn, faults>>
nodeVars == <<users, fetched, pending, known>>

Versions == 0 .. MaxEdits
Revoked == MaxEdits + 1        \* beyond every version
NoConn == -1
NoLease == Expiry + 1
NoPolicy == 0
Idle == [pc |-> "idle"]
Unknown == -1

List(n) == history[users[n]]
Listed(l) == IF l.account THEN l.devices ELSE {}

\* The kick version and the limit of a connection are still those of the list.
Authorized(n, d, version) ==
  d \in Listed(List(n)) /\ List(n).version[d] = version

\* Every node has started with the first list; Redis may have missed it.
Init ==
  /\ history \in {<<[account |-> TRUE, devices |-> Devices, limit |-> l,
                     version |-> [d \in Devices |-> 0]]>> : l \in Limits}
  /\ users = [n \in Nodes |-> 1]
  /\ fetched = [n \in Nodes |-> 0]
  /\ pending \in [Nodes -> {0, 1}]
  /\ known = [n \in Nodes |-> [d \in Devices |-> 0]]
  /\ link = [n \in Nodes |-> IF pending[n] = 0 THEN "up" ELSE "cooling"]
  /\ redis = [kick |-> [d \in Devices |-> 0], v |-> [d \in Devices |-> 0],
              lease |-> [d \in Devices |-> [n \in Nodes |-> NoLease]],
              policy |-> [d \in Devices |-> [n \in Nodes |->
                 IF pending[n] = 0 THEN history[1].limit ELSE NoPolicy]]]
  /\ check = [n \in Nodes |-> Idle]
  /\ verified = {}
  /\ conn = [w \in Watched |-> NoConn]
  /\ faults = 0

----------------------------------------------------------------------------
(* The scripts: what they do to the record and what they answer.           *)

Live(r) == {d \in Devices : \E n \in Nodes : r.lease[d][n] <= Expiry}

NoLeases == [n \in Nodes |-> NoLease]

\* kickPrelude: the version in force never falls; a newer one drops the entry.
InForce(r, d) ==
  IF d \in Live(r) THEN Max({r.kick[d], r.v[d]}) ELSE r.kick[d]
\* Mutant of Obeys: the answer of kickPrelude is not looked at.
ObeysAnyway(r, d, version) == TRUE
Obeys(r, d, version) == version >= InForce(r, d)
WithKick(r, d, version) ==
  [r EXCEPT !.kick[d] = Max({version, InForce(r, d)}),
            !.lease[d] = IF version > InForce(r, d) THEN NoLeases ELSE @]

\* syncKickScript for one device the node still lists.
SyncListed(r, n, d, l) ==
  LET k == WithKick(r, d, l.version[d])
  IN  IF Obeys(r, d, l.version[d])
      THEN [k EXCEPT !.policy[d][n] = l.limit] ELSE k

\* syncKickScript for one device the node no longer lists: its lease goes, and
\* if the account is still there the device is revoked for every node.
SyncDropped(r, n, d, l) ==
  LET k == WithKick(r, d, IF l.account THEN Revoked ELSE known[n][d])
  IN  [k EXCEPT !.lease[d][n] = NoLease, !.policy[d][n] = NoPolicy]

SyncDevice(r, n, d, l) ==
  IF d \in Listed(l) THEN SyncListed(r, n, d, l)
  ELSE IF known[n][d] # Unknown THEN SyncDropped(r, n, d, l)
  ELSE r

\* One run of the script for every device of the list and every dropped one.
Synced(r, n, l) ==
  [kick   |-> [d \in Devices |-> SyncDevice(r, n, d, l).kick[d]],
   v      |-> r.v,
   lease  |-> [d \in Devices |-> SyncDevice(r, n, d, l).lease[d]],
   policy |-> [d \in Devices |-> SyncDevice(r, n, d, l).policy[d]]]

\* onlineLimit: the caller's limit, raised to the one uploaded last.
OnlineLimit(r, n, d, limit) ==
  Max({limit, r.policy[d][n]})

Touched(r, n, d, version) ==
  [r EXCEPT !.v[d] = version, !.lease[d][n] = 0]

Full(r, n, d, limit) ==
  d \notin Live(r) /\ Cardinality(Live(r)) >= OnlineLimit(r, n, d, limit)

\* Mutants of Victims: one slot too few; a slot although there is room.
VictimsTooFew(r, d, limit) ==
  IF d \in Live(r) \/ Cardinality(Live(r)) < limit THEN {{}}
  ELSE kSubset(Cardinality(Live(r)) - limit, Live(r))
VictimsUncounted(r, d, limit) ==
  IF d \in Live(r) \/ Live(r) = {} THEN {{}} ELSE {{x} : x \in Live(r)}
\* The slots evictScript takes: the one the user chose, then the oldest.  Which
\* these are is left open, how many is not.
Victims(r, d, limit) ==
  IF d \in Live(r) \/ Cardinality(Live(r)) < limit THEN {{}}
  ELSE kSubset(Cardinality(Live(r)) - limit + 1, Live(r))

Evicted(r, set) ==
  [r EXCEPT !.lease = [d \in Devices |-> IF d \in set THEN NoLeases ELSE @[d]]]

----------------------------------------------------------------------------
(* Failures of Redis.                                                      *)

\* noteResult: a failed call starts the break, a good one ends it.
Up(n) == link' = [link EXCEPT ![n] = "up"]
CallFails(n) ==
  /\ faults < MaxFaults
  /\ faults' = faults + 1
  /\ link' = [link EXCEPT ![n] = "cooling"]

Enforcing(n) == link[n] = "up"

\* syncPending: nothing is asked of Redis during the break or before the list
\* it missed is uploaded.
MayAsk(n) == link[n] # "cooling" /\ pending[n] = 0

----------------------------------------------------------------------------
(* New user lists.                                                         *)

Latest == history[Len(history)]
Edit(l) ==
  /\ Len(history) <= MaxEdits
  /\ l # Latest
  /\ history' = Append(history, l)
  /\ UNCHANGED <<redis, nodeVars, link, check, verified, conn, faults>>

Kick(d) == d \in Latest.devices /\ Edit([Latest EXCEPT !.version[d] = @ + 1])
Revoke(d) == Edit([Latest EXCEPT !.devices = @ \ {d}])
SetLimit(l) == Edit([Latest EXCEPT !.limit = l])
\* The account leaves the list, or comes back, with its devices.
Suspend == Edit([Latest EXCEPT !.account = ~@])

\* syncUsers: the known devices grow before the upload; those dropped from an
\* account that is still listed are forgotten after it.
Upload(n, i) ==
  LET l == history[i]
      all == [d \in Devices |->
                IF d \in Listed(l) THEN l.version[d] ELSE known[n][d]]
  IN  \/ /\ redis' = Synced(redis, n, l)
         /\ pending' = [pending EXCEPT ![n] = 0]
         /\ known' = [known EXCEPT ![n] = [d \in Devices |->
              IF l.account /\ d \notin l.devices THEN Unknown ELSE all[d]]]
         /\ Up(n)
         /\ UNCHANGED faults
      \/ /\ CallFails(n)
         /\ pending' = [pending EXCEPT ![n] = i]
         /\ known' = [known EXCEPT ![n] = all]
         /\ UNCHANGED redis

\* userMonitor gets the list in every period, changed or not, and uploads it.
SyncUsers(n) ==
  /\ fetched[n] = 0
  /\ Upload(n, Len(history))
  /\ fetched' = [fetched EXCEPT ![n] = Len(history)]
  /\ UNCHANGED <<history, users, check, verified, conn>>

\* Only then does the service replace its own list.
InstallUsers(n) ==
  /\ fetched[n] # 0
  /\ users' = [users EXCEPT ![n] = fetched[n]]
  /\ verified' = {w \in verified : w[1] = n =>
       /\ history[fetched[n]].limit = List(n).limit
       /\ history[fetched[n]].version[w[2]] = List(n).version[w[2]]}
  /\ fetched' = [fetched EXCEPT ![n] = 0]
  /\ UNCHANGED <<history, redis, pending, known, link, check, conn, faults>>

\* syncPending: the first check after the break uploads the list Redis missed.
SyncPending(n) ==
  /\ pending[n] # 0 /\ link[n] # "cooling"
  /\ Upload(n, pending[n])
  /\ UNCHANGED <<history, users, fetched, check, verified, conn>>

----------------------------------------------------------------------------
(* check: admission (reclaim) and renewal.                                 *)

\* The caller reads its list (current), so the version asked for is the list's.
Begin(n, d, reclaim) ==
  /\ check[n] = Idle
  /\ d \in Listed(List(n))
  /\ check' = [check EXCEPT ![n] =
       [pc |-> "admit", device |-> d, version |-> List(n).version[d],
        limit |-> List(n).limit, new |-> reclaim, reclaim |-> reclaim,
        granted |-> FALSE]]
  /\ verified' = IF MayAsk(n) THEN verified \ {<<n, d>>} ELSE verified
  /\ UNCHANGED <<history, redis, nodeVars, link, conn, faults>>

\* The deferred check of current() decides last; a renewal that is refused
\* closes its connection, an admission leaves those of the device alone.
End(n, allowed) ==
  LET c == check[n]
      ok == allowed /\ Authorized(n, c.device, c.version)
  IN  /\ check' = [check EXCEPT ![n] = Idle]
      /\ conn' = [w \in Watched |->
           IF w # <<n, c.device>> THEN conn[w]
           ELSE IF ~c.new THEN IF conn[w] = c.version /\ ~ok THEN NoConn ELSE conn[w]
           ELSE IF ok THEN c.version ELSE conn[w]]
Allow(n) == End(n, TRUE)
Refuse(n) == End(n, FALSE)

LimitIsLatest(n) == check[n].limit = List(n).limit

\* An unauthorized answer or a refused eviction is not final when the limit
\* moved meanwhile: check is entered again with the latest one.
MayRetry(n) ==
  Authorized(n, check[n].device, check[n].version) /\ ~LimitIsLatest(n)
Retry(n, reclaim) ==
  /\ check' = [check EXCEPT ![n].pc = "admit", ![n].limit = List(n).limit,
                            ![n].reclaim = reclaim]
  /\ UNCHANGED conn
RefuseOrRetry(n, reclaim) ==
  \/ ~MayRetry(n) /\ Refuse(n)
  \/ MayRetry(n) /\ Retry(n, reclaim)

\* During the break, or when a list is pending, the node's own ledger decides.
AllowLocally(n) ==
  /\ check[n].pc = "admit" /\ ~MayAsk(n)
  /\ Allow(n)
  /\ UNCHANGED <<history, redis, nodeVars, link, verified, faults>>

\* A call that fails is an answer too: the node's own ledger decides.
AllowOnError(n) ==
  /\ check[n].pc = "evict" \/ (check[n].pc = "admit" /\ link[n] # "cooling")
  /\ CallFails(n)
  /\ Allow(n)
  /\ UNCHANGED <<history, redis, nodeVars, verified>>

\* The script found no room.
FindsFull(n) ==
  LET c == check[n]
      ok == Authorized(n, c.device, c.version)
  IN  \/ ~ok /\ Refuse(n)
      \/ ok /\ ~LimitIsLatest(n) /\ Retry(n, c.reclaim)
      \/ ok /\ LimitIsLatest(n) /\ ~c.reclaim /\ Refuse(n)
      \/ /\ ok /\ LimitIsLatest(n) /\ c.reclaim
         /\ check' = [check EXCEPT ![n].pc = IF c.granted THEN "evict" ELSE "ask"]
         /\ UNCHANGED conn

Admit(n) ==
  LET c == check[n]
      d == c.device
      k == WithKick(redis, d, c.version)
  IN  /\ c.pc = "admit" /\ MayAsk(n)
      /\ Up(n)
      /\ \/ /\ ~Obeys(redis, d, c.version)
            /\ redis' = k
            /\ RefuseOrRetry(n, c.reclaim)
         \/ /\ Obeys(redis, d, c.version) /\ ~Full(k, n, d, c.limit)
            /\ redis' = Touched(k, n, d, c.version)
            /\ Allow(n)
         \/ /\ Obeys(redis, d, c.version) /\ Full(k, n, d, c.limit)
            /\ redis' = k
            /\ FindsFull(n)
      /\ UNCHANGED <<history, nodeVars, verified, faults>>

\* The panel is asked over HTTP whether the user confirmed the device.
Ask(n) ==
  /\ check[n].pc = "ask"
  /\ IF Authorized(n, check[n].device, check[n].version)
     THEN /\ \E granted \in BOOLEAN :
               check' = [check EXCEPT ![n].pc = "evict", ![n].granted = granted,
                                      ![n].limit = List(n).limit]
          /\ UNCHANGED conn
     ELSE Refuse(n)
  /\ UNCHANGED <<history, redis, nodeVars, link, verified, faults>>

\* evictScript counts again: what was full may have room, and the other way.  It
\* is run during a break that another call has begun meanwhile, too.
MayEvict(r, n, c) ==
  /\ Obeys(r, c.device, c.version)
  /\ r.policy[c.device][n] \in {NoPolicy, c.limit}
  /\ {} \in Victims(r, c.device, c.limit) \/ c.granted

Evict(n) ==
  LET c == check[n]
      k == WithKick(redis, c.device, c.version)
  IN  /\ c.pc = "evict"
      /\ Up(n)
      /\ \/ /\ MayEvict(k, n, c)
            /\ \E out \in Victims(k, c.device, c.limit) :
                 /\ redis' = Touched(Evicted(k, out), n, c.device, c.version)
                 /\ verified' = verified \ ({n} \X out)
            /\ Allow(n)
         \/ /\ ~MayEvict(k, n, c)
            /\ redis' = k
            /\ RefuseOrRetry(n, c.granted)
            /\ UNCHANGED verified
      /\ UNCHANGED <<history, nodeVars, faults>>

----------------------------------------------------------------------------
(* Verify: downlink, read-only, remembered for ten seconds.                *)

Close(w) == conn' = [conn EXCEPT ![w] = NoConn]
Asks(w) ==
  /\ conn[w] # NoConn /\ Authorized(w[1], w[2], conn[w])
  /\ MayAsk(w[1]) /\ Enforcing(w[1]) /\ w \notin verified

VerifyFails(w) ==
  /\ Asks(w)
  /\ CallFails(w[1])
  /\ UNCHANGED <<history, redis, nodeVars, check, verified, conn>>

Verify(w) ==
  LET k == WithKick(redis, w[2], conn[w])
  IN  /\ Asks(w)
      /\ redis' = k
      /\ IF /\ Obeys(redis, w[2], conn[w])
            /\ ~Full(k, w[1], w[2], List(w[1]).limit)
         THEN verified' = verified \cup {w} /\ UNCHANGED conn
         ELSE Close(w) /\ UNCHANGED verified
      /\ UNCHANGED <<history, nodeVars, link, check, faults>>

\* By the client, or by the service whose list no longer authorizes it.
Disconnect(w) ==
  /\ conn[w] # NoConn
  /\ Close(w)
  /\ UNCHANGED <<history, redis, nodeVars, link, check, verified, faults>>

\* Ten seconds pass: leases age, the caches lapse, breaks end.
\* Mutants of Remembered and Older: a cache without an end; a lease that never
\* leaves the ledger.
RememberedForever == verified
Remembered == {}
OlderUnswept(age) == age + 1
Older(age) == IF age >= Expiry THEN NoLease ELSE age + 1
Tick ==
  /\ redis' = [redis EXCEPT !.lease =
       [d \in Devices |-> [n \in Nodes |-> Older(redis.lease[d][n])]]]
  /\ verified' = Remembered
  /\ link' = [n \in Nodes |-> IF link[n] = "cooling" THEN "retry" ELSE link[n]]
  /\ UNCHANGED <<history, nodeVars, check, conn, faults>>

Step(n) ==
  \/ SyncUsers(n) \/ InstallUsers(n) \/ SyncPending(n)
  \/ \E d \in Devices, reclaim \in BOOLEAN : Begin(n, d, reclaim)
  \/ AllowLocally(n) \/ AllowOnError(n) \/ Admit(n) \/ Ask(n) \/ Evict(n)

Next ==
  \/ \E n \in Nodes : Step(n)
  \/ \E w \in Watched :
       VerifyFails(w) \/ Verify(w) \/ Disconnect(w)
  \/ \E d \in Devices : Kick(d) \/ Revoke(d)
  \/ \E l \in Limits : SetLimit(l)
  \/ Suspend
  \/ Tick

Spec == Init /\ [][Next]_vars

(* The clock runs; userMonitor syncs in every period, which is what ends the *)
(* state after a break on a node that admits nobody; a connection with      *)
(* traffic is verified again and again.  Nothing is assumed of the panel's  *)
(* answers, of new connections or of renewals.                              *)
Fairness ==
  /\ WF_vars(Tick)
  /\ \A n \in Nodes : WF_vars(SyncUsers(n)) /\ WF_vars(InstallUsers(n))
  /\ \A w \in Watched : WF_vars(SyncPending(w[1])) /\ WF_vars(Verify(w))
FairSpec == Spec /\ Fairness

----------------------------------------------------------------------------
(* Properties.                                                             *)

TypeOK ==
  /\ Len(history) \in 1 .. MaxEdits + 1
  /\ \A i \in 1 .. Len(history) :
       history[i] \in [account : BOOLEAN, devices : SUBSET Devices,
                      limit : Limits, version : [Devices -> Versions]]
  /\ redis \in [kick : [Devices -> Versions \cup {Revoked}],
                v : [Devices -> Versions],
                lease : [Devices -> [Nodes -> 0 .. NoLease]],
                policy : [Devices -> [Nodes -> Limits \cup {NoPolicy}]]]
  /\ \A n \in Nodes :
       /\ users[n] \in 1 .. Len(history)
       /\ fetched[n] \in 0 .. Len(history) /\ pending[n] \in 0 .. Len(history)
       /\ known[n] \in [Devices -> Versions \cup {Unknown}]
       /\ check[n] # Idle =>
            /\ check[n].pc \in {"admit", "ask", "evict"}
            /\ check[n].device \in Devices /\ check[n].version \in Versions
  /\ conn \in [Watched -> Versions \cup {NoConn}]
  /\ verified \subseteq Watched

\* The list a node has told Redis about, unless that is pending.
Told(n) == history[IF fetched[n] # 0 THEN fetched[n] ELSE users[n]]

\* Once a node has put a kick or a removal in force, no node can hold or take
\* a slot under the older version, not even one that was cut off from Redis or
\* still works with an older list (kickPrelude, syncKickScript).  A list without
\* the account says nothing of its devices.
KickedStaysOut ==
  \A n \in Nodes, d \in Live(redis) :
    pending[n] = 0 /\ Told(n).account =>
      /\ d \in Told(n).devices
      /\ redis.v[d] >= Told(n).version[d]

\* A slot is taken only within the limit some node still has a reason to use:
\* one of the lists not older than the oldest in use.  Checks that found the
\* ledger full, waited for the panel and then evict count again, so two nodes
\* never put two devices into one place (admitScript, evictScript).
InUse ==
  UNION {{users[n]} \cup ({pending[n]} \ {0}) : n \in Nodes}
LimitsInUse ==
  {history[i].limit : i \in Min(InUse) .. Len(history)} \cup
  {check[n].limit : n \in {m \in Nodes : check[m] # Idle}}
TakesWithinLimit ==
  [][\A d \in Devices :
       d \notin Live(redis) /\ d \in Live(redis)' =>
         Cardinality(Live(redis)') <= Max(LimitsInUse)]_vars

\* A device that is neither kicked, removed, suspended nor expired loses its
\* slot only to
\* one that had none, that the panel granted the place, and only when the
\* ledger has no room at that moment: the answer "full" an earlier script gave
\* is not enough.
EvictsOnlyForRoom ==
  [][\A d \in Live(redis) \ Live(redis)' :
       \/ redis'.kick[d] > redis.kick[d]
       \/ \A n \in Nodes : redis.lease[d][n] \in {NoLease, Expiry}
       \/ \E n \in Nodes : redis.lease[d][n] # NoLease /\ redis'.policy[d][n] = NoPolicy
       \/ \E n \in Nodes :
            /\ check[n] # Idle /\ check[n].granted
            /\ check[n].device \notin Live(redis)
            /\ Cardinality(Live(redis)) >= check[n].limit]_vars

\* A connection whose device lost its slot in a full ledger is closed in the
\* end, on whatever node it is: the verified cache and the break after a
\* failure delay that but do not prevent it.
Ousted(w) ==
  /\ conn[w] # NoConn /\ w[2] \notin Live(redis)
  /\ Cardinality(Live(redis)) >= Max(Limits)
OustedIsClosed == \A w \in Watched : Ousted(w) ~> ~Ousted(w)
=============================================================================
