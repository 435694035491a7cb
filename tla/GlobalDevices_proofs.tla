------------------------ MODULE GlobalDevices_proofs ------------------------
(***************************************************************************)
(* For any number of nodes, devices, edits and failures of Redis: a kick   *)
(* or a removal that one node has put in force holds on every node, slots  *)
(* are taken only within a limit in use, and evicted only for room.        *)
(***************************************************************************)
EXTENDS GlobalDevices, FiniteSetTheorems, WellFoundedInduction, TLAPS

(* The record in Redis: a device that is online has the version in force. *)
RedisSet ==
  [kick : [Devices -> 0 .. Revoked], v : [Devices -> Versions],
   lease : [Devices -> [Nodes -> 0 .. NoLease]],
   policy : [Devices -> [Nodes -> Limits \cup {NoPolicy}]]]
GoodRedis(r) == r \in RedisSet /\ \A d \in Live(r) : r.v[d] >= r.kick[d]
KicksGrow(r, q) == \A d \in Devices : q.kick[d] >= r.kick[d]

(* Lists: versions grow, by one an edit, and devices that went stay away. *)
Lists ==
  [account : BOOLEAN, devices : SUBSET Devices, limit : Limits, version : [Devices -> Nat]]
HistoryOK ==
  /\ history \in Seq(Lists) /\ Len(history) \in 1 .. MaxEdits + 1
  /\ \A i \in 1 .. Len(history), d \in Devices : history[i].version[d] <= i - 1

(* The last list a node tried to upload, and what it knows and has put in force. *)
Current(n) == IF fetched[n] # 0 THEN fetched[n] ELSE users[n]
NodesOK ==
  /\ users \in [Nodes -> 1 .. Len(history)] /\ fetched \in [Nodes -> 0 .. Len(history)]
  /\ pending \in [Nodes -> 0 .. Len(history)]
  /\ known \in [Nodes -> [Devices -> Versions \cup {Unknown}]]
  /\ \A n \in Nodes : pending[n] \in {0, Current(n)}
Forgotten ==
  \A n \in Nodes, d \in Devices : known[n][d] = Unknown => redis.kick[d] = Revoked
InPlace ==
  \A n \in Nodes, d \in Devices :
    pending[n] = 0 /\ Told(n).account =>
      redis.kick[d] >= IF d \in Told(n).devices THEN Told(n).version[d] ELSE Revoked

(* What checks and connections carry. *)
Checks ==
  [pc : {"admit", "ask", "evict"}, device : Devices, version : Versions, limit : Limits,
   new : BOOLEAN, reclaim : BOOLEAN, granted : BOOLEAN]
CarriedOK ==
  /\ check \in [Nodes -> Checks \cup {Idle}]
  /\ conn \in [Watched -> Versions \cup {NoConn}]

ListsOK == HistoryOK /\ NodesOK
KickInv == ListsOK /\ GoodRedis(redis) /\ Forgotten /\ InPlace /\ CarriedOK

-----------------------------------------------------------------------------
(* The larger of two numbers. *)
LEMMA MaxOfTwo ==
  ASSUME NEW a \in Int, NEW b \in Int
  PROVE  Max({a, b}) = IF a >= b THEN a ELSE b
<1>1. CASE a >= b
  <2>1. \E x \in {a, b} : \A y \in {a, b} : x >= y
    BY <1>1
  <2> QED BY <1>1, <2>1 DEF Max
<1>2. CASE ~(a >= b)
  <2>1. \E x \in {a, b} : \A y \in {a, b} : x >= y
    BY <1>2
  <2> QED BY <1>2, <2>1 DEF Max
<1> QED BY <1>1, <1>2

(* The version in force is the entry's while the device is online. *)
LEMMA InForceFacts ==
  ASSUME NEW r, GoodRedis(r), NEW d \in Devices
  PROVE  InForce(r, d) = IF d \in Live(r) THEN r.v[d] ELSE r.kick[d]
<1>1. CASE d \in Live(r)
  <2>1. r.kick[d] \in Int /\ r.v[d] \in Int /\ r.v[d] >= r.kick[d]
    BY <1>1, BoundsAreNat DEF GoodRedis, RedisSet, Versions, Revoked
  <2>2. Max({r.kick[d], r.v[d]}) = r.v[d]
    BY <2>1, MaxOfTwo
  <2> QED BY <1>1, <2>2 DEF InForce
<1>2. CASE d \notin Live(r)
  BY <1>2 DEF InForce
<1> QED BY <1>1, <1>2

(* kickPrelude: kicks grow, and a device that stays online obeys them. *)
LEMMA WithKickFacts ==
  ASSUME NEW r, GoodRedis(r), NEW d \in Devices, NEW version \in 0 .. Revoked
  PROVE  /\ GoodRedis(WithKick(r, d, version))
         /\ KicksGrow(r, WithKick(r, d, version))
         /\ WithKick(r, d, version).kick[d] >= version
         /\ Obeys(r, d, version) => WithKick(r, d, version).kick[d] = version
<1> DEFINE k == WithKick(r, d, version)
           f == IF version >= InForce(r, d) THEN version ELSE InForce(r, d)
<1>1. /\ InForce(r, d) \in 0 .. Revoked
      /\ InForce(r, d) >= r.kick[d]
      /\ d \in Live(r) => InForce(r, d) = r.v[d]
  BY InForceFacts, BoundsAreNat DEF GoodRedis, RedisSet, Versions, Revoked
<1>2. Max({version, InForce(r, d)}) = f /\ f \in 0 .. Revoked
  BY <1>1, MaxOfTwo, BoundsAreNat DEF Revoked
<1>3. NoLeases \in [Nodes -> 0 .. NoLease]
  BY BoundsAreNat DEF NoLeases, NoLease
<1>4. r \in RedisSet
  BY DEF GoodRedis
<1>5. /\ k \in RedisSet /\ k.v = r.v
      /\ k.kick = [r.kick EXCEPT ![d] = f]
      /\ k.lease = [r.lease EXCEPT ![d] = IF version > InForce(r, d) THEN NoLeases ELSE @]
  <2> HIDE DEF f
  <2> QED BY <1>2, <1>3, <1>4 DEF RedisSet, WithKick
<1>6. \A x \in Live(k) : x \in Live(r) /\ k.v[x] >= k.kick[x]
  <2> SUFFICES ASSUME NEW x \in Devices, x \in Live(k) PROVE x \in Live(r) /\ k.v[x] >= k.kick[x]
    BY DEF Live
  <2>1. CASE x # d
    BY <1>4, <1>5, <2>1 DEF Live, GoodRedis, RedisSet
  <2>2. CASE x = d
    <3>1. ~(version > InForce(r, d))
      <4>1. SUFFICES ASSUME version > InForce(r, d) PROVE FALSE
        OBVIOUS
      <4>2. k.lease[d] = NoLeases
        BY <1>4, <1>5, <4>1 DEF RedisSet
      <4> QED BY <2>2, <4>2, BoundsAreNat DEF Live, NoLeases, NoLease
    <3>2. d \in Live(r)
      BY <1>4, <1>5, <2>2, <3>1 DEF Live, RedisSet
    <3> QED BY <1>1, <1>4, <1>5, <2>2, <3>1, <3>2, BoundsAreNat DEF RedisSet, Versions, Revoked
  <2> QED BY <2>1, <2>2
<1>7. KicksGrow(r, k)
  BY <1>1, <1>4, <1>5, BoundsAreNat DEF KicksGrow, RedisSet, Revoked
<1>8. k.kick[d] = f
  BY <1>4, <1>5 DEF RedisSet
<1> HIDE DEF k
<1>9. f >= version /\ (version >= InForce(r, d) => f = version)
  BY <1>1, BoundsAreNat DEF Revoked
<1> QED BY <1>5, <1>6, <1>7, <1>8, <1>9 DEF GoodRedis, Obeys, k

(* kickPrelude brings nobody online. *)
LEMMA WithKickLive ==
  ASSUME NEW r \in RedisSet, NEW d \in Devices, NEW version \in 0 .. Revoked
  PROVE  WithKick(r, d, version).v = r.v /\ Live(WithKick(r, d, version)) \subseteq Live(r)
<1> DEFINE k == WithKick(r, d, version)
<1>1. /\ k.v = r.v
      /\ k.lease = [r.lease EXCEPT ![d] = IF version > InForce(r, d) THEN NoLeases ELSE @]
  BY DEF WithKick, RedisSet
<1>2. \A n \in Nodes : ~(NoLeases[n] <= Expiry)
  BY BoundsAreNat DEF NoLeases, NoLease
<1> HIDE DEF k
<1>3. \A x \in Devices : k.lease[x] = r.lease[x] \/ k.lease[x] = NoLeases
  BY <1>1 DEF RedisSet
<1>4. Live(k) \subseteq Live(r)
  BY <1>2, <1>3 DEF Live
<1> QED BY <1>1, <1>4 DEF k

(* A slot is taken with a version that obeys. *)
LEMMA TouchedFacts ==
  ASSUME NEW r, GoodRedis(r), NEW n \in Nodes, NEW d \in Devices,
         NEW version \in Versions, version >= r.kick[d]
  PROVE  GoodRedis(Touched(r, n, d, version)) /\ KicksGrow(r, Touched(r, n, d, version))
<1> DEFINE t == Touched(r, n, d, version)
<1>1. r \in RedisSet
  BY DEF GoodRedis
<1>2. 0 \in 0 .. NoLease
  BY BoundsAreNat DEF NoLease
<1>3. /\ t \in RedisSet /\ t.kick = r.kick
      /\ t.v = [r.v EXCEPT ![d] = version]
      /\ t.lease = [r.lease EXCEPT ![d][n] = 0]
  BY <1>1, <1>2 DEF Touched, RedisSet
<1> HIDE DEF t
<1>4. \A x \in Live(t) : x = d \/ x \in Live(r)
  BY <1>1, <1>3 DEF Live, RedisSet
<1>5. \A x \in Live(t) : t.v[x] >= t.kick[x]
  BY <1>1, <1>3, <1>4 DEF Live, GoodRedis, RedisSet
<1>6. KicksGrow(r, t)
  BY <1>1, <1>3, BoundsAreNat DEF KicksGrow, RedisSet, Revoked
<1> QED BY <1>3, <1>5, <1>6 DEF GoodRedis, t

(* Slots are taken away. *)
LEMMA EvictedFacts ==
  ASSUME NEW r, GoodRedis(r), NEW set
  PROVE  GoodRedis(Evicted(r, set)) /\ KicksGrow(r, Evicted(r, set))
         /\ Evicted(r, set).kick = r.kick
<1> DEFINE t == Evicted(r, set)
<1>1. r \in RedisSet /\ NoLeases \in [Nodes -> 0 .. NoLease]
  BY BoundsAreNat DEF GoodRedis, NoLeases, NoLease
<1>2. /\ t \in RedisSet /\ t.kick = r.kick /\ t.v = r.v
      /\ t.lease = [x \in Devices |-> IF x \in set THEN NoLeases ELSE r.lease[x]]
  BY <1>1 DEF Evicted, RedisSet
<1> HIDE DEF t
<1>3. \A x \in Live(t) : x \in Live(r)
  BY <1>1, <1>2, BoundsAreNat DEF Live, RedisSet, NoLeases, NoLease
<1>4. KicksGrow(r, t)
  BY <1>1, <1>2, BoundsAreNat DEF KicksGrow, RedisSet, Revoked
<1> QED BY <1>2, <1>3, <1>4 DEF GoodRedis, t

(* syncKickScript for one device: what is listed is at least at its version,  *)
(* what an account lost is revoked, and nothing comes online.                 *)
LEMMA SyncDeviceFacts ==
  ASSUME NEW r, GoodRedis(r), NEW n \in Nodes, NEW d \in Devices, NEW l \in Lists,
         l.version[d] \in Versions, known[n][d] \in Versions \cup {Unknown}
  PROVE  LET q == SyncDevice(r, n, d, l)
         IN  /\ q \in RedisSet /\ q.kick[d] >= r.kick[d]
             /\ d \in Live(q) => d \in Live(r) /\ r.v[d] >= q.kick[d]
             /\ d \in Listed(l) => q.kick[d] >= l.version[d]
             /\ l.account /\ d \notin l.devices =>
                  q.kick[d] >= IF known[n][d] = Unknown THEN r.kick[d] ELSE Revoked
<1> DEFINE q == SyncDevice(r, n, d, l)
<1>0. r \in RedisSet /\ NoPolicy \in Limits \cup {NoPolicy} /\ l.limit \in Limits
  BY DEF GoodRedis, Lists
<1>1. CASE d \in Listed(l)
  <2> DEFINE k == WithKick(r, d, l.version[d])
  <2>1. l.version[d] \in 0 .. Revoked
    BY BoundsAreNat DEF Versions, Revoked
  <2>2. /\ k \in RedisSet /\ \A x \in Live(k) : k.v[x] >= k.kick[x]
        /\ k.kick[d] >= r.kick[d] /\ k.kick[d] >= l.version[d]
    BY <2>1, WithKickFacts DEF GoodRedis, KicksGrow
  <2>3. d \in Live(k) => d \in Live(r) /\ k.v = r.v
    BY <1>0, <2>1, WithKickLive
  <2>4. q.kick = k.kick /\ q.lease = k.lease /\ q \in RedisSet
    <3>1. q = k \/ q = [k EXCEPT !.policy[d][n] = l.limit]
      BY <1>1 DEF SyncDevice, SyncListed
    <3> HIDE DEF k, q
    <3>2. k \in RedisSet /\ l.limit \in Limits
      BY <1>0, <2>2
    <3>3. CASE q = k
      BY <3>2, <3>3
    <3>4. CASE q = [k EXCEPT !.policy[d][n] = l.limit]
      BY <3>2, <3>4 DEF RedisSet
    <3> QED BY <3>1, <3>3, <3>4
  <2>5. d \in Live(q) => d \in Live(k)
    BY <2>4 DEF Live
  <2> HIDE DEF k, q
  <2>6. l.account => d \in l.devices
    BY <1>1 DEF Listed
  <2> QED BY <1>1, <2>2, <2>3, <2>4, <2>5, <2>6 DEF q
<1>2. CASE d \notin Listed(l) /\ known[n][d] # Unknown
  <2> DEFINE version == IF l.account THEN Revoked ELSE known[n][d]
             k == WithKick(r, d, version)
  <2>1. version \in 0 .. Revoked
    BY <1>2, BoundsAreNat DEF Versions, Revoked
  <2> HIDE DEF version
  <2>2. /\ k \in RedisSet /\ \A x \in Live(k) : k.v[x] >= k.kick[x]
        /\ k.kick[d] >= r.kick[d] /\ k.kick[d] >= version
    BY <2>1, WithKickFacts DEF GoodRedis, KicksGrow
  <2>3. d \in Live(k) => d \in Live(r) /\ k.v = r.v
    BY <1>0, <2>1, WithKickLive
  <2>4. q = [k EXCEPT !.lease[d][n] = NoLease, !.policy[d][n] = NoPolicy]
    BY <1>2 DEF SyncDevice, SyncDropped, version
  <2> HIDE DEF k, q
  <2>5. NoLease \in 0 .. NoLease /\ ~(NoLease <= Expiry)
    BY BoundsAreNat DEF NoLease
  <2>6. /\ q.kick = k.kick /\ q \in RedisSet
        /\ q.lease = [k.lease EXCEPT ![d][n] = NoLease]
    BY <1>0, <2>2, <2>4, <2>5 DEF RedisSet
  <2>7. d \in Live(q) => d \in Live(k)
    BY <2>2, <2>5, <2>6 DEF Live, RedisSet
  <2>8. l.account => version = Revoked
    BY DEF version
  <2> QED BY <1>2, <2>2, <2>3, <2>6, <2>7, <2>8 DEF q
<1>3. CASE d \notin Listed(l) /\ known[n][d] = Unknown
  <2>1. q = r
    BY <1>3 DEF SyncDevice
  <2> QED BY <1>0, <1>3, <2>1, BoundsAreNat DEF GoodRedis, RedisSet, Revoked
<1> QED BY <1>1, <1>2, <1>3

(* The whole list. *)
LEMMA SyncedFacts ==
  ASSUME NEW r, GoodRedis(r), NEW n \in Nodes, NEW l \in Lists,
         \A d \in Devices : l.version[d] \in Versions,
         \A d \in Devices : known[n][d] \in Versions \cup {Unknown}
  PROVE  /\ GoodRedis(Synced(r, n, l)) /\ KicksGrow(r, Synced(r, n, l))
         /\ \A d \in Devices :
              /\ d \in Listed(l) => Synced(r, n, l).kick[d] >= l.version[d]
              /\ l.account /\ d \notin l.devices =>
                   Synced(r, n, l).kick[d] >=
                     IF known[n][d] = Unknown THEN r.kick[d] ELSE Revoked
<1> DEFINE s == Synced(r, n, l)
           q(d) == SyncDevice(r, n, d, l)
<1>1. \A d \in Devices :
        /\ q(d) \in RedisSet /\ q(d).kick[d] >= r.kick[d]
        /\ d \in Live(q(d)) => d \in Live(r) /\ r.v[d] >= q(d).kick[d]
        /\ d \in Listed(l) => q(d).kick[d] >= l.version[d]
        /\ l.account /\ d \notin l.devices =>
             q(d).kick[d] >= IF known[n][d] = Unknown THEN r.kick[d] ELSE Revoked
  BY SyncDeviceFacts
<1>2. /\ s.kick = [d \in Devices |-> q(d).kick[d]] /\ s.v = r.v
      /\ s.lease = [d \in Devices |-> q(d).lease[d]]
      /\ s.policy = [d \in Devices |-> q(d).policy[d]]
      /\ s = [kick |-> s.kick, v |-> s.v, lease |-> s.lease, policy |-> s.policy]
  BY DEF Synced
<1> HIDE DEF q, s
<1>3. s \in RedisSet
  BY <1>1, <1>2 DEF RedisSet, GoodRedis
<1>4. \A d \in Devices : s.kick[d] = q(d).kick[d] /\ s.lease[d] = q(d).lease[d]
  BY <1>2
<1>5. \A d \in Live(s) : d \in Live(q(d))
  BY <1>4 DEF Live
<1>6. \A d \in Live(s) : s.v[d] >= s.kick[d]
  BY <1>1, <1>2, <1>4, <1>5 DEF Live
<1> QED BY <1>1, <1>3, <1>4, <1>6 DEF GoodRedis, KicksGrow, s

-----------------------------------------------------------------------------
(* The lists in use are lists, with versions that Redis can hold. *)
LEMMA ListsFacts ==
  ASSUME ListsOK
  PROVE  /\ \A i \in 1 .. Len(history) :
              history[i] \in Lists /\ \A d \in Devices : history[i].version[d] \in Versions
         /\ \A n \in Nodes : List(n) \in Lists /\ \A d \in Devices : List(n).version[d] \in Versions
         /\ \A n \in Nodes : Current(n) \in 1 .. Len(history) /\ Told(n) = history[Current(n)]
<1>1. history \in Seq(Lists) /\ Len(history) \in 1 .. MaxEdits + 1
  BY DEF ListsOK, HistoryOK
<1>2. \A i \in 1 .. Len(history) : history[i] \in Lists
  BY <1>1
<1>3. \A i \in 1 .. Len(history), d \in Devices : history[i].version[d] \in Versions
  BY <1>1, <1>2, BoundsAreNat DEF ListsOK, HistoryOK, Lists, Versions
<1>4. \A n \in Nodes : users[n] \in 1 .. Len(history) /\ fetched[n] \in 0 .. Len(history)
  BY DEF ListsOK, NodesOK
<1>5. \A n \in Nodes : Current(n) \in 1 .. Len(history)
  BY <1>1, <1>4 DEF Current
<1> QED BY <1>2, <1>3, <1>4, <1>5 DEF List, Told, Current

(* A step on the record alone: what is in force stays so. *)
LEMMA RedisStep ==
  ASSUME KickInv, GoodRedis(redis'), KicksGrow(redis, redis'), CarriedOK',
         UNCHANGED <<history, nodeVars>>
  PROVE  KickInv'
<1>1. ListsOK'
  BY DEF KickInv, ListsOK, HistoryOK, NodesOK, Current, nodeVars
<1>2. \A d \in Devices : redis.kick[d] \in 0 .. Revoked /\ redis'.kick[d] \in 0 .. Revoked
  BY DEF KickInv, GoodRedis, RedisSet
<1>3. Forgotten'
  BY <1>2, BoundsAreNat DEF KickInv, Forgotten, KicksGrow, nodeVars, Revoked
<1>4. InPlace'
  <2> SUFFICES ASSUME NEW n \in Nodes, NEW d \in Devices, pending[n] = 0, Told(n).account
               PROVE  redis'.kick[d] >=
                        IF d \in Told(n).devices THEN Told(n).version[d] ELSE Revoked
    BY DEF InPlace, Told, nodeVars
  <2>1. redis.kick[d] >= IF d \in Told(n).devices THEN Told(n).version[d] ELSE Revoked
    BY DEF KickInv, InPlace
  <2>2. Told(n).version[d] \in Versions
    BY ListsFacts DEF KickInv
  <2> QED BY <1>2, <2>1, <2>2, BoundsAreNat DEF KicksGrow, Revoked, Versions
<1> QED BY <1>1, <1>3, <1>4 DEF KickInv

(* The end of a check, and its return to the start. *)
LEMMA EndKeeps ==
  ASSUME CarriedOK, NEW n \in Nodes, check[n] \in Checks, NEW allowed \in BOOLEAN, End(n, allowed)
  PROVE  CarriedOK'
<1>1. check' \in [Nodes -> Checks \cup {Idle}]
  BY DEF End, CarriedOK
<1>2. \A w \in Watched : conn'[w] \in {conn[w], NoConn, check[n].version}
  BY DEF End
<1>3. conn' \in [Watched -> Versions \cup {NoConn}]
  BY <1>2 DEF End, CarriedOK, Checks
<1> QED BY <1>1, <1>3 DEF CarriedOK

LEMMA RetryKeeps ==
  ASSUME ListsOK, CarriedOK, NEW n \in Nodes, check[n] \in Checks, NEW reclaim \in BOOLEAN,
         Retry(n, reclaim)
  PROVE  CarriedOK'
<1>1. List(n).limit \in Limits
  BY ListsFacts DEF Lists
<1>2. check' = [check EXCEPT ![n] = [check[n] EXCEPT !.pc = "admit", !.limit = List(n).limit,
                                                     !.reclaim = reclaim]]
  BY DEF Retry
<1>3. [check[n] EXCEPT !.pc = "admit", !.limit = List(n).limit, !.reclaim = reclaim] \in Checks
  BY <1>1 DEF Checks
<1> QED BY <1>2, <1>3 DEF CarriedOK, Retry

LEMMA RefuseOrRetryKeeps ==
  ASSUME ListsOK, CarriedOK, NEW n \in Nodes, check[n] \in Checks, NEW reclaim \in BOOLEAN,
         RefuseOrRetry(n, reclaim)
  PROVE  CarriedOK'
BY EndKeeps, RetryKeeps DEF RefuseOrRetry, Refuse

(* A check that has begun is a record of Checks. *)
LEMMA Began ==
  ASSUME CarriedOK, NEW n \in Nodes, check[n].pc \in {"admit", "ask", "evict"}
  PROVE  check[n] \in Checks
BY DEF CarriedOK, Idle

-----------------------------------------------------------------------------
(* Checks. *)
LEMMA BeginKeeps ==
  ASSUME KickInv, NEW n \in Nodes, NEW d \in Devices, NEW reclaim \in BOOLEAN, Begin(n, d, reclaim)
  PROVE  KickInv'
<1>1. List(n).version[d] \in Versions /\ List(n).limit \in Limits
  BY ListsFacts DEF KickInv, Lists
<1>2. CarriedOK'
  BY <1>1 DEF Begin, KickInv, CarriedOK, Checks
<1>3. GoodRedis(redis') /\ KicksGrow(redis, redis')
  BY DEF Begin, KickInv, KicksGrow, GoodRedis, RedisSet, Revoked
<1> QED BY <1>2, <1>3, RedisStep DEF Begin

LEMMA SameRedis ==
  ASSUME KickInv, redis' = redis
  PROVE  GoodRedis(redis') /\ KicksGrow(redis, redis')
BY DEF KickInv, KicksGrow, GoodRedis, RedisSet

LEMMA LocalAnswersKeep ==
  ASSUME KickInv, NEW n \in Nodes, AllowLocally(n) \/ AllowOnError(n) \/ Ask(n)
  PROVE  KickInv'
<1>1. /\ check[n] \in Checks /\ redis' = redis
      /\ ListsOK /\ CarriedOK /\ UNCHANGED <<history, nodeVars>>
  BY Began DEF KickInv, AllowLocally, AllowOnError, Ask
<1>2. CASE Allow(n)
  BY <1>1, <1>2, EndKeeps, SameRedis, RedisStep DEF Allow
<1>3. CASE Ask(n)
  <2>1. CASE Refuse(n)
    BY <1>1, <2>1, EndKeeps, SameRedis, RedisStep DEF Refuse
  <2>2. CASE ~Refuse(n)
    <3>1. PICK granted \in BOOLEAN :
            check' = [check EXCEPT ![n].pc = "evict", ![n].granted = granted,
                                   ![n].limit = List(n).limit]
      BY <1>3, <2>2 DEF Ask
    <3>2. List(n).limit \in Limits
      BY <1>1, ListsFacts DEF Lists
    <3>3. check' = [check EXCEPT ![n] = [check[n] EXCEPT !.pc = "evict", !.granted = granted,
                                                         !.limit = List(n).limit]]
      BY <3>1
    <3>4. [check[n] EXCEPT !.pc = "evict", !.granted = granted, !.limit = List(n).limit] \in Checks
      BY <1>1, <3>2 DEF Checks
    <3>5. conn' = conn
      BY <1>3, <2>2 DEF Ask
    <3>6. CarriedOK'
      BY <1>1, <3>3, <3>4, <3>5 DEF CarriedOK
    <3> QED BY <1>1, <3>6, SameRedis, RedisStep
  <2> QED BY <2>1, <2>2
<1> QED BY <1>2, <1>3 DEF AllowLocally, AllowOnError

LEMMA FindsFullKeeps ==
  ASSUME ListsOK, CarriedOK, NEW n \in Nodes, check[n] \in Checks, FindsFull(n)
  PROVE  CarriedOK'
<1>1. CASE Refuse(n)
  BY <1>1, EndKeeps DEF Refuse
<1>2. CASE Retry(n, check[n].reclaim)
  BY <1>2, RetryKeeps DEF Checks
<1>3. CASE ~Refuse(n) /\ ~Retry(n, check[n].reclaim)
  <2>1. /\ check' = [check EXCEPT ![n].pc = IF check[n].granted THEN "evict" ELSE "ask"]
        /\ conn' = conn
    BY <1>3 DEF FindsFull
  <2> QED BY <2>1 DEF CarriedOK, Checks
<1> QED BY <1>1, <1>2, <1>3

LEMMA AdmitKeeps ==
  ASSUME KickInv, NEW n \in Nodes, Admit(n)
  PROVE  KickInv'
<1> DEFINE c == check[n]
           k == WithKick(redis, c.device, c.version)
<1>1. /\ c \in Checks /\ ListsOK /\ CarriedOK /\ GoodRedis(redis)
      /\ UNCHANGED <<history, nodeVars>>
  BY Began DEF KickInv, Admit
<1>2. c.device \in Devices /\ c.version \in Versions /\ c.version \in 0 .. Revoked
      /\ c.reclaim \in BOOLEAN
  BY <1>1, BoundsAreNat DEF Checks, Versions, Revoked
<1>3. /\ GoodRedis(k) /\ KicksGrow(redis, k)
      /\ Obeys(redis, c.device, c.version) => k.kick[c.device] = c.version
  BY <1>1, <1>2, WithKickFacts
<1>4. \/ redis' = k /\ RefuseOrRetry(n, c.reclaim)
      \/ Obeys(redis, c.device, c.version) /\ redis' = Touched(k, n, c.device, c.version) /\ Allow(n)
      \/ redis' = k /\ FindsFull(n)
  BY DEF Admit
<1> HIDE DEF k
<1>5. CASE redis' = k /\ RefuseOrRetry(n, c.reclaim)
  BY <1>1, <1>2, <1>3, <1>5, RefuseOrRetryKeeps, RedisStep
<1>6. CASE redis' = k /\ FindsFull(n)
  BY <1>1, <1>3, <1>6, FindsFullKeeps, RedisStep
<1>7. CASE Obeys(redis, c.device, c.version) /\ redis' = Touched(k, n, c.device, c.version) /\ Allow(n)
  <2>1. c.version >= k.kick[c.device]
    BY <1>2, <1>3, <1>7, BoundsAreNat DEF Versions
  <2>2. GoodRedis(redis') /\ KicksGrow(k, redis')
    BY <1>2, <1>3, <1>7, <2>1, TouchedFacts
  <2>3. KicksGrow(redis, redis')
    BY <1>1, <1>3, <2>2, BoundsAreNat DEF KicksGrow, GoodRedis, RedisSet, Revoked
  <2>4. CarriedOK'
    BY <1>1, <1>7, EndKeeps DEF Allow
  <2> QED BY <1>1, <2>2, <2>3, <2>4, RedisStep
<1> QED BY <1>4, <1>5, <1>6, <1>7

LEMMA EvictKeeps ==
  ASSUME KickInv, NEW n \in Nodes, Evict(n)
  PROVE  KickInv'
<1> DEFINE c == check[n]
           k == WithKick(redis, c.device, c.version)
<1>1. /\ c \in Checks /\ ListsOK /\ CarriedOK /\ GoodRedis(redis)
      /\ UNCHANGED <<history, nodeVars>>
  BY Began DEF KickInv, Evict
<1>2. c.device \in Devices /\ c.version \in Versions /\ c.version \in 0 .. Revoked
      /\ c.granted \in BOOLEAN
  BY <1>1, BoundsAreNat DEF Checks, Versions, Revoked
<1>3. GoodRedis(k) /\ KicksGrow(redis, k)
  BY <1>1, <1>2, WithKickFacts
<1>4. \/ MayEvict(k, n, c) /\ Allow(n) /\ \E out \in Victims(k, c.device, c.limit) :
           redis' = Touched(Evicted(k, out), n, c.device, c.version)
      \/ redis' = k /\ RefuseOrRetry(n, c.granted)
  BY DEF Evict
<1> HIDE DEF k
<1>5. CASE redis' = k /\ RefuseOrRetry(n, c.granted)
  BY <1>1, <1>2, <1>3, <1>5, RefuseOrRetryKeeps, RedisStep
<1>6. ASSUME MayEvict(k, n, c), Allow(n),
             NEW out, redis' = Touched(Evicted(k, out), n, c.device, c.version)
      PROVE  KickInv'
  <2> DEFINE e == Evicted(k, out)
  <2>1. GoodRedis(e) /\ KicksGrow(k, e) /\ e.kick = k.kick
    BY <1>3, EvictedFacts
  <2>2. c.version >= k.kick[c.device]
    <3>1. InForce(k, c.device) >= k.kick[c.device] /\ InForce(k, c.device) \in 0 .. Revoked
      <4>1. InForce(k, c.device) = IF c.device \in Live(k) THEN k.v[c.device] ELSE k.kick[c.device]
        BY <1>2, <1>3, InForceFacts
      <4>2. k.v[c.device] \in Versions /\ k.kick[c.device] \in 0 .. Revoked
        BY <1>2, <1>3 DEF GoodRedis, RedisSet
      <4>3. c.device \in Live(k) => k.v[c.device] >= k.kick[c.device]
        BY <1>3 DEF GoodRedis
      <4> QED BY <4>1, <4>2, <4>3, BoundsAreNat DEF Versions, Revoked
    <3>2. c.version >= InForce(k, c.device)
      BY <1>6 DEF MayEvict, Obeys
    <3>3. k.kick[c.device] \in 0 .. Revoked
      BY <1>2, <1>3 DEF GoodRedis, RedisSet
    <3> QED BY <1>2, <3>1, <3>2, <3>3, BoundsAreNat DEF Revoked
  <2> HIDE DEF e
  <2>3. GoodRedis(redis') /\ KicksGrow(e, redis')
    BY <1>2, <1>6, <2>1, <2>2, TouchedFacts DEF e
  <2>4. KicksGrow(redis, redis')
    BY <1>1, <1>3, <2>1, <2>3, BoundsAreNat DEF KicksGrow, GoodRedis, RedisSet, Revoked
  <2>5. CarriedOK'
    BY <1>1, <1>6, EndKeeps DEF Allow
  <2> QED BY <1>1, <2>3, <2>4, <2>5, RedisStep
<1> QED BY <1>4, <1>5, <1>6

(* Verify and the ends of connections. *)
LEMMA VerifyKeeps ==
  ASSUME KickInv, NEW w \in Watched, VerifyFails(w) \/ Verify(w) \/ Disconnect(w)
  PROVE  KickInv'
<1>1. CarriedOK'
  BY DEF KickInv, CarriedOK, VerifyFails, Verify, Disconnect, Close
<1>2. CASE redis' = redis
  BY <1>1, <1>2, SameRedis, RedisStep DEF VerifyFails, Verify, Disconnect
<1>3. CASE Verify(w)
  <2>1. w[2] \in Devices /\ conn[w] \in 0 .. Revoked
    BY <1>3, WatchedArePairs, BoundsAreNat
       DEF Verify, Asks, KickInv, CarriedOK, Versions, NoConn, Revoked
  <2>2. redis' = WithKick(redis, w[2], conn[w])
    BY <1>3 DEF Verify
  <2>3. GoodRedis(redis') /\ KicksGrow(redis, redis')
    BY <2>1, <2>2, WithKickFacts DEF KickInv
  <2> QED BY <1>1, <1>3, <2>3, RedisStep DEF Verify
<1> QED BY <1>2, <1>3 DEF VerifyFails, Disconnect

(* Leases only grow older: nobody comes online. *)
LEMMA TickKeeps ==
  ASSUME KickInv, Tick
  PROVE  KickInv'
<1>1. redis \in RedisSet
  BY DEF KickInv, GoodRedis
<1>2. \A a \in 0 .. NoLease :
        Older(a) \in 0 .. NoLease /\ (Older(a) <= Expiry => a <= Expiry)
  BY BoundsAreNat DEF Older, NoLease
<1>3. /\ redis'.lease = [d \in Devices |-> [n \in Nodes |-> Older(redis.lease[d][n])]]
      /\ redis'.kick = redis.kick /\ redis'.v = redis.v /\ redis'.policy = redis.policy
      /\ redis' = [kick |-> redis'.kick, v |-> redis'.v, lease |-> redis'.lease,
                   policy |-> redis'.policy]
  BY <1>1 DEF Tick, RedisSet
<1>4. redis' \in RedisSet
  <2>1. redis'.lease \in [Devices -> [Nodes -> 0 .. NoLease]]
    BY <1>1, <1>2, <1>3 DEF RedisSet
  <2> QED BY <1>1, <1>3, <2>1 DEF RedisSet
<1>5. \A d \in Live(redis') : d \in Live(redis)
  <2> SUFFICES ASSUME NEW d \in Devices, NEW n \in Nodes, redis'.lease[d][n] <= Expiry
               PROVE  redis.lease[d][n] <= Expiry
    BY DEF Live
  <2> QED BY <1>1, <1>2, <1>3 DEF RedisSet
<1>6. GoodRedis(redis')
  BY <1>3, <1>4, <1>5 DEF KickInv, GoodRedis
<1>7. KicksGrow(redis, redis')
  BY <1>1, <1>3, BoundsAreNat DEF KicksGrow, RedisSet, Revoked
<1>8. CarriedOK'
  BY DEF Tick, KickInv, CarriedOK
<1> QED BY <1>6, <1>7, <1>8, RedisStep DEF Tick

-----------------------------------------------------------------------------
(* Uploads: success puts the list in force, failure keeps it pending. *)
LEMMA UploadFacts ==
  ASSUME KickInv, NEW n \in Nodes, NEW i \in 1 .. Len(history), Upload(n, i)
  PROVE  /\ GoodRedis(redis') /\ KicksGrow(redis, redis')
         /\ \E p \in {0, i} : pending' = [pending EXCEPT ![n] = p]
         /\ known' \in [Nodes -> [Devices -> Versions \cup {Unknown}]]
         /\ Forgotten'
         /\ pending'[n] = 0 /\ history[i].account =>
              \A d \in Devices : redis'.kick[d] >=
                IF d \in history[i].devices THEN history[i].version[d] ELSE Revoked
<1> DEFINE l == history[i]
           all == [d \in Devices |-> IF d \in Listed(l) THEN l.version[d] ELSE known[n][d]]
           left == [d \in Devices |-> IF l.account /\ d \notin l.devices THEN Unknown ELSE all[d]]
<1>1. /\ l \in Lists /\ \A d \in Devices : l.version[d] \in Versions
      /\ known \in [Nodes -> [Devices -> Versions \cup {Unknown}]]
      /\ pending \in [Nodes -> 0 .. Len(history)]
      /\ GoodRedis(redis) /\ Forgotten
      /\ i # 0 /\ Unknown \notin Versions
  BY ListsFacts DEF KickInv, ListsOK, NodesOK, Unknown, Versions
<1>2. all \in [Devices -> Versions \cup {Unknown}] /\ left \in [Devices -> Versions \cup {Unknown}]
  BY <1>1
<1>3. \A d \in Devices : all[d] = Unknown => known[n][d] = Unknown
  BY <1>1
<1>4. CASE /\ redis' = Synced(redis, n, l) /\ pending' = [pending EXCEPT ![n] = 0]
           /\ known' = [known EXCEPT ![n] = left]
  <2>1. /\ GoodRedis(redis') /\ KicksGrow(redis, redis')
        /\ \A d \in Devices :
             /\ d \in Listed(l) => redis'.kick[d] >= l.version[d]
             /\ l.account /\ d \notin l.devices =>
                  redis'.kick[d] >= IF known[n][d] = Unknown THEN redis.kick[d] ELSE Revoked
    BY <1>1, <1>4, SyncedFacts
  <2> HIDE DEF all
  <2>2. \A d \in Devices : redis.kick[d] \in 0 .. Revoked /\ redis'.kick[d] \in 0 .. Revoked
    BY <1>1, <2>1 DEF GoodRedis, RedisSet
  <2>3. \A d \in Devices : l.account /\ d \notin l.devices => redis'.kick[d] = Revoked
    BY <1>1, <2>1, <2>2, BoundsAreNat DEF Forgotten, Revoked
  <2>4. \A m \in Nodes, d \in Devices : known'[m][d] = Unknown =>
          known[m][d] = Unknown \/ (l.account /\ d \notin l.devices)
    BY <1>1, <1>3, <1>4
  <2>5. Forgotten'
    BY <1>1, <2>1, <2>2, <2>3, <2>4, BoundsAreNat DEF Forgotten, KicksGrow, Revoked
  <2>6. known' \in [Nodes -> [Devices -> Versions \cup {Unknown}]]
    BY <1>1, <1>2, <1>4
  <2>7. l.account => \A d \in Devices : redis'.kick[d] >=
          IF d \in l.devices THEN l.version[d] ELSE Revoked
    BY <2>1, <2>2, <2>3, BoundsAreNat DEF Listed, Revoked
  <2> QED BY <1>4, <2>1, <2>5, <2>6, <2>7
<1>5. CASE /\ redis' = redis /\ pending' = [pending EXCEPT ![n] = i]
           /\ known' = [known EXCEPT ![n] = all]
  <2>1. GoodRedis(redis') /\ KicksGrow(redis, redis')
    BY <1>5, SameRedis
  <2> HIDE DEF all
  <2>2. \A m \in Nodes, d \in Devices : known'[m][d] = Unknown => known[m][d] = Unknown
    BY <1>1, <1>3, <1>5
  <2>3. Forgotten'
    BY <1>1, <1>5, <2>2 DEF Forgotten
  <2>4. known' \in [Nodes -> [Devices -> Versions \cup {Unknown}]]
    BY <1>1, <1>2, <1>5
  <2>5. pending'[n] # 0
    BY <1>1, <1>5
  <2> QED BY <1>5, <2>1, <2>3, <2>4, <2>5
<1> QED BY <1>4, <1>5 DEF Upload

(* After an upload the list is the one the node has told Redis about. *)
LEMMA ToldKeeps ==
  ASSUME KickInv, NEW n \in Nodes, NEW i \in 1 .. Len(history), Upload(n, i),
         UNCHANGED <<history, users, check, conn>>, fetched' \in [Nodes -> 0 .. Len(history)],
         \A m \in Nodes : Current(m)' = IF m = n THEN i ELSE Current(m)
  PROVE  KickInv'
<1>1. /\ GoodRedis(redis') /\ KicksGrow(redis, redis') /\ Forgotten'
      /\ known' \in [Nodes -> [Devices -> Versions \cup {Unknown}]]
      /\ pending'[n] = 0 /\ history[i].account =>
           \A d \in Devices : redis'.kick[d] >=
             IF d \in history[i].devices THEN history[i].version[d] ELSE Revoked
  BY UploadFacts
<1>2. PICK p \in {0, i} : pending' = [pending EXCEPT ![n] = p]
  BY UploadFacts
<1>3. /\ pending \in [Nodes -> 0 .. Len(history)] /\ ListsOK
      /\ \A m \in Nodes : pending[m] \in {0, Current(m)}
  BY DEF KickInv, ListsOK, NodesOK
<1>4. pending' \in [Nodes -> 0 .. Len(history)] /\ \A m \in Nodes : pending'[m] \in {0, Current(m)'}
  BY <1>2, <1>3
<1>5. ListsOK'
  BY <1>1, <1>3, <1>4 DEF ListsOK, HistoryOK, NodesOK
<1>6. \A m \in Nodes : Told(m)' = IF m = n THEN history[i] ELSE Told(m)
  BY DEF Told, Current
<1>7. InPlace'
  <2> SUFFICES ASSUME NEW m \in Nodes, NEW d \in Devices, pending'[m] = 0, Told(m)'.account
               PROVE  redis'.kick[d] >=
                        IF d \in Told(m)'.devices THEN Told(m)'.version[d] ELSE Revoked
    BY DEF InPlace
  <2>1. CASE m = n
    BY <1>1, <1>6, <2>1
  <2>2. CASE m # n
    <3>1. pending[m] = 0 /\ Told(m)' = Told(m)
      BY <1>2, <1>3, <1>6, <2>2
    <3>2. redis.kick[d] >= IF d \in Told(m).devices THEN Told(m).version[d] ELSE Revoked
      BY <3>1 DEF KickInv, InPlace
    <3>3. redis.kick[d] \in 0 .. Revoked /\ redis'.kick[d] \in 0 .. Revoked
      BY <1>1 DEF KickInv, GoodRedis, RedisSet
    <3>4. Told(m).version[d] \in Versions
      BY <1>3, ListsFacts
    <3>5. redis'.kick[d] >= redis.kick[d]
      BY <1>1 DEF KicksGrow
    <3> QED BY <3>1, <3>2, <3>3, <3>4, <3>5, BoundsAreNat DEF Revoked, Versions
  <2> QED BY <2>1, <2>2
<1>8. CarriedOK'
  BY DEF KickInv, CarriedOK
<1> QED BY <1>1, <1>5, <1>7, <1>8 DEF KickInv

LEMMA SyncUsersKeeps ==
  ASSUME KickInv, NEW n \in Nodes, SyncUsers(n)
  PROVE  KickInv'
<1>1. Len(history) \in 1 .. Len(history) /\ fetched \in [Nodes -> 0 .. Len(history)]
  BY DEF KickInv, ListsOK, HistoryOK, NodesOK
<1>2. fetched' = [fetched EXCEPT ![n] = Len(history)] /\ users' = users
  BY DEF SyncUsers
<1>3. \A m \in Nodes : Current(m)' = IF m = n THEN Len(history) ELSE Current(m)
  BY <1>1, <1>2 DEF Current
<1>4. fetched' \in [Nodes -> 0 .. Len(history)]
  BY <1>1, <1>2
<1> QED BY <1>1, <1>3, <1>4, ToldKeeps DEF SyncUsers

LEMMA SyncPendingKeeps ==
  ASSUME KickInv, NEW n \in Nodes, SyncPending(n)
  PROVE  KickInv'
<1>1. pending[n] = Current(n) /\ fetched \in [Nodes -> 0 .. Len(history)]
  BY DEF SyncPending, KickInv, ListsOK, NodesOK
<1>2. pending[n] \in 1 .. Len(history)
  BY <1>1, ListsFacts DEF KickInv
<1>3. \A m \in Nodes : Current(m)' = IF m = n THEN pending[n] ELSE Current(m)
  BY <1>1 DEF Current, SyncPending
<1> QED BY <1>1, <1>2, <1>3, ToldKeeps DEF SyncPending

LEMMA InstallUsersKeeps ==
  ASSUME KickInv, NEW n \in Nodes, InstallUsers(n)
  PROVE  KickInv'
<1>1. /\ users \in [Nodes -> 1 .. Len(history)] /\ fetched \in [Nodes -> 0 .. Len(history)]
      /\ fetched[n] # 0 /\ Len(history) \in Nat
  BY DEF InstallUsers, KickInv, ListsOK, HistoryOK, NodesOK
<1>2. /\ users' = [users EXCEPT ![n] = fetched[n]] /\ fetched' = [fetched EXCEPT ![n] = 0]
      /\ UNCHANGED <<history, redis, pending, known, check, conn>>
  BY DEF InstallUsers
<1>3. users' \in [Nodes -> 1 .. Len(history)] /\ fetched' \in [Nodes -> 0 .. Len(history)]
  BY <1>1, <1>2
<1>4. \A m \in Nodes : Current(m)' = Current(m) /\ Told(m)' = Told(m)
  BY <1>1, <1>2 DEF Current, Told
<1>5. ListsOK'
  BY <1>2, <1>3, <1>4 DEF KickInv, ListsOK, HistoryOK, NodesOK
<1> QED BY <1>2, <1>4, <1>5 DEF KickInv, GoodRedis, Live, Forgotten, InPlace, CarriedOK

(* A change at the panel: the nodes have not seen it. *)
LEMMA EditKeeps ==
  ASSUME KickInv, NEW l \in Lists, \A d \in Devices : l.version[d] <= Len(history), Edit(l)
  PROVE  KickInv'
<1>1. /\ history \in Seq(Lists) /\ Len(history) \in 1 .. MaxEdits /\ Len(history) \in Nat
      /\ history' = Append(history, l) /\ UNCHANGED <<redis, nodeVars, check, conn>>
  BY BoundsAreNat DEF KickInv, ListsOK, HistoryOK, Edit
<1>2. /\ history' \in Seq(Lists) /\ Len(history') = Len(history) + 1
      /\ \A i \in 1 .. Len(history) : history'[i] = history[i]
      /\ history'[Len(history) + 1] = l
  BY <1>1
<1>3. HistoryOK'
  <2>1. Len(history') \in 1 .. MaxEdits + 1
    BY <1>1, <1>2, BoundsAreNat
  <2>2. ASSUME NEW i \in 1 .. Len(history'), NEW d \in Devices
        PROVE  history'[i].version[d] <= i - 1
    <3>1. CASE i = Len(history) + 1
      BY <1>1, <1>2, <3>1
    <3>2. CASE i \in 1 .. Len(history)
      BY <1>2, <3>2 DEF KickInv, ListsOK, HistoryOK
    <3> QED BY <1>1, <1>2, <3>1, <3>2
  <2> QED BY <1>2, <2>1, <2>2 DEF HistoryOK
<1>4. NodesOK'
  <2>1. \A m \in Nodes : Current(m)' = Current(m)
    BY <1>1 DEF Current, nodeVars
  <2>2. NodesOK /\ \A x \in 0 .. Len(history) : x \in 0 .. Len(history')
    BY <1>1, <1>2 DEF KickInv, ListsOK
  <2>3. \A x \in 1 .. Len(history) : x \in 1 .. Len(history')
    BY <1>1, <1>2
  <2>4. users' = users /\ fetched' = fetched /\ pending' = pending /\ known' = known
    BY <1>1 DEF nodeVars
  <2>5. users' \in [Nodes -> 1 .. Len(history')] /\ fetched' \in [Nodes -> 0 .. Len(history')]
        /\ pending' \in [Nodes -> 0 .. Len(history')]
    BY <2>2, <2>3, <2>4 DEF NodesOK
  <2> QED BY <2>1, <2>2, <2>4, <2>5 DEF NodesOK
<1>5. \A m \in Nodes : Told(m)' = Told(m)
  <2>1. \A m \in Nodes : Current(m) \in 1 .. Len(history) /\ Told(m) = history[Current(m)]
    BY ListsFacts DEF KickInv
  <2>2. \A m \in Nodes : Told(m)' = history'[Current(m)]
    BY <1>1 DEF Told, Current, nodeVars
  <2> QED BY <1>2, <2>1, <2>2
<1>6. Forgotten' /\ InPlace'
  BY <1>1, <1>5 DEF KickInv, Forgotten, InPlace, nodeVars
<1> QED BY <1>1, <1>3, <1>4, <1>6 DEF KickInv, ListsOK, GoodRedis, Live, CarriedOK

LEMMA PanelKeeps ==
  ASSUME KickInv,
         \/ \E d \in Devices : Kick(d) \/ Revoke(d)
         \/ \E l \in Limits : SetLimit(l)
         \/ Suspend
  PROVE  KickInv'
<1>1. /\ Latest \in Lists /\ Len(history) \in Nat
      /\ \A d \in Devices : Latest.version[d] \in Nat /\ Latest.version[d] <= Len(history) - 1
  <2>1. Len(history) \in 1 .. Len(history) /\ Len(history) \in Nat
    BY DEF KickInv, ListsOK, HistoryOK
  <2>2. Latest \in Lists
    BY <2>1, ListsFacts DEF KickInv, Latest
  <2>3. \A d \in Devices : Latest.version[d] <= Len(history) - 1
    BY <2>1 DEF KickInv, ListsOK, HistoryOK, Latest
  <2> QED BY <2>1, <2>2, <2>3 DEF Lists
<1>2. ASSUME NEW d \in Devices, Kick(d) PROVE KickInv'
  <2> DEFINE l == [Latest EXCEPT !.version[d] = @ + 1]
  <2>1. l \in Lists /\ \A x \in Devices : l.version[x] <= Len(history)
    BY <1>1 DEF Lists
  <2> QED BY <1>2, <2>1, EditKeeps DEF Kick
<1>3. ASSUME NEW d \in Devices, Revoke(d) PROVE KickInv'
  <2> DEFINE l == [Latest EXCEPT !.devices = @ \ {d}]
  <2>1. l \in Lists /\ \A x \in Devices : l.version[x] <= Len(history)
    BY <1>1 DEF Lists
  <2> QED BY <1>3, <2>1, EditKeeps DEF Revoke
<1>4. ASSUME NEW x \in Limits, SetLimit(x) PROVE KickInv'
  <2> DEFINE l == [Latest EXCEPT !.limit = x]
  <2>1. l \in Lists /\ \A y \in Devices : l.version[y] <= Len(history)
    BY <1>1 DEF Lists
  <2> QED BY <1>4, <2>1, EditKeeps DEF SetLimit
<1>5. ASSUME Suspend PROVE KickInv'
  <2> DEFINE l == [Latest EXCEPT !.account = ~@]
  <2>1. l \in Lists /\ \A y \in Devices : l.version[y] <= Len(history)
    <3>1. (~Latest.account) \in BOOLEAN
      OBVIOUS
    <3>2. \A b \in BOOLEAN : [Latest EXCEPT !.account = b] \in Lists
                           /\ [Latest EXCEPT !.account = b].version = Latest.version
      BY <1>1 DEF Lists
    <3>3. l \in Lists /\ l.version = Latest.version
      BY <3>1, <3>2, Zenon
    <3> HIDE DEF l
    <3> QED BY <1>1, <3>3
  <2> QED BY <1>5, <2>1, EditKeeps DEF Suspend
<1> QED BY <1>2, <1>3, <1>4, <1>5

-----------------------------------------------------------------------------
LEMMA KickInit ==
  ASSUME Init
  PROVE  KickInv
<1>1. PICK l \in Limits :
        history = <<[account |-> TRUE, devices |-> Devices, limit |-> l,
                     version |-> [d \in Devices |-> 0]]>>
  BY DEF Init
<1>2. /\ Len(history) = 1 /\ history[1].account /\ history[1].limit = l
      /\ history[1].devices = Devices /\ \A d \in Devices : history[1].version[d] = 0
      /\ history \in Seq(Lists)
  BY <1>1 DEF Lists
<1>3. HistoryOK
  BY <1>2, BoundsAreNat DEF HistoryOK
<1>4. 0 \in Versions
  BY BoundsAreNat DEF Versions
<1>5. NodesOK
  BY <1>2, <1>4 DEF Init, NodesOK, Current
<1>6. redis \in RedisSet /\ \A d \in Devices : redis.kick[d] = 0 /\ redis.v[d] = 0
  <2>1. 0 \in 0 .. Revoked /\ NoLease \in 0 .. NoLease
    BY BoundsAreNat DEF Revoked, NoLease
  <2> QED BY <1>2, <1>4, <2>1 DEF Init, RedisSet
<1>7. GoodRedis(redis)
  BY <1>6 DEF GoodRedis, Live
<1>8. Forgotten
  BY DEF Init, Forgotten, Unknown
<1>9. InPlace
  <2>1. \A n \in Nodes : Told(n) = history[1]
    BY DEF Init, Told
  <2> QED BY <1>2, <1>6, <2>1 DEF InPlace
<1>10. CarriedOK
  BY DEF Init, CarriedOK
<1> QED BY <1>3, <1>5, <1>7, <1>8, <1>9, <1>10 DEF KickInv, ListsOK

LEMMA KickStep ==
  ASSUME KickInv, [Next]_vars
  PROVE  KickInv'
<1>1. ASSUME NEW n \in Nodes, Step(n) PROVE KickInv'
  BY <1>1, SyncUsersKeeps, InstallUsersKeeps, SyncPendingKeeps, BeginKeeps, LocalAnswersKeep,
     AdmitKeeps, EvictKeeps DEF Step
<1>2. ASSUME NEW w \in Watched, VerifyFails(w) \/ Verify(w) \/ Disconnect(w) PROVE KickInv'
  BY <1>2, VerifyKeeps
<1>3. CASE \/ \E d \in Devices : Kick(d) \/ Revoke(d)
           \/ \E l \in Limits : SetLimit(l)
           \/ Suspend
  BY <1>3, PanelKeeps
<1>4. CASE Tick
  BY <1>4, TickKeeps
<1>5. CASE UNCHANGED vars
  <2>1. CarriedOK'
    BY <1>5 DEF KickInv, CarriedOK, vars
  <2> QED BY <1>5, <2>1, SameRedis, RedisStep DEF vars, nodeVars
<1> QED BY <1>1, <1>2, <1>3, <1>4, <1>5 DEF Next

(* The record in Redis is well formed, a device online has the version in     *)
(* force, and what a node has told Redis about is in force there: the inductive *)
(* invariant of the scripts of global.go.                                     *)
THEOREM KickInvariant == Spec => []KickInv
<1>1. Init => KickInv
  BY KickInit
<1>2. KickInv /\ [Next]_vars => KickInv'
  BY KickStep
<1> QED BY <1>1, <1>2, PTL DEF Spec

(* A kick or a removal one node has put in force holds on every node, whatever *)
(* lists the others work with and however often Redis fails.                   *)
THEOREM KickHolds == Spec => []KickedStaysOut
<1>1. KickInv => KickedStaysOut
  <2> SUFFICES ASSUME KickInv, NEW n \in Nodes, NEW d \in Devices, d \in Live(redis),
                      pending[n] = 0, Told(n).account
               PROVE  d \in Told(n).devices /\ redis.v[d] >= Told(n).version[d]
    BY DEF KickedStaysOut, Live
  <2>1. redis.kick[d] >= IF d \in Told(n).devices THEN Told(n).version[d] ELSE Revoked
    BY DEF KickInv, InPlace
  <2>2. /\ redis.v[d] >= redis.kick[d]
        /\ redis.v[d] \in Versions /\ redis.kick[d] \in 0 .. Revoked
    BY DEF KickInv, GoodRedis, RedisSet
  <2>3. Told(n).version[d] \in Versions
    BY ListsFacts DEF KickInv
  <2> QED BY <2>1, <2>2, <2>3, BoundsAreNat DEF Versions, Revoked
<1> QED BY <1>1, KickInvariant, PTL

(* The verified cache holds pairs whose connection is followed. *)
LEMMA VerifiedStep ==
  ASSUME verified \subseteq Watched, [Next]_vars
  PROVE  verified' \subseteq Watched
<1>1. ASSUME NEW n \in Nodes, Step(n) PROVE verified' \subseteq verified
  BY <1>1 DEF Step, SyncUsers, InstallUsers, SyncPending, Begin, AllowLocally, AllowOnError,
              Admit, Ask, Evict
<1>2. ASSUME NEW w \in Watched, VerifyFails(w) \/ Verify(w) \/ Disconnect(w)
      PROVE  verified' \subseteq verified \cup {w}
  BY <1>2 DEF VerifyFails, Verify, Disconnect
<1>3. ASSUME NEW l, Edit(l) PROVE verified' = verified
  BY <1>3 DEF Edit
<1>4. CASE Tick \/ UNCHANGED vars
  BY <1>4 DEF Tick, Remembered, vars
<1> QED BY <1>1, <1>2, <1>3, <1>4 DEF Next, Kick, Revoke, SetLimit, Suspend

(* Every variable keeps its type: lists have limits the panel may give and     *)
(* versions Redis can hold, and each node works with a list there is.          *)
THEOREM GlobalTypes == Spec => []TypeOK
<1>1. Init => verified \subseteq Watched
  BY DEF Init
<1>2. verified \subseteq Watched /\ [Next]_vars => (verified \subseteq Watched)'
  BY VerifiedStep
<1>3. KickInv /\ verified \subseteq Watched => TypeOK
  <2> SUFFICES ASSUME KickInv, verified \subseteq Watched PROVE TypeOK
    OBVIOUS
  <2>1. ListsOK /\ CarriedOK /\ redis \in RedisSet
    BY DEF KickInv, GoodRedis
  <2>2. \A i \in 1 .. Len(history) :
          history[i] \in [account : BOOLEAN, devices : SUBSET Devices,
                          limit : Limits, version : [Devices -> Versions]]
    BY <2>1, ListsFacts DEF Lists
  <2>3. redis \in [kick : [Devices -> Versions \cup {Revoked}], v : [Devices -> Versions],
                   lease : [Devices -> [Nodes -> 0 .. NoLease]],
                   policy : [Devices -> [Nodes -> Limits \cup {NoPolicy}]]]
    <3>1. Versions \cup {Revoked} = 0 .. Revoked
      BY BoundsAreNat DEF Versions, Revoked
    <3> QED BY <2>1, <3>1 DEF RedisSet
  <2>4. \A n \in Nodes : check[n] # Idle =>
          /\ check[n].pc \in {"admit", "ask", "evict"}
          /\ check[n].device \in Devices /\ check[n].version \in Versions
    BY <2>1 DEF CarriedOK, Checks
  <2> QED BY <2>1, <2>2, <2>3, <2>4 DEF TypeOK, ListsOK, HistoryOK, NodesOK, CarriedOK
<1> QED BY <1>1, <1>2, <1>3, KickInvariant, PTL DEF Spec
-----------------------------------------------------------------------------
(* Limits in use                                                           *)

(* A finite set of numbers has a largest one. *)
LEMMA LargestExists ==
  ASSUME NEW T, T \subseteq Nat, T # {}, IsFiniteSet(T)
  PROVE  Max(T) \in T /\ \A x \in T : x <= Max(T)
<1> DEFINE Has(S) == \E x \in S : \A y \in S : x >= y
           Bad == {m \in Nat : \E S \in SUBSET T :
                     S # {} /\ IsFiniteSet(S) /\ Cardinality(S) = m /\ ~Has(S)}
<1>1. ASSUME Bad # {} PROVE FALSE
  <2>1. PICK m \in Bad : \A j \in Bad : ~ (<<j, m>> \in OpToRel(<, Nat))
    BY <1>1, NatLessThanWellFounded, WFMin
  <2>2. PICK S \in SUBSET T : S # {} /\ IsFiniteSet(S) /\ Cardinality(S) = m /\ ~Has(S)
    OBVIOUS
  <2>3. PICK e \in S : TRUE
    BY <2>2
  <2> DEFINE R == S \ {e}
  <2>4. IsFiniteSet(R) /\ Cardinality(R) = m - 1 /\ m - 1 \in Nat
    <3>1. IsFiniteSet(R) /\ Cardinality(R) = Cardinality(S) - 1
      BY <2>2, <2>3, FS_RemoveElement
    <3> QED BY <2>2, <3>1, FS_CardinalityType
  <2>5. m - 1 \notin Bad
    <3>1. <<m - 1, m>>[1] < <<m - 1, m>>[2] /\ <<m - 1, m>> \in Nat \X Nat
      BY <2>4
    <3> QED BY <2>1, <3>1 DEF OpToRel
  <2>6. R = {} \/ Has(R)
    BY <2>4, <2>5
  <2>7. CASE R = {}
    <3>1. S = {e} /\ e >= e
      BY <2>2, <2>7
    <3> QED BY <2>2, <3>1
  <2>8. CASE Has(R)
    <3>1. PICK x \in R : \A y \in R : x >= y
      BY <2>8
    <3>2. x \in Nat /\ e \in Nat /\ S \subseteq Nat
      BY <2>2
    <3>3. CASE x >= e
      <4>1. \A y \in S : x >= y
        BY <3>1, <3>3
      <4> QED BY <2>2, <3>1, <4>1
    <3>4. CASE e > x
      <4>1. \A y \in S : e >= y
        BY <3>1, <3>2, <3>4
      <4> QED BY <2>2, <4>1
    <3> QED BY <3>2, <3>3, <3>4
  <2> QED BY <2>6, <2>7, <2>8
<1>2. Cardinality(T) \notin Bad /\ Cardinality(T) \in Nat
  BY <1>1, FS_CardinalityType
<1>3. Has(T)
  BY <1>2
<1>4. Max(T) \in T /\ \A y \in T : Max(T) >= y
  BY <1>3 DEF Max
<1> QED BY <1>4

(* A set of numbers has a smallest one. *)
LEMMA SmallestExists ==
  ASSUME NEW T, T \subseteq Nat, T # {}
  PROVE  Min(T) \in T /\ \A x \in T : Min(T) <= x
<1>1. PICK m \in T : \A j \in T : ~ (<<j, m>> \in OpToRel(<, Nat))
  BY NatLessThanWellFounded, WFMin
<1>2. ASSUME NEW j \in T PROVE m <= j
  <2>1. <<j, m>> \in Nat \X Nat /\ <<j, m>>[1] = j /\ <<j, m>>[2] = m
    OBVIOUS
  <2>2. ~ (j < m)
    BY <1>1, <2>1 DEF OpToRel
  <2> QED BY <2>2
<1> QED BY <1>2 DEF Min

(* Lists in time: versions of devices never fall, a node fetches what is newer *)
(* than its own, and a check that found the ledger full put its version in     *)
(* force.  A limit uploaded for a device is that of the list the node told     *)
(* Redis about, unless that list is behind a kick already.                     *)
VersionsGrow ==
  \A i, j \in 1 .. Len(history), d \in Devices :
    i <= j => history[i].version[d] <= history[j].version[d]
FetchedNewer == \A n \in Nodes : fetched[n] # 0 => users[n] <= fetched[n]
ChecksOK ==
  \A n \in Nodes : check[n] # Idle =>
    /\ check[n].version <= List(n).version[check[n].device]
    /\ check[n].pc \in {"ask", "evict"} => redis.kick[check[n].device] >= check[n].version
PolicyTold ==
  \A n \in Nodes, d \in Devices : pending[n] = 0 =>
    \/ redis.policy[d][n] \in {NoPolicy, Told(n).limit}
    \/ redis.kick[d] > Told(n).version[d]

LimitInv == VersionsGrow /\ FetchedNewer /\ ChecksOK /\ PolicyTold

(* Limits in use are numbers, and there is a largest one. *)
LEMMA LimitsFacts ==
  ASSUME KickInv, LimitInv, NEW n \in Nodes
  PROVE  /\ Max(LimitsInUse) \in Nat
         /\ \A x \in LimitsInUse : x \in Nat /\ x <= Max(LimitsInUse)
         /\ Told(n).limit \in LimitsInUse
         /\ check[n] \in Checks => check[n].limit \in LimitsInUse
<1> DEFINE I == Min(InUse) .. Len(history)
           F == {history[i].limit : i \in I}
           N == {m \in Nodes : check[m] # Idle}
           C == {check[m].limit : m \in N}
<1>1. /\ Len(history) \in Nat
      /\ \A m \in Nodes : /\ users[m] \in 1 .. Len(history) /\ fetched[m] \in 0 .. Len(history)
                          /\ pending[m] \in 0 .. Len(history)
  BY DEF KickInv, ListsOK, HistoryOK, NodesOK
<1>2. Min(InUse) \in 1 .. Len(history) /\ Min(InUse) <= users[n]
  <2>1. \A i \in InUse : i \in 1 .. Len(history)
    BY <1>1 DEF InUse
  <2>2. users[n] \in InUse /\ InUse \subseteq Nat
    BY <2>1 DEF InUse
  <2> QED BY <2>1, <2>2, SmallestExists
<1>3. LimitsInUse = F \cup C
  BY DEF LimitsInUse
<1>4. Told(n).limit \in F
  <2>1. Current(n) \in I
    <3>1. Current(n) \in 1 .. Len(history) /\ users[n] <= Current(n)
      BY <1>1, ListsFacts DEF Current, KickInv, LimitInv, FetchedNewer
    <3> QED BY <1>1, <1>2, <3>1
  <2>2. Told(n) = history[Current(n)]
    BY DEF Told, Current
  <2> QED BY <2>1, <2>2
<1>5. C \subseteq Limits /\ F \subseteq Limits
  BY <1>1, <1>2, ListsFacts DEF KickInv, CarriedOK, Checks, Lists
<1>6. IsFiniteSet(C)
  <2>1. IsFiniteSet(N)
    BY FiniteSystem, FS_Subset
  <2>2. [m \in N |-> check[m].limit] \in Surjection(N, C)
    BY DEF Surjection
  <2> QED BY <2>1, <2>2, FS_Surjection
<1>7. IsFiniteSet(F)
  <2>1. IsFiniteSet(I)
    BY <1>1, <1>2, FS_Interval
  <2>2. [i \in I |-> history[i].limit] \in Surjection(I, F)
    BY DEF Surjection
  <2> QED BY <2>1, <2>2, FS_Surjection
<1>8. IsFiniteSet(LimitsInUse) /\ LimitsInUse \subseteq Nat /\ LimitsInUse # {}
  BY <1>3, <1>4, <1>5, <1>6, <1>7, FS_Union, LimitsArePositive
<1>9. check[n] \in Checks => check[n].limit \in C
  BY DEF Checks, Idle
<1> HIDE DEF I, F, N, C
<1>10. Max(LimitsInUse) \in LimitsInUse /\ \A x \in LimitsInUse : x <= Max(LimitsInUse)
  BY <1>8, LargestExists
<1> QED BY <1>3, <1>4, <1>8, <1>9, <1>10

-----------------------------------------------------------------------------
(* What the scripts do to the ledger                                       *)

(* Why a slot may go without another device taking its place: a kick, the time, *)
(* or the device is dropped from a node's list.                                *)
Excused(r, q, x) ==
  \/ q.kick[x] > r.kick[x]
  \/ \A n \in Nodes : r.lease[x][n] \in {NoLease, Expiry}
  \/ \E n \in Nodes : r.lease[x][n] # NoLease /\ q.policy[x][n] = NoPolicy

(* kickPrelude takes the slot only with a kick. *)
LEMMA WithKickLosses ==
  ASSUME NEW r, GoodRedis(r), NEW d \in Devices, NEW version \in 0 .. Revoked
  PROVE  LET k == WithKick(r, d, version)
         IN  /\ k.policy = r.policy
             /\ \A x \in Live(r) \ Live(k) : k.kick[x] > r.kick[x]
             /\ version <= r.kick[d] => Live(k) = Live(r)
<1> DEFINE k == WithKick(r, d, version)
           f == Max({version, InForce(r, d)})
<1>1. r \in RedisSet /\ r.kick[d] \in 0 .. Revoked
  BY DEF GoodRedis, RedisSet
<1>2. InForce(r, d) \in 0 .. Revoked /\ InForce(r, d) >= r.kick[d]
  BY <1>1, InForceFacts, BoundsAreNat DEF GoodRedis, RedisSet, Versions, Revoked
<1>3. f = IF version >= InForce(r, d) THEN version ELSE InForce(r, d)
  BY <1>2, MaxOfTwo, BoundsAreNat DEF Revoked
<1>4. /\ k.policy = r.policy /\ k.kick[d] = f
      /\ k.lease = [r.lease EXCEPT ![d] = IF version > InForce(r, d) THEN NoLeases ELSE @]
  BY <1>1 DEF RedisSet, WithKick
<1>5. ASSUME NEW x \in Live(r), x \notin Live(k)
      PROVE  x = d /\ version > InForce(r, d)
  BY <1>1, <1>4, <1>5 DEF Live, RedisSet
<1>6. Live(k) \subseteq Live(r)
  BY <1>1, WithKickLive
<1> HIDE DEF k, f
<1>7. \A x \in Live(r) \ Live(k) : k.kick[x] > r.kick[x]
  BY <1>1, <1>2, <1>3, <1>4, <1>5, BoundsAreNat DEF Revoked
<1>8. version <= r.kick[d] => Live(k) = Live(r)
  BY <1>1, <1>2, <1>5, <1>6, BoundsAreNat DEF Revoked
<1> QED BY <1>4, <1>7, <1>8 DEF k

(* The end of admitScript and evictScript: one device is online, for sure. *)
LEMMA TouchedLive ==
  ASSUME NEW r \in RedisSet, NEW n \in Nodes, NEW d \in Devices, NEW version, NEW set
  PROVE  /\ Live(Touched(r, n, d, version)) = Live(r) \cup {d}
         /\ Live(Evicted(r, set)) = Live(r) \ set
         /\ \A q \in {Touched(r, n, d, version), Evicted(r, set)} :
              q.policy = r.policy /\ q.kick = r.kick
<1>1. Live(Touched(r, n, d, version)) = Live(r) \cup {d}
  <2> DEFINE t == Touched(r, n, d, version)
  <2>1. t.lease = [r.lease EXCEPT ![d][n] = 0] /\ 0 <= Expiry
    BY BoundsAreNat DEF Touched, RedisSet
  <2> HIDE DEF t
  <2>2. \A x \in Devices : x # d => t.lease[x] = r.lease[x]
    BY <2>1 DEF RedisSet
  <2>3. d \in Live(t)
    BY <2>1 DEF Live, RedisSet
  <2>4. Live(t) = Live(r) \cup {d}
    BY <2>2, <2>3 DEF Live
  <2> QED BY <2>4 DEF t
<1>2. Live(Evicted(r, set)) = Live(r) \ set
  <2> DEFINE t == Evicted(r, set)
  <2>1. t.lease = [x \in Devices |-> IF x \in set THEN NoLeases ELSE r.lease[x]]
    BY DEF Evicted, RedisSet
  <2>2. \A m \in Nodes : ~(NoLeases[m] <= Expiry)
    BY BoundsAreNat DEF NoLeases, NoLease
  <2> HIDE DEF t
  <2>3. Live(t) = Live(r) \ set
    BY <2>1, <2>2 DEF Live
  <2> QED BY <2>3 DEF t
<1>3. \A q \in {Touched(r, n, d, version), Evicted(r, set)} :
        q.policy = r.policy /\ q.kick = r.kick
  BY DEF Touched, Evicted, RedisSet
<1> QED BY <1>1, <1>2, <1>3

(* syncKickScript: a slot goes with a kick or with the device; the limit kept  *)
(* for a device is the list's, or the list is behind.                          *)
LEMMA SyncDeviceLosses ==
  ASSUME NEW r, GoodRedis(r), NEW n \in Nodes, NEW d \in Devices, NEW l \in Lists,
         l.version[d] \in Versions, known[n][d] \in Versions \cup {Unknown},
         known[n][d] = Unknown => r.kick[d] = Revoked
  PROVE  LET q == SyncDevice(r, n, d, l)
         IN  /\ \A m \in Nodes : m # n => q.policy[d][m] = r.policy[d][m]
             /\ q.policy[d][n] \in {NoPolicy, l.limit} \/ q.kick[d] > l.version[d]
             /\ d \in Live(r) /\ d \notin Live(q) => Excused(r, q, d)
<1> DEFINE q == SyncDevice(r, n, d, l)
<1>0. r \in RedisSet /\ r.kick[d] \in 0 .. Revoked
  BY DEF GoodRedis, RedisSet
<1>1. CASE d \in Listed(l)
  <2> DEFINE k == WithKick(r, d, l.version[d])
  <2>1. l.version[d] \in 0 .. Revoked
    BY BoundsAreNat DEF Versions, Revoked
  <2>2. /\ k.policy = r.policy /\ k \in RedisSet
        /\ \A x \in Live(r) \ Live(k) : k.kick[x] > r.kick[x]
    BY <2>1, WithKickLosses, WithKickFacts DEF GoodRedis
  <2>3. Obeys(r, d, l.version[d]) \/ k.kick[d] > l.version[d]
    <3>1. InForce(r, d) \in 0 .. Revoked
      BY <1>0, InForceFacts, BoundsAreNat DEF RedisSet, Versions, Revoked
    <3>2. k.kick[d] = Max({l.version[d], InForce(r, d)})
      BY <1>0 DEF RedisSet, WithKick
    <3> QED BY <2>1, <3>1, <3>2, MaxOfTwo, BoundsAreNat DEF Obeys, Revoked
  <2>4. \/ q = k /\ k.kick[d] > l.version[d]
        \/ q = [k EXCEPT !.policy[d][n] = l.limit]
    BY <1>1, <2>3 DEF SyncDevice, SyncListed
  <2> HIDE DEF k, q
  <2>5. q.kick = k.kick /\ q.lease = k.lease
    BY <2>2, <2>4 DEF RedisSet
  <2>6. /\ \A m \in Nodes : m # n => q.policy[d][m] = r.policy[d][m]
        /\ q.policy[d][n] \in {NoPolicy, l.limit} \/ q.kick[d] > l.version[d]
    BY <2>2, <2>4 DEF RedisSet
  <2>7. d \in Live(q) <=> d \in Live(k)
    BY <2>5 DEF Live
  <2> QED BY <2>2, <2>5, <2>6, <2>7 DEF Excused, q
<1>2. CASE d \notin Listed(l) /\ known[n][d] # Unknown
  <2> DEFINE version == IF l.account THEN Revoked ELSE known[n][d]
             k == WithKick(r, d, version)
  <2>1. version \in 0 .. Revoked
    BY <1>2, BoundsAreNat DEF Versions, Revoked
  <2> HIDE DEF version
  <2>2. /\ k.policy = r.policy /\ k \in RedisSet
        /\ \A x \in Live(r) \ Live(k) : k.kick[x] > r.kick[x]
    BY <2>1, WithKickLosses, WithKickFacts DEF GoodRedis
  <2>3. k.lease = r.lease \/ d \notin Live(k)
    <3>1. k.lease = [r.lease EXCEPT ![d] = IF version > InForce(r, d) THEN NoLeases ELSE @]
      BY <1>0 DEF RedisSet, WithKick
    <3>2. \A m \in Nodes : ~(NoLeases[m] <= Expiry)
      BY BoundsAreNat DEF NoLeases, NoLease
    <3> HIDE DEF k
    <3>3. CASE version > InForce(r, d)
      BY <1>0, <3>1, <3>2, <3>3 DEF Live, RedisSet
    <3>4. CASE ~(version > InForce(r, d))
      BY <1>0, <3>1, <3>4 DEF RedisSet
    <3> QED BY <3>3, <3>4
  <2>4. q = [k EXCEPT !.lease[d][n] = NoLease, !.policy[d][n] = NoPolicy]
    BY <1>2 DEF SyncDevice, SyncDropped, version
  <2> HIDE DEF k, q
  <2>5. /\ q.kick = k.kick
        /\ \A m \in Nodes : m # n => q.policy[d][m] = r.policy[d][m] /\ q.lease[d][m] = k.lease[d][m]
        /\ q.policy[d][n] = NoPolicy
    BY <2>2, <2>4 DEF RedisSet
  <2>6. ASSUME d \in Live(r), d \notin Live(q) PROVE Excused(r, q, d)
    <3>1. CASE d \notin Live(k)
      BY <2>2, <2>5, <2>6, <3>1 DEF Excused
    <3>2. CASE k.lease = r.lease
      <4>1. r.lease[d][n] <= Expiry
        BY <2>5, <2>6, <3>2 DEF Live
      <4>2. r.lease[d][n] # NoLease
        BY <4>1, BoundsAreNat DEF NoLease
      <4> QED BY <2>5, <4>2 DEF Excused
    <3> QED BY <2>3, <3>1, <3>2
  <2> QED BY <2>5, <2>6 DEF q
<1>3. CASE d \notin Listed(l) /\ known[n][d] = Unknown
  <2>1. q = r /\ r.kick[d] = Revoked
    BY <1>3 DEF SyncDevice
  <2>2. Revoked > l.version[d]
    BY BoundsAreNat DEF Revoked, Versions
  <2> QED BY <2>1, <2>2
<1> QED BY <1>1, <1>2, <1>3

LEMMA SyncedLosses ==
  ASSUME KickInv, NEW n \in Nodes, NEW l \in Lists,
         \A d \in Devices : l.version[d] \in Versions
  PROVE  LET q == Synced(redis, n, l)
         IN  /\ \A d \in Devices, m \in Nodes : m # n => q.policy[d][m] = redis.policy[d][m]
             /\ \A d \in Devices : q.policy[d][n] \in {NoPolicy, l.limit} \/ q.kick[d] > l.version[d]
             /\ Live(q) \subseteq Live(redis)
             /\ \A d \in Live(redis) \ Live(q) : Excused(redis, q, d)
<1> DEFINE s == Synced(redis, n, l)
           q(d) == SyncDevice(redis, n, d, l)
<1>1. /\ GoodRedis(redis)
      /\ \A d \in Devices : /\ known[n][d] \in Versions \cup {Unknown}
                            /\ known[n][d] = Unknown => redis.kick[d] = Revoked
  BY DEF KickInv, ListsOK, NodesOK, Forgotten
<1>2. ASSUME NEW d \in Devices
      PROVE  /\ \A m \in Nodes : m # n => q(d).policy[d][m] = redis.policy[d][m]
             /\ q(d).policy[d][n] \in {NoPolicy, l.limit} \/ q(d).kick[d] > l.version[d]
             /\ d \in Live(redis) /\ d \notin Live(q(d)) => Excused(redis, q(d), d)
             /\ d \in Live(q(d)) => d \in Live(redis)
  BY <1>1, SyncDeviceLosses, SyncDeviceFacts
<1>3. \A d \in Devices : /\ s.kick[d] = q(d).kick[d] /\ s.lease[d] = q(d).lease[d]
                         /\ s.policy[d] = q(d).policy[d]
  BY DEF Synced
<1> HIDE DEF q, s
<1>4. \A d \in Devices : d \in Live(s) <=> d \in Live(q(d))
  BY <1>3 DEF Live
<1>5. \A d \in Devices : Excused(redis, q(d), d) => Excused(redis, s, d)
  BY <1>3 DEF Excused
<1>6. \A d \in Live(redis) \ Live(s) : Excused(redis, s, d)
  BY <1>2, <1>4, <1>5 DEF Live
<1>7. Live(s) \subseteq Live(redis)
  BY <1>2, <1>4 DEF Live
<1> QED BY <1>2, <1>3, <1>6, <1>7 DEF s
-----------------------------------------------------------------------------
(* What a step does to the ledger                                          *)

(* admitScript and evictScript give the device of a check a slot. *)
AfterKick(n) == WithKick(redis, check[n].device, check[n].version)
Admits(n) ==
  /\ check[n] \in Checks /\ pending[n] = 0
  /\ Obeys(redis, check[n].device, check[n].version)
  /\ ~Full(AfterKick(n), n, check[n].device, check[n].limit)
  /\ redis' = Touched(AfterKick(n), n, check[n].device, check[n].version)
Evicts(n) ==
  /\ check[n] \in Checks /\ check[n].pc = "evict"
  /\ MayEvict(AfterKick(n), n, check[n])
  /\ \E out \in Victims(AfterKick(n), check[n].device, check[n].limit) :
       redis' = Touched(Evicted(AfterKick(n), out), n, check[n].device, check[n].version)
Syncs == \E n \in Nodes, i \in 1 .. Len(history) : redis' = Synced(redis, n, history[i])
Kicks == \E d \in Devices, version \in 0 .. Revoked : redis' = WithKick(redis, d, version)

LEMMA RedisCases ==
  ASSUME KickInv, [Next]_vars
  PROVE  \/ redis' = redis \/ Tick \/ Syncs \/ Kicks
         \/ \E n \in Nodes : Admits(n) \/ Evicts(n)
<1>1. ASSUME NEW n \in Nodes, SyncUsers(n) \/ SyncPending(n) PROVE redis' = redis \/ Syncs
  <2>1. Len(history) \in 1 .. Len(history)
    BY DEF KickInv, ListsOK, HistoryOK
  <2>2. SyncPending(n) => pending[n] \in 1 .. Len(history)
    BY DEF SyncPending, KickInv, ListsOK, NodesOK
  <2> QED BY <1>1, <2>1, <2>2 DEF SyncUsers, SyncPending, Upload, Syncs
<1>2. ASSUME NEW n \in Nodes, Admit(n) PROVE Kicks \/ Admits(n)
  <2>1. check[n] \in Checks
    BY <1>2, Began DEF Admit, KickInv
  <2>2. check[n].device \in Devices /\ check[n].version \in 0 .. Revoked
    BY <2>1, BoundsAreNat DEF Checks, Versions, Revoked
  <2> QED BY <1>2, <2>1, <2>2 DEF Admit, AfterKick, Kicks, Admits, MayAsk
<1>3. ASSUME NEW n \in Nodes, Evict(n) PROVE Kicks \/ Evicts(n)
  <2>1. check[n] \in Checks
    BY <1>3, Began DEF Evict, KickInv
  <2>2. check[n].device \in Devices /\ check[n].version \in 0 .. Revoked
    BY <2>1, BoundsAreNat DEF Checks, Versions, Revoked
  <2> QED BY <1>3, <2>1, <2>2 DEF Evict, AfterKick, Kicks, Evicts
<1>4. ASSUME NEW w \in Watched, Verify(w) PROVE Kicks
  <2>1. w[2] \in Devices /\ conn[w] \in 0 .. Revoked
    BY <1>4, WatchedArePairs, BoundsAreNat
       DEF Verify, Asks, KickInv, CarriedOK, Versions, NoConn, Revoked
  <2> QED BY <1>4, <2>1 DEF Verify, Kicks
<1>5. ASSUME NEW n \in Nodes,
             \/ InstallUsers(n) \/ AllowLocally(n) \/ AllowOnError(n) \/ Ask(n)
             \/ \E d \in Devices, reclaim \in BOOLEAN : Begin(n, d, reclaim)
      PROVE  redis' = redis
  BY <1>5 DEF InstallUsers, AllowLocally, AllowOnError, Ask, Begin
<1>6. ASSUME NEW w \in Watched, VerifyFails(w) \/ Disconnect(w) PROVE redis' = redis
  BY <1>6 DEF VerifyFails, Disconnect
<1>7. ASSUME NEW l, Edit(l) PROVE redis' = redis
  BY <1>7 DEF Edit
<1>8. UNCHANGED vars => redis' = redis
  BY DEF vars
<1> QED BY <1>1, <1>2, <1>3, <1>4, <1>5, <1>6, <1>7, <1>8
        DEF Next, Step, Kick, Revoke, SetLimit, Suspend

(* The prelude of a check of a node. *)
LEMMA AfterKickFacts ==
  ASSUME KickInv, NEW n \in Nodes, check[n] \in Checks
  PROVE  LET k == AfterKick(n)
             c == check[n]
         IN  /\ GoodRedis(k) /\ k \in RedisSet /\ KicksGrow(redis, k)
             /\ k.policy = redis.policy
             /\ Live(k) \subseteq Live(redis)
             /\ \A x \in Live(redis) \ Live(k) : k.kick[x] > redis.kick[x]
             /\ c.version <= redis.kick[c.device] => Live(k) = Live(redis)
             /\ Obeys(redis, c.device, c.version) => k.kick[c.device] = c.version
<1>1. check[n].device \in Devices /\ check[n].version \in 0 .. Revoked /\ GoodRedis(redis)
  BY BoundsAreNat DEF KickInv, Checks, Versions, Revoked
<1> QED BY <1>1, WithKickFacts, WithKickLosses, WithKickLive DEF AfterKick, GoodRedis

(* Devices are finitely many, so those that are online can be counted. *)
LEMMA LiveFinite ==
  ASSUME NEW r, NEW T, T \subseteq Live(r)
  PROVE  IsFiniteSet(T) /\ Cardinality(T) \in Nat /\ IsFiniteSet(Live(r)) /\ Cardinality(Live(r)) \in Nat
BY FiniteSystem, FS_Subset, FS_CardinalityType DEF Live

(* How many devices evictScript takes away, and whose grant that takes. *)
LEMMA VictimsFacts ==
  ASSUME NEW r, NEW d, NEW limit \in Nat \ {0}, NEW out \in Victims(r, d, limit)
  PROVE  /\ out \subseteq Live(r)
         /\ d \notin Live(r) => Cardinality(Live(r) \ out) < limit
         /\ out # {} => /\ d \notin Live(r) /\ Cardinality(Live(r)) >= limit
                        /\ {} \notin Victims(r, d, limit)
<1> DEFINE m == Cardinality(Live(r)) - limit + 1
<1>1. CASE d \in Live(r) \/ Cardinality(Live(r)) < limit
  <2>1. out = {} /\ Live(r) \ {} = Live(r)
    BY <1>1 DEF Victims
  <2> QED BY <1>1, <2>1
<1>2. CASE d \notin Live(r) /\ ~(Cardinality(Live(r)) < limit)
  <2>1. out \in SUBSET Live(r) /\ Cardinality(out) = m
    BY <1>2 DEF Victims, kSubset
  <2>2. /\ IsFiniteSet(Live(r)) /\ Cardinality(Live(r)) \in Nat
        /\ IsFiniteSet(out) /\ IsFiniteSet(Live(r) \cap out)
    BY <2>1, LiveFinite
  <2>3. Cardinality(Live(r)) >= limit /\ m # 0
    BY <1>2, <2>2
  <2>4. Cardinality(Live(r) \ out) = Cardinality(Live(r)) - m
    <3>1. Live(r) \cap out = out
      BY <2>1
    <3>2. Cardinality(Live(r) \ out) = Cardinality(Live(r)) - Cardinality(Live(r) \cap out)
      BY <2>2, FS_Difference
    <3> QED BY <2>1, <3>1, <3>2
  <2>5. {} \notin Victims(r, d, limit)
    BY <1>2, <2>3, FS_EmptySet DEF Victims, kSubset
  <2> HIDE DEF m
  <2>6. Cardinality(Live(r) \ out) < limit
    BY <2>2, <2>4 DEF m
  <2> QED BY <1>2, <2>1, <2>3, <2>5, <2>6
<1> QED BY <1>1, <1>2

-----------------------------------------------------------------------------
(* Lists in time.                                                          *)

(* A step on the record and the checks: what is told stays. *)
LEMMA LimitFrame ==
  ASSUME KickInv, LimitInv, KickInv', UNCHANGED <<history, nodeVars>>,
         KicksGrow(redis, redis'), redis'.policy = redis.policy, ChecksOK'
  PROVE  LimitInv'
<1>1. VersionsGrow' /\ FetchedNewer'
  BY DEF LimitInv, VersionsGrow, FetchedNewer, nodeVars
<1>2. ASSUME NEW n \in Nodes, NEW d \in Devices, pending[n] = 0
      PROVE  redis'.policy[d][n] \in {NoPolicy, Told(n).limit} \/ redis'.kick[d] > Told(n).version[d]
  <2>1. redis.kick[d] \in 0 .. Revoked /\ redis'.kick[d] \in 0 .. Revoked
    BY DEF KickInv, GoodRedis, RedisSet
  <2>2. Told(n).version[d] \in Versions
    BY ListsFacts DEF KickInv
  <2>3. redis.policy[d][n] \in {NoPolicy, Told(n).limit} \/ redis.kick[d] > Told(n).version[d]
    BY <1>2 DEF LimitInv, PolicyTold
  <2>4. redis'.kick[d] >= redis.kick[d]
    BY DEF KicksGrow
  <2> QED BY <2>1, <2>2, <2>3, <2>4, BoundsAreNat DEF Versions, Revoked
<1>3. PolicyTold'
  BY <1>2 DEF PolicyTold, Told, nodeVars
<1> QED BY <1>1, <1>3 DEF LimitInv

(* Checks end, or go on with the version they have. *)
LEMMA ChecksStep ==
  ASSUME KickInv, ChecksOK, UNCHANGED <<history, users>>, KickInv', KicksGrow(redis, redis'),
         \A n \in Nodes :
           \/ check'[n] \in {check[n], Idle}
           \/ /\ check[n] # Idle
              /\ check'[n].device = check[n].device /\ check'[n].version = check[n].version
              /\ check'[n].pc \in {"ask", "evict"} =>
                   redis'.kick[check[n].device] >= check[n].version
  PROVE  ChecksOK'
<1> SUFFICES ASSUME NEW n \in Nodes, check'[n] # Idle
             PROVE  /\ check'[n].version <= List(n)'.version[check'[n].device]
                    /\ check'[n].pc \in {"ask", "evict"} =>
                         redis'.kick[check'[n].device] >= check'[n].version
  BY DEF ChecksOK
<1>1. List(n)' = List(n)
  BY DEF List
<1>2. CASE check'[n] = check[n]
  <2>1. check[n].device \in Devices /\ check[n].version \in Versions
    BY <1>2 DEF KickInv, CarriedOK, Checks
  <2>2. redis.kick[check[n].device] \in 0 .. Revoked /\ redis'.kick[check[n].device] \in 0 .. Revoked
    BY <2>1 DEF KickInv, GoodRedis, RedisSet
  <2>3. redis'.kick[check[n].device] >= redis.kick[check[n].device]
    BY <2>1 DEF KicksGrow
  <2> QED BY <1>1, <1>2, <2>1, <2>2, <2>3, BoundsAreNat DEF ChecksOK, Versions, Revoked
<1>3. CASE check'[n] # check[n]
  BY <1>1, <1>3 DEF ChecksOK
<1> QED BY <1>2, <1>3

(* The two scripts that give a slot, in terms of the ledger. *)
LEMMA AdmitsFacts ==
  ASSUME KickInv, NEW n \in Nodes, Admits(n)
  PROVE  /\ Live(redis') = Live(AfterKick(n)) \cup {check[n].device}
         /\ redis'.policy = redis.policy /\ redis'.kick = AfterKick(n).kick
<1>1. AfterKick(n) \in RedisSet /\ AfterKick(n).policy = redis.policy
  BY AfterKickFacts DEF Admits
<1>2. check[n].device \in Devices
  BY DEF Admits, Checks
<1> QED BY <1>1, <1>2, TouchedLive DEF Admits

LEMMA EvictsFacts ==
  ASSUME KickInv, NEW n \in Nodes, Evicts(n)
  PROVE  \E out \in Victims(AfterKick(n), check[n].device, check[n].limit) :
           /\ Live(redis') = (Live(AfterKick(n)) \ out) \cup {check[n].device}
           /\ redis'.policy = redis.policy /\ redis'.kick = AfterKick(n).kick
<1> DEFINE k == AfterKick(n)
<1>1. k \in RedisSet /\ GoodRedis(k) /\ k.policy = redis.policy
  BY AfterKickFacts DEF Evicts
<1>2. check[n].device \in Devices
  BY DEF Evicts, Checks
<1>3. PICK out \in Victims(k, check[n].device, check[n].limit) :
        redis' = Touched(Evicted(k, out), n, check[n].device, check[n].version)
  BY DEF Evicts
<1>4. Evicted(k, out) \in RedisSet
  BY <1>1, EvictedFacts DEF GoodRedis
<1> HIDE DEF k
<1>5. Live(Evicted(k, out)) = Live(k) \ out /\ Evicted(k, out).policy = k.policy
      /\ Evicted(k, out).kick = k.kick
  BY <1>1, <1>2, TouchedLive
<1>6. /\ Live(redis') = Live(Evicted(k, out)) \cup {check[n].device}
      /\ redis'.policy = Evicted(k, out).policy /\ redis'.kick = Evicted(k, out).kick
  BY <1>2, <1>3, <1>4, TouchedLive
<1> QED BY <1>1, <1>3, <1>5, <1>6 DEF k

(* Kicks in force never fall, and only an upload changes the limits kept. *)
LEMMA RedisGrows ==
  ASSUME KickInv, [Next]_vars
  PROVE  KicksGrow(redis, redis') /\ (Syncs \/ redis'.policy = redis.policy)
<1>0. GoodRedis(redis) /\ redis \in RedisSet
  BY DEF KickInv, GoodRedis
<1>1. CASE redis' = redis
  BY <1>1, SameRedis
<1>2. CASE Tick
  <2>1. redis'.kick = redis.kick /\ redis'.policy = redis.policy
    BY <1>0, <1>2 DEF Tick, RedisSet
  <2> QED BY <1>0, <2>1, BoundsAreNat DEF KicksGrow, RedisSet, Revoked
<1>3. CASE Syncs
  <2>1. PICK n \in Nodes, i \in 1 .. Len(history) : redis' = Synced(redis, n, history[i])
    BY <1>3 DEF Syncs
  <2>2. /\ history[i] \in Lists /\ \A d \in Devices : history[i].version[d] \in Versions
        /\ \A d \in Devices : known[n][d] \in Versions \cup {Unknown}
    BY ListsFacts DEF KickInv, ListsOK, NodesOK
  <2> QED BY <1>0, <1>3, <2>1, <2>2, SyncedFacts
<1>4. CASE Kicks
  BY <1>0, <1>4, WithKickFacts, WithKickLosses DEF Kicks
<1>5. ASSUME NEW n \in Nodes, Admits(n) \/ Evicts(n)
      PROVE  KicksGrow(redis, redis') /\ redis'.policy = redis.policy
  <2>1. KicksGrow(redis, AfterKick(n))
    BY <1>5, AfterKickFacts DEF Admits, Evicts
  <2>2. redis'.policy = redis.policy /\ redis'.kick = AfterKick(n).kick
    BY <1>5, AdmitsFacts, EvictsFacts
  <2> QED BY <2>1, <2>2 DEF KicksGrow
<1> QED BY <1>1, <1>2, <1>3, <1>4, <1>5, RedisCases

LEMMA LimitCheckKeeps ==
  ASSUME KickInv, LimitInv, KickInv', KicksGrow(redis, redis'), NEW n \in Nodes,
         \/ \E d \in Devices, reclaim \in BOOLEAN : Begin(n, d, reclaim)
         \/ AllowLocally(n) \/ AllowOnError(n) \/ Admit(n) \/ Ask(n) \/ Evict(n)
  PROVE  ChecksOK'
<1> USE DEF LimitInv
<1>1. /\ UNCHANGED <<history, users>>
      /\ check \in [Nodes -> Checks \cup {Idle}]
  BY DEF Begin, AllowLocally, AllowOnError, Admit, Ask, Evict, nodeVars, KickInv, CarriedOK
<1>2. ASSUME NEW d \in Devices, NEW reclaim \in BOOLEAN, Begin(n, d, reclaim) PROVE ChecksOK'
  <2>1. /\ check' = [check EXCEPT ![n] =
               [pc |-> "admit", device |-> d, version |-> List(n).version[d],
                limit |-> List(n).limit, new |-> reclaim, reclaim |-> reclaim, granted |-> FALSE]]
        /\ redis' = redis
    BY <1>2 DEF Begin
  <2>2. List(n).version[d] \in Versions
    BY ListsFacts DEF KickInv
  <2>3. check'[n].device = d /\ check'[n].version = List(n).version[d] /\ check'[n].pc = "admit"
    BY <1>1, <2>1
  <2>4. \A m \in Nodes : m # n => check'[m] = check[m]
    BY <1>1, <2>1
  <2>5. \A m \in Nodes : List(m)' = List(m)
    BY <1>1 DEF List
  <2>6. List(n).version[d] <= List(n).version[d]
    BY <2>2 DEF Versions
  <2> QED BY <2>1, <2>3, <2>4, <2>5, <2>6 DEF ChecksOK
<1>3. ASSUME check[n] \in Checks, \E allowed \in BOOLEAN : End(n, allowed) PROVE ChecksOK'
  BY <1>1, <1>3, ChecksStep DEF End
<1>4. ASSUME check[n] \in Checks, NEW reclaim, Retry(n, reclaim) PROVE ChecksOK'
  <2>1. /\ check'[n].device = check[n].device /\ check'[n].version = check[n].version
        /\ check'[n].pc = "admit" /\ check[n] # Idle
        /\ \A m \in Nodes : m # n => check'[m] = check[m]
    BY <1>1, <1>4 DEF Retry, Checks, Idle
  <2> QED BY <1>1, <2>1, ChecksStep
<1>5. ASSUME check[n] \in Checks, redis'.kick[check[n].device] >= check[n].version,
             NEW pc, NEW granted, NEW limit,
             \/ check' = [check EXCEPT ![n].pc = pc, ![n].granted = granted, ![n].limit = limit]
             \/ check' = [check EXCEPT ![n].pc = pc]
      PROVE  ChecksOK'
  <2>1. /\ check'[n].device = check[n].device /\ check'[n].version = check[n].version
        /\ check[n] # Idle
        /\ \A m \in Nodes : m # n => check'[m] = check[m]
    BY <1>1, <1>5 DEF Checks, Idle
  <2> QED BY <1>1, <1>5, <2>1, ChecksStep
<1>6. ASSUME check[n] \in Checks, NEW reclaim, RefuseOrRetry(n, reclaim) PROVE ChecksOK'
  BY <1>3, <1>4, <1>6 DEF RefuseOrRetry, Refuse
<1>7. CASE AllowLocally(n) \/ AllowOnError(n)
  <2>1. check[n] \in Checks /\ End(n, TRUE)
    BY <1>7, Began DEF AllowLocally, AllowOnError, KickInv, Allow
  <2> QED BY <1>3, <2>1
<1>8. CASE Ask(n)
  <2>1. check[n] \in Checks /\ check[n].device \in Devices
    BY <1>8, Began DEF Ask, KickInv, Checks
  <2>2. CASE Refuse(n)
    BY <1>3, <2>1, <2>2 DEF Refuse
  <2>3. CASE ~Refuse(n)
    <3>1. PICK granted \in BOOLEAN :
            check' = [check EXCEPT ![n].pc = "evict", ![n].granted = granted,
                                   ![n].limit = List(n).limit]
      BY <1>8, <2>3 DEF Ask
    <3>2. redis' = redis /\ redis.kick[check[n].device] >= check[n].version
      <4>1. check[n].pc = "ask" /\ check[n] # Idle /\ redis' = redis
        <5>1. Idle.pc = "idle"
          BY DEF Idle
        <5>2. check[n].pc = "ask" /\ redis' = redis
          BY <1>8 DEF Ask
        <5> QED BY <5>1, <5>2
      <4> QED BY <4>1 DEF ChecksOK
    <3> QED BY <1>5, <2>1, <3>1, <3>2
  <2> QED BY <2>2, <2>3
<1>9. CASE Admit(n)
  <2>1. check[n] \in Checks
    BY <1>9, Began DEF Admit, KickInv
  <2>2. \/ \E reclaim : RefuseOrRetry(n, reclaim)
        \/ Allow(n)
        \/ /\ Obeys(redis, check[n].device, check[n].version)
           /\ redis' = AfterKick(n) /\ FindsFull(n)
    BY <1>9 DEF Admit, AfterKick
  <2>3. CASE /\ Obeys(redis, check[n].device, check[n].version)
             /\ redis' = AfterKick(n) /\ FindsFull(n)
    <3>1. redis'.kick[check[n].device] >= check[n].version
      <4>1. redis'.kick[check[n].device] = check[n].version
        BY <2>1, <2>3, AfterKickFacts
      <4> QED BY <2>1, <4>1 DEF Checks, Versions
    <3>2. \/ Refuse(n) \/ \E reclaim : Retry(n, reclaim)
          \/ \E pc : check' = [check EXCEPT ![n].pc = pc]
      BY <2>3 DEF FindsFull
    <3> QED BY <1>3, <1>4, <1>5, <2>1, <3>1, <3>2 DEF Refuse
  <2> QED BY <1>3, <1>6, <2>1, <2>2, <2>3 DEF Allow
<1>10. CASE Evict(n)
  <2>1. check[n] \in Checks
    BY <1>10, Began DEF Evict, KickInv
  <2> QED BY <1>3, <1>6, <1>10, <2>1 DEF Evict, Allow
<1> QED BY <1>2, <1>7, <1>8, <1>9, <1>10

(* The services of a node take the list it fetched, which is no older. *)
LEMMA LimitInstallKeeps ==
  ASSUME KickInv, LimitInv, KickInv', NEW n \in Nodes, InstallUsers(n)
  PROVE  LimitInv'
<1>1. /\ users \in [Nodes -> 1 .. Len(history)] /\ fetched \in [Nodes -> 0 .. Len(history)]
      /\ fetched[n] # 0 /\ Len(history) \in Nat /\ users[n] <= fetched[n]
  BY DEF InstallUsers, KickInv, ListsOK, HistoryOK, NodesOK, LimitInv, FetchedNewer
<1>2. /\ users' = [users EXCEPT ![n] = fetched[n]] /\ fetched' = [fetched EXCEPT ![n] = 0]
      /\ UNCHANGED <<history, redis, pending, check>>
  BY DEF InstallUsers
<1>3. \A m \in Nodes : Told(m)' = Told(m)
  BY <1>1, <1>2 DEF Told
<1>4. FetchedNewer'
  BY <1>1, <1>2 DEF LimitInv, FetchedNewer
<1>5. ASSUME NEW m \in Nodes, check[m] # Idle
      PROVE  check[m].version <= List(m)'.version[check[m].device]
  <2>1. check[m].device \in Devices /\ check[m].version \in Versions
    BY <1>5 DEF KickInv, CarriedOK, Checks
  <2>2. check[m].version <= List(m).version[check[m].device]
    BY <1>5 DEF LimitInv, ChecksOK
  <2>3. users[m] \in 1 .. Len(history) /\ users'[m] \in 1 .. Len(history) /\ users[m] <= users'[m]
    BY <1>1, <1>2
  <2>4. List(m).version[check[m].device] <= List(m)'.version[check[m].device]
    BY <1>2, <2>1, <2>3 DEF LimitInv, VersionsGrow, List
  <2>5. List(m).version[check[m].device] \in Versions /\ List(m)'.version[check[m].device] \in Versions
    <3>1. \A i \in 1 .. Len(history) : history[i].version[check[m].device] \in Versions
      BY <2>1, ListsFacts DEF KickInv
    <3> QED BY <1>2, <2>3, <3>1 DEF List
  <2> QED BY <2>1, <2>2, <2>4, <2>5 DEF Versions
<1>6. ChecksOK'
  BY <1>2, <1>5 DEF LimitInv, ChecksOK
<1>7. VersionsGrow' /\ PolicyTold'
  BY <1>2, <1>3 DEF LimitInv, VersionsGrow, PolicyTold
<1> QED BY <1>4, <1>6, <1>7 DEF LimitInv

(* An upload: what a node keeps for a device is then of the list it told. *)
LEMMA LimitUploadKeeps ==
  ASSUME KickInv, LimitInv, KickInv', KicksGrow(redis, redis'),
         NEW n \in Nodes, NEW i \in 1 .. Len(history), Upload(n, i),
         UNCHANGED <<history, users, check>>,
         \/ fetched[n] = 0 /\ fetched' = [fetched EXCEPT ![n] = i] /\ i = Len(history)
         \/ fetched' = fetched /\ i = pending[n]
  PROVE  LimitInv'
<1>1. /\ users \in [Nodes -> 1 .. Len(history)] /\ fetched \in [Nodes -> 0 .. Len(history)]
      /\ pending \in [Nodes -> 0 .. Len(history)] /\ Len(history) \in Nat
      /\ pending[n] \in {0, Current(n)}
  BY DEF KickInv, ListsOK, HistoryOK, NodesOK
<1>2. /\ \A m \in Nodes : m # n => Told(m)' = Told(m) /\ pending'[m] = pending[m]
      /\ Told(n)' = history[i]
  BY <1>1 DEF Told, Current, Upload
<1>3. FetchedNewer'
  BY <1>1 DEF LimitInv, FetchedNewer
<1>4. ChecksOK'
  <2>1. \A m \in Nodes : check'[m] \in {check[m], Idle}
    OBVIOUS
  <2> QED BY <2>1, ChecksStep DEF LimitInv
<1>5. ASSUME NEW m \in Nodes, NEW d \in Devices, pending'[m] = 0
      PROVE  redis'.policy[d][m] \in {NoPolicy, Told(m)'.limit} \/ redis'.kick[d] > Told(m)'.version[d]
  <2>1. history[i] \in Lists /\ \A x \in Devices : history[i].version[x] \in Versions
    BY ListsFacts DEF KickInv
  <2>2. CASE m = n
    <3>1. redis' = Synced(redis, n, history[i])
      BY <1>1, <1>5, <2>2 DEF Upload
    <3>2. redis'.policy[d][n] \in {NoPolicy, history[i].limit} \/ redis'.kick[d] > history[i].version[d]
      BY <2>1, <3>1, SyncedLosses
    <3> QED BY <1>2, <2>2, <3>2
  <2>3. CASE m # n
    <3>1. redis'.policy[d][m] = redis.policy[d][m]
      BY <2>1, <2>3, SyncedLosses DEF Upload
    <3>2. redis.policy[d][m] \in {NoPolicy, Told(m).limit} \/ redis.kick[d] > Told(m).version[d]
      BY <1>2, <1>5, <2>3 DEF LimitInv, PolicyTold
    <3>3. /\ redis.kick[d] \in 0 .. Revoked /\ redis'.kick[d] \in 0 .. Revoked
          /\ redis'.kick[d] >= redis.kick[d]
      BY DEF KickInv, GoodRedis, RedisSet, KicksGrow
    <3>4. Told(m).version[d] \in Versions
      BY ListsFacts DEF KickInv
    <3> QED BY <1>2, <2>3, <3>1, <3>2, <3>3, <3>4, BoundsAreNat DEF Versions, Revoked
  <2> QED BY <2>2, <2>3
<1>6. PolicyTold' /\ VersionsGrow'
  BY <1>5 DEF PolicyTold, LimitInv, VersionsGrow
<1> QED BY <1>3, <1>4, <1>6 DEF LimitInv

(* The panel's changes never lower a version. *)
LEMMA LimitEditKeeps ==
  ASSUME KickInv, LimitInv, KickInv', NEW l, Edit(l),
         \A d \in Devices : l.version[d] >= Latest.version[d]
  PROVE  LimitInv'
<1>1. /\ history \in Seq(Lists) /\ Len(history) \in Nat \ {0} /\ history' \in Seq(Lists)
      /\ history' = Append(history, l) /\ UNCHANGED <<redis, nodeVars, check>>
  BY DEF KickInv, ListsOK, HistoryOK, Edit
<1>2. /\ Len(history') = Len(history) + 1 /\ history'[Len(history) + 1] = l
      /\ \A i \in 1 .. Len(history) : history'[i] = history[i]
  BY <1>1
<1>3. \A n \in Nodes : List(n)' = List(n) /\ Told(n)' = Told(n)
  <2>1. \A n \in Nodes : Current(n) \in 1 .. Len(history) /\ users[n] \in 1 .. Len(history)
    BY ListsFacts DEF KickInv, ListsOK, NodesOK
  <2>2. \A n \in Nodes : /\ Told(n)' = history'[Current(n)] /\ Told(n) = history[Current(n)]
                        /\ List(n)' = history'[users[n]] /\ List(n) = history[users[n]]
    BY <1>1 DEF Told, Current, List, nodeVars
  <2> QED BY <1>2, <2>1, <2>2
<1>4. FetchedNewer' /\ ChecksOK' /\ PolicyTold'
  BY <1>1, <1>3 DEF LimitInv, FetchedNewer, ChecksOK, PolicyTold, nodeVars
<1>5. ASSUME NEW i \in 1 .. Len(history'), NEW j \in 1 .. Len(history'), NEW d \in Devices, i <= j
      PROVE  history'[i].version[d] <= history'[j].version[d]
  <2>1. \A x \in 1 .. Len(history') : history'[x].version[d] \in Nat
    <3>1. \A x \in 1 .. Len(history') : history'[x] \in Lists
      BY <1>1
    <3> QED BY <3>1 DEF Lists
  <2>2. CASE j \in 1 .. Len(history)
    BY <1>1, <1>2, <1>5, <2>2 DEF LimitInv, VersionsGrow
  <2>3. CASE j = Len(history) + 1 /\ i # j
    <3>1. i \in 1 .. Len(history) /\ Len(history) \in 1 .. Len(history) /\ i <= Len(history)
      BY <1>1, <1>2, <1>5, <2>3
    <3>2. history'[i].version[d] <= history'[Len(history)].version[d]
      BY <1>2, <3>1 DEF LimitInv, VersionsGrow
    <3>3. history'[Len(history)].version[d] <= history'[j].version[d]
      <4>1. history'[Len(history)] = Latest
        BY <1>2, <3>1 DEF Latest
      <4>2. l.version[d] >= Latest.version[d] /\ history'[j] = l
        BY <1>2, <2>3
      <4> QED BY <4>1, <4>2
    <3>4. Len(history) \in 1 .. Len(history')
      BY <1>2, <3>1
    <3> QED BY <2>1, <3>2, <3>3, <3>4
  <2>4. CASE i = j
    BY <2>1, <2>4
  <2> QED BY <1>1, <1>2, <2>2, <2>3, <2>4
<1>6. VersionsGrow'
  BY <1>5 DEF VersionsGrow
<1> QED BY <1>4, <1>6 DEF LimitInv

LEMMA LimitInit ==
  ASSUME Init
  PROVE  LimitInv
<1>1. PICK l \in Limits :
        history = <<[account |-> TRUE, devices |-> Devices, limit |-> l,
                     version |-> [d \in Devices |-> 0]]>>
  BY DEF Init
<1>2. /\ Len(history) = 1 /\ history[1].limit = l
      /\ \A d \in Devices : history[1].version[d] = 0
  BY <1>1
<1>3. VersionsGrow
  BY <1>2 DEF VersionsGrow
<1>4. FetchedNewer /\ ChecksOK
  BY DEF Init, FetchedNewer, ChecksOK
<1>5. PolicyTold
  <2>1. \A n \in Nodes : Told(n) = history[1]
    BY DEF Init, Told
  <2>2. \A d \in Devices, n \in Nodes : pending[n] = 0 => redis.policy[d][n] = history[1].limit
    BY DEF Init
  <2> QED BY <2>1, <2>2 DEF PolicyTold
<1> QED BY <1>3, <1>4, <1>5 DEF LimitInv

LEMMA LimitStep ==
  ASSUME KickInv, LimitInv, [Next]_vars
  PROVE  LimitInv'
<1>0. KickInv' /\ KicksGrow(redis, redis')
  BY KickStep, RedisGrows
<1>1. ASSUME NEW n \in Nodes,
             \/ \E d \in Devices, reclaim \in BOOLEAN : Begin(n, d, reclaim)
             \/ AllowLocally(n) \/ AllowOnError(n) \/ Admit(n) \/ Ask(n) \/ Evict(n)
      PROVE  LimitInv'
  <2>1. UNCHANGED <<history, nodeVars>>
    BY <1>1 DEF Begin, AllowLocally, AllowOnError, Admit, Ask, Evict
  <2>2. redis'.policy = redis.policy
    <3>1. CASE Admit(n) \/ Evict(n)
      <4>1. check[n] \in Checks
        BY <3>1, Began DEF Admit, Evict, KickInv
      <4>2. Admits(n) \/ Evicts(n) \/ redis' = AfterKick(n)
        BY <3>1, <4>1 DEF Admit, Evict, Admits, Evicts, AfterKick, MayAsk
      <4> QED BY <4>1, <4>2, AdmitsFacts, EvictsFacts, AfterKickFacts
    <3>2. CASE ~(Admit(n) \/ Evict(n))
      BY <1>1, <3>2 DEF Begin, AllowLocally, AllowOnError, Ask
    <3> QED BY <3>1, <3>2
  <2> QED BY <1>0, <1>1, <2>1, <2>2, LimitCheckKeeps, LimitFrame
<1>2. ASSUME NEW n \in Nodes, InstallUsers(n) PROVE LimitInv'
  BY <1>0, <1>2, LimitInstallKeeps
<1>3. ASSUME NEW n \in Nodes, SyncUsers(n) PROVE LimitInv'
  <2>1. Len(history) \in 1 .. Len(history)
    BY DEF KickInv, ListsOK, HistoryOK
  <2> QED BY <1>0, <1>3, <2>1, LimitUploadKeeps DEF SyncUsers
<1>4. ASSUME NEW n \in Nodes, SyncPending(n) PROVE LimitInv'
  <2>1. pending[n] \in 1 .. Len(history)
    BY <1>4 DEF SyncPending, KickInv, ListsOK, NodesOK
  <2> QED BY <1>0, <1>4, <2>1, LimitUploadKeeps DEF SyncPending
<1>5. CASE UNCHANGED <<history, nodeVars, check>> /\ redis'.policy = redis.policy
  <2>1. \A m \in Nodes : check'[m] \in {check[m], Idle}
    BY <1>5
  <2>2. ChecksOK'
    BY <1>0, <1>5, <2>1, ChecksStep DEF LimitInv, nodeVars
  <2> QED BY <1>0, <1>5, <2>2, LimitFrame
<1>6. ASSUME NEW w \in Watched, VerifyFails(w) \/ Verify(w) \/ Disconnect(w) PROVE LimitInv'
  <2>1. UNCHANGED <<history, nodeVars, check>>
    BY <1>6 DEF VerifyFails, Verify, Disconnect
  <2>2. redis'.policy = redis.policy
    BY <1>6 DEF VerifyFails, Verify, Disconnect, WithKick, KickInv, GoodRedis, RedisSet
  <2> QED BY <1>5, <2>1, <2>2
<1>7. CASE Tick \/ UNCHANGED vars
  <2>1. UNCHANGED <<history, nodeVars, check>>
    BY <1>7 DEF Tick, vars, nodeVars
  <2>2. redis'.policy = redis.policy
    BY <1>7 DEF Tick, vars, KickInv, GoodRedis, RedisSet
  <2> QED BY <1>5, <2>1, <2>2
<1>8. CASE \/ \E d \in Devices : Kick(d) \/ Revoke(d)
           \/ \E x \in Limits : SetLimit(x)
           \/ Suspend
  <2>1. Latest \in Lists /\ \A d \in Devices : Latest.version[d] \in Nat
    <3>1. Len(history) \in 1 .. Len(history)
      BY DEF KickInv, ListsOK, HistoryOK
    <3> QED BY <3>1, ListsFacts DEF KickInv, Latest, Lists
  <2>2. ASSUME NEW d \in Devices, Kick(d) PROVE LimitInv'
    <3> DEFINE l == [Latest EXCEPT !.version[d] = @ + 1]
    <3>1. Edit(l) /\ \A x \in Devices : l.version[x] >= Latest.version[x]
      BY <2>1, <2>2 DEF Kick, Lists
    <3> QED BY <1>0, <3>1, LimitEditKeeps
  <2>3. ASSUME NEW l, Edit(l), l.version = Latest.version PROVE LimitInv'
    BY <1>0, <2>1, <2>3, LimitEditKeeps
  <2>4. ASSUME NEW d \in Devices, Revoke(d) PROVE LimitInv'
    <3>1. [Latest EXCEPT !.devices = @ \ {d}].version = Latest.version
      BY <2>1 DEF Lists
    <3> QED BY <2>3, <2>4, <3>1 DEF Revoke
  <2>5. ASSUME NEW x \in Limits, SetLimit(x) PROVE LimitInv'
    <3>1. [Latest EXCEPT !.limit = x].version = Latest.version
      BY <2>1 DEF Lists
    <3> QED BY <2>3, <2>5, <3>1 DEF SetLimit
  <2>6. ASSUME Suspend PROVE LimitInv'
    <3>1. [Latest EXCEPT !.account = ~@].version = Latest.version
      BY <2>1 DEF Lists
    <3> QED BY <2>3, <2>6, <3>1 DEF Suspend
  <2> QED BY <1>8, <2>2, <2>4, <2>5, <2>6
<1> QED BY <1>1, <1>2, <1>3, <1>4, <1>6, <1>7, <1>8 DEF Next, Step

(* Versions grow from list to list, a check that found the ledger full has its *)
(* version in force, and a limit in Redis is the one of the node's last list   *)
(* unless an upload is owed or a newer kick has overtaken it (UpsertUsers,     *)
(* admitScript, evictScript): the inductive invariant of the limit.            *)
THEOREM LimitInvariant == Spec => []LimitInv
<1>1. Init => LimitInv
  BY LimitInit
<1>2. KickInv /\ LimitInv /\ [Next]_vars => LimitInv'
  BY LimitStep
<1> QED BY <1>1, <1>2, KickInvariant, PTL DEF Spec

(* Who comes online and who goes                                           *)

LEMMA TakesStep ==
  ASSUME KickInv, LimitInv, [Next]_vars,
         NEW d \in Devices, d \notin Live(redis), d \in Live(redis')
  PROVE  Cardinality(Live(redis')) <= Max(LimitsInUse)
<1>1. PICK n \in Nodes : Admits(n) \/ Evicts(n)
  <2>1. redis' # redis
    OBVIOUS
  <2>2. ~Tick
    <3>1. SUFFICES ASSUME Tick PROVE FALSE
      OBVIOUS
    <3>2. redis'.lease = [x \in Devices |-> [m \in Nodes |-> Older(redis.lease[x][m])]]
      BY <3>1 DEF Tick, KickInv, GoodRedis, RedisSet
    <3>3. \A a \in 0 .. NoLease : Older(a) <= Expiry => a <= Expiry
      BY BoundsAreNat DEF Older, NoLease
    <3> QED BY <3>2, <3>3 DEF Live, KickInv, GoodRedis, RedisSet
  <2>3. ~Syncs
    <3>1. \A i \in 1 .. Len(history) :
            history[i] \in Lists /\ \A x \in Devices : history[i].version[x] \in Versions
      BY ListsFacts DEF KickInv
    <3> QED BY <3>1, SyncedLosses DEF Syncs
  <2>4. ~Kicks
    BY WithKickLive DEF Kicks, KickInv, GoodRedis
  <2> QED BY <2>1, <2>2, <2>3, <2>4, RedisCases
<1> DEFINE c == check[n]
           k == AfterKick(n)
<1>2. /\ c \in Checks /\ c.device \in Devices /\ c.version \in Versions /\ c.limit \in Nat \ {0}
  BY <1>1, LimitsArePositive DEF Admits, Evicts, Checks
<1>3. /\ k \in RedisSet /\ k.policy = redis.policy /\ Live(k) \subseteq Live(redis)
  BY <1>2, AfterKickFacts
<1>4. /\ Max(LimitsInUse) \in Nat /\ c.limit <= Max(LimitsInUse)
      /\ Told(n).limit \in Nat /\ Told(n).limit <= Max(LimitsInUse)
  BY <1>2, LimitsFacts
<1> HIDE DEF k
<1>5. CASE Admits(n)
  <2>1. Live(redis') = Live(k) \cup {c.device}
    BY <1>5, AdmitsFacts DEF k
  <2>2. d = c.device /\ d \notin Live(k)
    BY <1>3, <2>1
  <2>3. k.policy[d][n] \in {NoPolicy, Told(n).limit}
    <3>1. \/ redis.policy[d][n] \in {NoPolicy, Told(n).limit}
          \/ redis.kick[d] > Told(n).version[d]
      BY <1>5 DEF Admits, LimitInv, PolicyTold
    <3>2. c.version <= Told(n).version[d]
      <4>1. c.version <= List(n).version[d]
        BY <1>2, <2>2 DEF LimitInv, ChecksOK, Checks, Idle
      <4>2. /\ users[n] \in 1 .. Len(history) /\ Current(n) \in 1 .. Len(history)
            /\ Told(n) = history[Current(n)]
            /\ \A i \in 1 .. Len(history) : history[i].version[d] \in Versions
        BY ListsFacts DEF KickInv, ListsOK, NodesOK
      <4>3. users[n] <= Current(n)
        BY <4>2 DEF Current, LimitInv, FetchedNewer
      <4>4. List(n).version[d] <= Told(n).version[d]
        BY <4>2, <4>3 DEF LimitInv, VersionsGrow, List
      <4>5. List(n).version[d] \in Versions /\ Told(n).version[d] \in Versions
        BY <4>2 DEF List
      <4> QED BY <1>2, <4>1, <4>4, <4>5 DEF Versions
    <3>3. c.version >= redis.kick[d] /\ redis.kick[d] \in 0 .. Revoked
      <4>1. InForce(redis, d) = IF d \in Live(redis) THEN redis.v[d] ELSE redis.kick[d]
        BY InForceFacts DEF KickInv
      <4> QED BY <1>5, <2>2, <4>1 DEF Admits, Obeys, KickInv, GoodRedis, RedisSet
    <3>4. Told(n).version[d] \in Versions
      BY ListsFacts DEF KickInv
    <3> QED BY <1>2, <1>3, <3>1, <3>2, <3>3, <3>4, BoundsAreNat DEF Versions, Revoked
  <2>4. Cardinality(Live(k)) < Max({c.limit, k.policy[d][n]})
    <3>1. ~(Cardinality(Live(k)) >= Max({c.limit, k.policy[d][n]}))
      BY <1>5, <2>2 DEF Admits, Full, OnlineLimit, k
    <3>2. Max({c.limit, k.policy[d][n]}) \in Nat
      BY <1>2, <1>4, <2>3, MaxOfTwo DEF NoPolicy
    <3> QED BY <3>1, <3>2, LiveFinite
  <2>5. Max({c.limit, k.policy[d][n]}) \in Nat /\ Max({c.limit, k.policy[d][n]}) <= Max(LimitsInUse)
    BY <1>2, <1>4, <2>3, MaxOfTwo DEF NoPolicy
  <2>6. Cardinality(Live(k) \cup {d}) = Cardinality(Live(k)) + 1
    BY <2>2, LiveFinite, FS_AddElement
  <2> QED BY <1>4, <2>1, <2>2, <2>4, <2>5, <2>6, LiveFinite
<1>6. CASE Evicts(n)
  <2>1. PICK out \in Victims(k, c.device, c.limit) : Live(redis') = (Live(k) \ out) \cup {c.device}
    BY <1>6, EvictsFacts DEF k
  <2>2. d = c.device /\ d \notin Live(k)
    BY <1>3, <2>1
  <2> DEFINE left == Live(k) \ out
  <2>3. Cardinality(left) < c.limit
    BY <1>2, <2>1, <2>2, VictimsFacts
  <2>4. IsFiniteSet(left) /\ Cardinality(left) \in Nat /\ d \notin left
    BY <2>2, LiveFinite
  <2>5. Cardinality(left \cup {d}) = Cardinality(left) + 1
    BY <2>4, FS_AddElement
  <2> HIDE DEF left
  <2>6. Cardinality(left \cup {d}) <= Max(LimitsInUse)
    BY <1>2, <1>4, <2>3, <2>4, <2>5
  <2> QED BY <2>1, <2>2, <2>6 DEF left
<1> QED BY <1>1, <1>5, <1>6

LEMMA EvictsStep ==
  ASSUME KickInv, LimitInv, [Next]_vars, NEW d \in Live(redis) \ Live(redis')
  PROVE  \/ Excused(redis, redis', d)
         \/ \E n \in Nodes :
              /\ check[n] # Idle /\ check[n].granted
              /\ check[n].device \notin Live(redis)
              /\ Cardinality(Live(redis)) >= check[n].limit
<1>0. d \in Devices
  BY DEF Live
<1>1. CASE redis' = redis
  BY <1>1
<1>2. CASE Tick
  <2>1. redis'.lease = [x \in Devices |-> [m \in Nodes |-> Older(redis.lease[x][m])]]
    BY <1>2 DEF Tick, KickInv, GoodRedis, RedisSet
  <2>2. \A a \in 0 .. NoLease : Older(a) <= Expiry \/ a \in {NoLease, Expiry}
    BY BoundsAreNat DEF Older, NoLease
  <2>3. \A m \in Nodes : redis.lease[d][m] \in 0 .. NoLease /\ ~(redis'.lease[d][m] <= Expiry)
    BY <1>0 DEF Live, KickInv, GoodRedis, RedisSet
  <2> QED BY <1>0, <2>1, <2>2, <2>3 DEF Excused
<1>3. CASE Syncs
  <2>1. PICK n \in Nodes, i \in 1 .. Len(history) : redis' = Synced(redis, n, history[i])
    BY <1>3 DEF Syncs
  <2>2. history[i] \in Lists /\ \A x \in Devices : history[i].version[x] \in Versions
    BY ListsFacts DEF KickInv
  <2> QED BY <2>1, <2>2, SyncedLosses
<1>4. CASE Kicks
  BY <1>4, WithKickLosses DEF Kicks, KickInv, Excused
<1>5. ASSUME NEW n \in Nodes, Admits(n) PROVE Excused(redis, redis', d)
  BY <1>5, AdmitsFacts, AfterKickFacts DEF Admits, Excused
<1>6. ASSUME NEW n \in Nodes, Evicts(n)
      PROVE  /\ check[n] # Idle /\ check[n].granted
             /\ check[n].device \notin Live(redis)
             /\ Cardinality(Live(redis)) >= check[n].limit
  <2> DEFINE c == check[n]
             k == AfterKick(n)
  <2>1. /\ c \in Checks /\ c # Idle /\ c.pc = "evict" /\ c.device \in Devices
        /\ c.limit \in Nat \ {0} /\ c.granted \in BOOLEAN
    <3>1. c \in Checks /\ c.pc = "evict"
      BY <1>6 DEF Evicts
    <3>2. Idle.pc = "idle"
      BY DEF Idle
    <3>3. c # Idle
      BY <3>1, <3>2
    <3> QED BY <3>1, <3>3, LimitsArePositive DEF Checks
  <2>2. c.version <= redis.kick[c.device]
    <3>1. redis.kick[c.device] >= c.version
      BY <2>1 DEF LimitInv, ChecksOK
    <3> QED BY <2>1, <3>1 DEF Checks, Versions, KickInv, GoodRedis, RedisSet
  <2>3. Live(k) = Live(redis)
    BY <2>1, <2>2, AfterKickFacts
  <2>4. PICK out \in Victims(k, c.device, c.limit) : Live(redis') = (Live(k) \ out) \cup {c.device}
    BY <1>6, EvictsFacts
  <2>5. {} \in Victims(k, c.device, c.limit) \/ c.granted
    BY <1>6 DEF Evicts, MayEvict
  <2> HIDE DEF k
  <2>6. out # {}
    BY <2>3, <2>4
  <2>7. c.device \notin Live(k) /\ Cardinality(Live(k)) >= c.limit /\ {} \notin Victims(k, c.device, c.limit)
    BY <2>1, <2>6, VictimsFacts
  <2> QED BY <2>1, <2>3, <2>5, <2>7
<1> QED BY <1>1, <1>2, <1>3, <1>4, <1>5, <1>6, RedisCases

(* A device comes online only within the largest limit some node still has a   *)
(* reason to use, whatever was in flight when the panel lowered it             *)
(* (admitScript, evictScript, onlineLimit).                                    *)
THEOREM TakesFit == Spec => TakesWithinLimit
<1>1. KickInv /\ LimitInv /\ [Next]_vars =>
        [\A d \in Devices :
           d \notin Live(redis) /\ d \in Live(redis)' =>
             Cardinality(Live(redis)') <= Max(LimitsInUse)]_vars
  BY TakesStep DEF Live
<1> QED BY <1>1, KickInvariant, LimitInvariant, PTL DEF Spec, TakesWithinLimit

(* A device that is online loses its place to another one only by a grant, and *)
(* only when there is no room at that moment (evictScript counts again).       *)
THEOREM EvictionsMakeRoom == Spec => EvictsOnlyForRoom
<1>1. KickInv /\ LimitInv /\ [Next]_vars =>
        [\A d \in Live(redis) \ Live(redis)' :
           \/ redis'.kick[d] > redis.kick[d]
           \/ \A n \in Nodes : redis.lease[d][n] \in {NoLease, Expiry}
           \/ \E n \in Nodes : redis.lease[d][n] # NoLease /\ redis'.policy[d][n] = NoPolicy
           \/ \E n \in Nodes :
                /\ check[n] # Idle /\ check[n].granted
                /\ check[n].device \notin Live(redis)
                /\ Cardinality(Live(redis)) >= check[n].limit]_vars
  <2>1. Live(redis)' = Live(redis')
    BY DEF Live
  <2> QED BY <2>1, EvictsStep DEF Excused
<1> QED BY <1>1, KickInvariant, LimitInvariant, PTL DEF Spec, EvictsOnlyForRoom
=============================================================================
