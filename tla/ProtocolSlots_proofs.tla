------------------------ MODULE ProtocolSlots_proofs ------------------------
(***************************************************************************)
(* For any credentials, devices, connections and lists: an account has one *)
(* ledger, it holds listed devices only, and a slot that is taken fits.    *)
(***************************************************************************)
EXTENDS ProtocolSlots, FiniteSetTheorems, TLAPS

(* The types of the user list, the ledgers and the connections. *)
Types ==
  /\ users \in [Creds -> Nat \cup {Gone}]
  /\ book \in [Creds -> Books \cup {NoBook}]
  /\ held \in [Conns -> Books \cup {NoBook}]
  /\ ledger \in [Books -> [Slots -> Ages]]
  /\ at \in [Conns -> At]
  /\ seen \in [Conns -> Nat \cup {Gone}] /\ ver \in [Conns -> Nat \cup {Gone}]

IsListed(d) == \E m \in Official : DeviceOf[m] = d /\ users[m] # Gone

(* A ledger nobody refers to has no slots: whoever takes it finds none. *)
UnusedEmpty ==
  \A b \in Books \ Used(book, held) : \A s \in Slots : ledger[b][s] = Absent

(* What a connection carries from one step to the next. *)
Carries ==
  \A c \in Conns :
    /\ at[c] # "out" => ver[c] # Gone
    /\ at[c] \in {"checking", "asking", "denied"} => seen[c] # Gone
    /\ at[c] \in {"asking", "denied"} => held[c] # NoBook

LedgerInv == Types /\ UnusedEmpty /\ Carries /\ OneLedger /\ HoldersListed

-----------------------------------------------------------------------------
(* There is always a ledger that nobody uses. *)
LEMMA FreshBook ==
  ASSUME Types
  PROVE  NewBook \in Books \ Used(book, held)
<1> DEFINE A == {book[k] : k \in Creds}
           B == {held[c] : c \in Conns}
<1>1. IsFiniteSet(A) /\ Cardinality(A) <= Cardinality(Creds)
  <2>1. [k \in Creds |-> book[k]] \in Surjection(Creds, A)
    BY DEF Surjection
  <2> QED BY <2>1, FS_Surjection, ProtocolAssumption
<1>2. IsFiniteSet(B) /\ Cardinality(B) <= Cardinality(Conns)
  <2>1. [c \in Conns |-> held[c]] \in Surjection(Conns, B)
    BY DEF Surjection
  <2> QED BY <2>1, FS_Surjection, ProtocolAssumption
<1>3. IsFiniteSet(A \cup B) /\ Cardinality(A \cup B) <= Cardinality(A) + Cardinality(B)
  <2>1. IsFiniteSet(A \cap B)
    BY <1>1, FS_Intersection
  <2>2. /\ Cardinality(A \cap B) \in Nat /\ Cardinality(A) \in Nat /\ Cardinality(B) \in Nat
    BY <1>1, <1>2, <2>1, FS_CardinalityType
  <2>3. IsFiniteSet(A \cup B) /\ Cardinality(A \cup B) = Cardinality(A) + Cardinality(B) - Cardinality(A \cap B)
    BY <1>1, <1>2, FS_Union
  <2> QED BY <2>2, <2>3
<1>4. \E b \in Books : b \notin A \cup B
  <2>1. SUFFICES ASSUME Books \subseteq A \cup B PROVE FALSE
    OBVIOUS
  <2>2. Cardinality(Books) <= Cardinality(A \cup B)
    BY <1>3, <2>1, FS_Subset
  <2>3. /\ Cardinality(Books) \in Nat /\ Cardinality(A \cup B) \in Nat
        /\ Cardinality(A) \in Nat /\ Cardinality(B) \in Nat
        /\ Cardinality(Creds) \in Nat /\ Cardinality(Conns) \in Nat
    BY <1>1, <1>2, <1>3, FS_CardinalityType, ProtocolAssumption
  <2>4. Cardinality(Books) > Cardinality(Creds) + Cardinality(Conns)
    BY ProtocolAssumption
  <2> QED BY <1>1, <1>2, <1>3, <2>2, <2>3, <2>4
<1> QED BY <1>4 DEF NewBook, Used

(* The connections' slots are slots; those of listed credentials are no      *)
(* device's or a listed one's.                                               *)
LEMMA SlotOf ==
  ASSUME NEW c \in Conns
  PROVE  /\ Slot(c) \in Slots /\ CredOf[c] \in Creds
         /\ users[CredOf[c]] # Gone =>
              \A d \in Devices : d = Slot(c) => IsListed(d)
BY ProtocolAssumption, HostsAreNoDevices DEF Slot, OnlineKey, Slots, Devices, IsListed

(* Ages of slots. *)
LEMMA AgeFacts == 0 \in Ages /\ Absent \in Ages /\ 0 # Absent /\ Absent \notin 0..Expiry
BY ProtocolAssumption DEF Ages, Absent

(* Purging and removing only take slots away. *)
LEMMA RemovalFacts ==
  ASSUME NEW e \in [Slots -> Ages], NEW gone
  PROVE  /\ Without(e, gone) \in [Slots -> Ages] /\ Purged(e) \in [Slots -> Ages]
         /\ \A s \in Slots : e[s] = Absent =>
              Without(e, gone)[s] = Absent /\ Purged(e)[s] = Absent
BY AgeFacts DEF Without, Purged

(* What SetBooks leaves. *)
LEMMA SetBooksFacts ==
  ASSUME NEW bk \in [Creds -> Books \cup {NoBook}],
         NEW hd \in [Conns -> Books \cup {NoBook}],
         NEW lg \in [Books -> [Slots -> Ages]],
         SetBooks(bk, hd, lg)
  PROVE  /\ book' = bk /\ held' = hd
         /\ ledger' \in [Books -> [Slots -> Ages]]
         /\ UnusedEmpty'
         /\ \A b \in Books, s \in Slots : lg[b][s] = Absent => ledger'[b][s] = Absent
<1>1. Empty \in [Slots -> Ages] /\ \A s \in Slots : Empty[s] = Absent
  BY AgeFacts DEF Empty
<1>2. /\ book' = bk /\ held' = hd
      /\ ledger' = [b \in Books |-> IF b \in Used(bk, hd) THEN lg[b] ELSE Empty]
  BY DEF SetBooks
<1>3. Used(bk, hd) = Used(book, held)'
  BY <1>2 DEF Used
<1> QED BY <1>1, <1>2, <1>3 DEF UnusedEmpty

(* While the list stays, the two properties survive a step that keeps the    *)
(* ledger of the listed credentials and adds slots of listed devices only.   *)
LEMMA LedgerStep ==
  ASSUME LedgerInv, Types', UnusedEmpty', Carries', users' = users,
         \A k \in Official : users[k] # Gone => book'[k] = book[k],
         \A b \in Books, d \in Devices :
           ledger[b][d] = Absent => ledger'[b][d] = Absent \/ IsListed(d)
  PROVE  LedgerInv'
<1>1. OneLedger'
  BY DEF LedgerInv, OneLedger
<1>2. HoldersListed'
  <2> SUFFICES ASSUME NEW k \in Official, users[k] # Gone, NEW d \in Devices,
                      ledger'[book[k]][d] # Absent
               PROVE  IsListed(d)
    BY DEF HoldersListed, IsListed
  <2>1. book[k] \in Books
    BY ProtocolAssumption DEF LedgerInv, OneLedger, Types
  <2> QED BY <2>1 DEF LedgerInv, HoldersListed, IsListed
<1> QED BY <1>1, <1>2 DEF LedgerInv

(* A step of connections alone. *)
LEMMA Frame ==
  ASSUME LedgerInv, UNCHANGED <<users, books>>, Carries',
         at' \in [Conns -> At],
         seen' \in [Conns -> Nat \cup {Gone}], ver' \in [Conns -> Nat \cup {Gone}]
  PROVE  LedgerInv'
BY LedgerStep DEF LedgerInv, Types, UnusedEmpty, Used, books

(* Where a connection may move: once it is past its admission. *)
Past == {"open", "rechecking", "guarding", "closing"}
LEMMA MoveFacts ==
  ASSUME Types, Carries, NEW c \in Conns, at[c] # "out",
         \/ Leave(c)
         \/ \E there \in Past : Move(c, there)
         \/ Cut(c)
         \/ UNCHANGED conns /\ at[c] \in Past,
         \A x \in Conns : x # c => held'[x] = held[x]
  PROVE  /\ Carries' /\ at' \in [Conns -> At]
         /\ seen' \in [Conns -> Nat \cup {Gone}] /\ ver' \in [Conns -> Nat \cup {Gone}]
BY DEF Types, Carries, Leave, Move, Cut, conns, Past, At

-----------------------------------------------------------------------------
(* The user list: a ledger that was the account's loses what is not listed,  *)
(* and a new one is empty.                                                    *)
LEMMA SyncKeeps ==
  ASSUME LedgerInv, NEW L \in Lists, NEW n \in Limits, SyncUsers(L, n)
  PROVE  LedgerInv'
<1> DEFINE known == {m \in Official : L[m] # Gone /\ book[m] # NoBook}
           one   == IF known = {} THEN NewBook ELSE book[CHOOSE m \in known : TRUE]
           bk    == [k \in Creds |-> IF L[k] = Gone THEN NoBook
                                     ELSE IF k \in Official THEN SharedBook(L, k)
                                     ELSE book[k]]
           lg    == [b \in Books |->
                      IF \E k \in Creds : book[k] = b
                      THEN Without(ledger[b], Dropped(L, CHOOSE k \in Creds : book[k] = b))
                      ELSE ledger[b]]
<1> USE DEF LedgerInv, Types
<1>1. L \in [Creds -> Nat \cup {Gone}]
  BY ProtocolAssumption
<1>2. users' = L /\ SetBooks(bk, held, lg) /\ UNCHANGED conns
  BY DEF SyncUsers
<1>3. \A k \in Official : SharedBook(L, k) = one
  BY DEF SharedBook
<1>4. one \in Books /\ one # NoBook
  <2>1. CASE known = {}
    BY <2>1, FreshBook, ProtocolAssumption
  <2>2. CASE known # {}
    <3>1. PICK m \in known : m = CHOOSE x \in known : TRUE
      BY <2>2
    <3> QED BY <2>2, <3>1, ProtocolAssumption
  <2> QED BY <2>1, <2>2
<1>5. bk \in [Creds -> Books \cup {NoBook}]
  BY <1>3, <1>4
<1>6. lg \in [Books -> [Slots -> Ages]]
  BY RemovalFacts
<1>7. /\ book' = bk /\ held' = held
      /\ ledger' \in [Books -> [Slots -> Ages]] /\ UnusedEmpty'
      /\ \A b \in Books, s \in Slots : lg[b][s] = Absent => ledger'[b][s] = Absent
  <2> HIDE DEF bk, lg
  <2> QED BY <1>2, <1>5, <1>6, SetBooksFacts
<1>8. \A k \in Official : users'[k] # Gone => book'[k] = one
  BY <1>2, <1>3, <1>7, ProtocolAssumption
<1>9. OneLedger'
  BY <1>4, <1>8 DEF OneLedger
<1>10. HoldersListed'
  <2> SUFFICES ASSUME NEW k \in Official, L[k] # Gone, NEW d \in Devices,
                      ledger'[one][d] # Absent
               PROVE  \E m \in Official : DeviceOf[m] = d /\ L[m] # Gone
    BY <1>2, <1>8 DEF HoldersListed
  <2>1. d \in Slots
    BY DEF Slots
  <2>2. lg[one][d] # Absent
    BY <1>4, <1>7, <2>1
  <2>3. CASE known = {}
    <3>1. one \notin Used(book, held)
      BY <2>3, FreshBook
    <3>2. ledger[one][d] = Absent
      BY <1>4, <2>1, <3>1 DEF UnusedEmpty
    <3>3. ~\E x \in Creds : book[x] = one
      BY <3>1 DEF Used
    <3>4. lg[one] = ledger[one]
      BY <1>4, <3>3
    <3> QED BY <2>2, <3>2, <3>4
  <2>4. CASE known # {}
    <3>1. \E x \in Creds : book[x] = one
      BY <2>4, ProtocolAssumption
    <3>2. lg[one] = Without(ledger[one], Dropped(L, CHOOSE x \in Creds : book[x] = one))
      BY <1>4, <3>1
    <3>3. d \notin Dropped(L, CHOOSE x \in Creds : book[x] = one)
      BY <2>1, <2>2, <3>2 DEF Without
    <3> QED BY <3>3 DEF Dropped
  <2> QED BY <2>3, <2>4
<1>11. Types' /\ Carries'
  BY <1>1, <1>2, <1>5, <1>7 DEF Carries, conns
<1> QED BY <1>7, <1>9, <1>10, <1>11

-----------------------------------------------------------------------------
(* A slot is entered for a connection whose credential is listed. *)
LEMMA EntryKeeps ==
  ASSUME LedgerInv, users' = users, NEW c \in Conns, users[CredOf[c]] # Gone,
         NEW bk \in [Creds -> Books \cup {NoBook}],
         \A k \in Official : users[k] # Gone => bk[k] = book[k],
         NEW hd \in [Conns -> Books \cup {NoBook}],
         NEW lg \in [Books -> [Slots -> Ages]],
         \A x \in Books, s \in Slots :
           ledger[x][s] = Absent => lg[x][s] = Absent \/ s = Slot(c),
         SetBooks(bk, hd, lg),
         Carries', at' \in [Conns -> At],
         seen' \in [Conns -> Nat \cup {Gone}], ver' \in [Conns -> Nat \cup {Gone}]
  PROVE  LedgerInv'
<1>1. /\ book' = bk /\ held' = hd
      /\ ledger' \in [Books -> [Slots -> Ages]] /\ UnusedEmpty'
      /\ \A x \in Books, s \in Slots : lg[x][s] = Absent => ledger'[x][s] = Absent
  BY SetBooksFacts
<1>2. Types'
  BY <1>1 DEF LedgerInv, Types
<1>3. \A x \in Books, d \in Devices :
        ledger[x][d] = Absent => ledger'[x][d] = Absent \/ IsListed(d)
  <2> TAKE x \in Books, d \in Devices
  <2>1. d \in Slots
    BY DEF Slots
  <2>2. d = Slot(c) => IsListed(d)
    BY SlotOf
  <2> QED BY <1>1, <2>1, <2>2
<1> QED BY <1>1, <1>2, <1>3, LedgerStep

(* The ledger of a listed credential does not change when it is used. *)
LEMMA OwnLedger ==
  ASSUME LedgerInv, NEW c \in Conns, users[CredOf[c]] # Gone,
         NEW b, b = IF book[CredOf[c]] = NoBook THEN NewBook ELSE book[CredOf[c]]
  PROVE  /\ b \in Books
         /\ [book EXCEPT ![CredOf[c]] = b] \in [Creds -> Books \cup {NoBook}]
         /\ \A k \in Official : users[k] # Gone => [book EXCEPT ![CredOf[c]] = b][k] = book[k]
         /\ Entries(c) \in [Slots -> Ages] /\ ledger[b] \in [Slots -> Ages]
         /\ \A s \in Slots : ledger[b][s] = Absent => Entries(c)[s] = Absent
<1> USE DEF LedgerInv, Types
<1>1. b \in Books /\ CredOf[c] \in Creds
  BY FreshBook, SlotOf
<1>2. \A k \in Official : users[k] # Gone => [book EXCEPT ![CredOf[c]] = b][k] = book[k]
  BY ProtocolAssumption DEF OneLedger
<1>3. Empty \in [Slots -> Ages] /\ \A s \in Slots : Empty[s] = Absent
  BY AgeFacts DEF Empty
<1>4. /\ Entries(c) \in [Slots -> Ages] /\ ledger[b] \in [Slots -> Ages]
      /\ \A s \in Slots : ledger[b][s] = Absent => Entries(c)[s] = Absent
  BY <1>1, <1>3 DEF Entries
<1> QED BY <1>1, <1>2, <1>4

(* A slot is given back. *)
LEMMA ReleaseKeeps ==
  ASSUME LedgerInv, users' = users, NEW c \in Conns, NEW v, ReleaseSlot(c, v),
         Carries', at' \in [Conns -> At],
         seen' \in [Conns -> Nat \cup {Gone}], ver' \in [Conns -> Nat \cup {Gone}]
  PROVE  LedgerInv'
<1> USE DEF LedgerInv, Types
<1>1. CASE UNCHANGED books
  BY <1>1, Frame
<1>2. CASE /\ book[CredOf[c]] # NoBook
           /\ ledger' = [ledger EXCEPT ![book[CredOf[c]]][Slot(c)] = Absent]
           /\ UNCHANGED <<book, held>>
  <2>1. ledger' \in [Books -> [Slots -> Ages]]
    BY <1>2, SlotOf, AgeFacts
  <2>2. \A b \in Books, s \in Slots : ledger[b][s] = Absent => ledger'[b][s] = Absent
    BY <1>2, SlotOf
  <2>3. UnusedEmpty'
    BY <1>2, <2>2 DEF UnusedEmpty, Used
  <2>4. Types'
    BY <1>2, <2>1
  <2>5. \A d \in Devices : d \in Slots
    BY DEF Slots
  <2> QED BY <1>2, <2>2, <2>3, <2>4, <2>5, LedgerStep
<1> QED BY <1>1, <1>2 DEF ReleaseSlot

-----------------------------------------------------------------------------
(* The steps of an admission that leave the ledgers alone. *)
LEMMA ArrivalKeeps ==
  ASSUME LedgerInv, NEW c \in Conns, Route(c) \/ Begin(c) \/ BeginUnknown(c)
  PROVE  LedgerInv'
<1>1. /\ Carries' /\ at' \in [Conns -> At]
      /\ seen' \in [Conns -> Nat \cup {Gone}] /\ ver' \in [Conns -> Nat \cup {Gone}]
  BY SlotOf DEF LedgerInv, Types, Carries, Route, Begin, BeginUnknown, CanArrive, Leave, At, books
<1> QED BY <1>1, Frame DEF Route, Begin, BeginUnknown, list, books

(* An admission is refused: by the global limit, or because the list changed. *)
LEMMA RefusalKeeps ==
  ASSUME LedgerInv, NEW c \in Conns, GloballyRefused(c) \/ AdmitRevoked(c)
  PROVE  LedgerInv'
<1>1. CASE GloballyRefused(c)
  <2>1. /\ ReleaseSlot(c, seen[c]) /\ Leave(c) /\ at[c] # "out"
        /\ users' = users /\ held' = held
    BY <1>1 DEF GloballyRefused, ReleaseSlot, list, books
  <2> QED BY <2>1, MoveFacts, ReleaseKeeps DEF LedgerInv
<1>2. CASE AdmitRevoked(c)
  <2>1. /\ SetBooks(book, [held EXCEPT ![c] = NoBook], ledger)
        /\ Leave(c) /\ at[c] # "out" /\ users' = users
    BY <1>2 DEF AdmitRevoked, list
  <2>2. [held EXCEPT ![c] = NoBook] \in [Conns -> Books \cup {NoBook}]
    BY DEF LedgerInv, Types
  <2>3. /\ book' = book /\ held' = [held EXCEPT ![c] = NoBook]
        /\ ledger' \in [Books -> [Slots -> Ages]] /\ UnusedEmpty'
        /\ \A b \in Books, s \in Slots : ledger[b][s] = Absent => ledger'[b][s] = Absent
    BY <2>1, <2>2, SetBooksFacts DEF LedgerInv, Types
  <2>4. /\ Carries' /\ at' \in [Conns -> At]
        /\ seen' \in [Conns -> Nat \cup {Gone}] /\ ver' \in [Conns -> Nat \cup {Gone}]
    BY <2>1, <2>3, MoveFacts DEF LedgerInv
  <2>5. Types'
    BY <2>1, <2>2, <2>3, <2>4 DEF LedgerInv, Types
  <2> QED BY <2>1, <2>3, <2>4, <2>5, LedgerStep DEF Slots
<1> QED BY <1>1, <1>2

(* The connection gets in, with a slot in the ledger it was admitted in. *)
LEMMA EnterKeeps ==
  ASSUME LedgerInv, users' = users, NEW c \in Conns, users[CredOf[c]] # Gone, at[c] # "out",
         NEW bk \in [Creds -> Books \cup {NoBook}],
         \A k \in Official : users[k] # Gone => bk[k] = book[k],
         NEW b \in Books, NEW e \in [Slots -> Ages],
         \A s \in Slots : ledger[b][s] = Absent => e[s] = Absent,
         Enter(c, bk, b, e)
  PROVE  LedgerInv'
<1> DEFINE f == [e EXCEPT ![Slot(c)] = 0]
<1>1. f \in [Slots -> Ages] /\ [held EXCEPT ![c] = NoBook] \in [Conns -> Books \cup {NoBook}]
  BY SlotOf, AgeFacts DEF LedgerInv, Types
<1>2. \A s \in Slots : ledger[b][s] = Absent => f[s] = Absent \/ s = Slot(c)
  OBVIOUS
<1>3. SetBooks(bk, [held EXCEPT ![c] = NoBook], [ledger EXCEPT ![b] = f])
  BY DEF Enter
<1>4. held' = [held EXCEPT ![c] = NoBook]
  BY <1>3 DEF SetBooks
<1>5. /\ Carries' /\ at' \in [Conns -> At]
      /\ seen' \in [Conns -> Nat \cup {Gone}] /\ ver' \in [Conns -> Nat \cup {Gone}]
  BY <1>4 DEF Enter, LedgerInv, Types, Carries, At
<1> DEFINE lg == [ledger EXCEPT ![b] = f]
           hd == [held EXCEPT ![c] = NoBook]
<1>6. /\ lg \in [Books -> [Slots -> Ages]] /\ hd \in [Conns -> Books \cup {NoBook}]
      /\ \A x \in Books, s \in Slots : ledger[x][s] = Absent => lg[x][s] = Absent \/ s = Slot(c)
  <2>1. hd \in [Conns -> Books \cup {NoBook}]
    BY <1>1
  <2> HIDE DEF f, hd
  <2> QED BY <1>1, <1>2, <2>1 DEF LedgerInv, Types
<1>7. SetBooks(bk, hd, lg)
  BY <1>3
<1> HIDE DEF f, lg, hd
<1> QED BY <1>5, <1>6, <1>7, EntryKeeps

(* An admission that does not get in keeps or lets go of its ledger. *)
LEMMA StayKeeps ==
  ASSUME LedgerInv, users' = users, NEW c \in Conns, users[CredOf[c]] # Gone, at[c] # "out",
         NEW b \in Books, NEW e \in [Slots -> Ages],
         \A s \in Slots : ledger[b][s] = Absent => e[s] = Absent,
         \/ /\ SetBooks(book, [held EXCEPT ![c] = NoBook], [ledger EXCEPT ![b] = e])
            /\ Leave(c)
         \/ /\ at[c] = "checking"
            /\ \E there \in {"asking", "denied"} : Move(c, there)
            /\ \E bk \in [Creds -> Books \cup {NoBook}] :
                 /\ \A k \in Official : users[k] # Gone => bk[k] = book[k]
                 /\ SetBooks(bk, [held EXCEPT ![c] = b], [ledger EXCEPT ![b] = e])
  PROVE  LedgerInv'
<1> DEFINE lg == [ledger EXCEPT ![b] = e]
<1>0. /\ lg \in [Books -> [Slots -> Ages]]
      /\ \A x \in Books, s \in Slots : ledger[x][s] = Absent => lg[x][s] = Absent \/ s = Slot(c)
  BY DEF LedgerInv, Types
<1>1. CASE /\ SetBooks(book, [held EXCEPT ![c] = NoBook], [ledger EXCEPT ![b] = e])
           /\ Leave(c)
  <2>1. held' = [held EXCEPT ![c] = NoBook]
    BY <1>1 DEF SetBooks
  <2>2. /\ Carries' /\ at' \in [Conns -> At]
        /\ seen' \in [Conns -> Nat \cup {Gone}] /\ ver' \in [Conns -> Nat \cup {Gone}]
    BY <1>1, <2>1, MoveFacts DEF LedgerInv
  <2>3. /\ [held EXCEPT ![c] = NoBook] \in [Conns -> Books \cup {NoBook}]
        /\ book \in [Creds -> Books \cup {NoBook}]
    BY DEF LedgerInv, Types
  <2> DEFINE hd == [held EXCEPT ![c] = NoBook]
  <2>4. SetBooks(book, hd, lg) /\ hd \in [Conns -> Books \cup {NoBook}]
    BY <1>1, <2>3
  <2> HIDE DEF lg, hd
  <2> QED BY <1>0, <2>2, <2>3, <2>4, EntryKeeps
<1>2. ASSUME NEW bk \in [Creds -> Books \cup {NoBook}],
             \A k \in Official : users[k] # Gone => bk[k] = book[k],
             SetBooks(bk, [held EXCEPT ![c] = b], [ledger EXCEPT ![b] = e]),
             at[c] = "checking",
             NEW there \in {"asking", "denied"}, Move(c, there)
      PROVE  LedgerInv'
  <2>1. held' = [held EXCEPT ![c] = b]
    BY <1>2 DEF SetBooks
  <2>2. b # NoBook /\ [held EXCEPT ![c] = b] \in [Conns -> Books \cup {NoBook}]
    BY ProtocolAssumption DEF LedgerInv, Types
  <2>3. /\ Carries' /\ at' \in [Conns -> At]
        /\ seen' \in [Conns -> Nat \cup {Gone}] /\ ver' \in [Conns -> Nat \cup {Gone}]
    BY <1>2, <2>1, <2>2 DEF LedgerInv, Types, Carries, Move, At
  <2> DEFINE hd == [held EXCEPT ![c] = b]
  <2>4. SetBooks(bk, hd, lg) /\ hd \in [Conns -> Books \cup {NoBook}]
    BY <1>2, <2>2
  <2> HIDE DEF lg, hd
  <2> QED BY <1>0, <1>2, <2>3, <2>4, EntryKeeps
<1> QED BY <1>1, <1>2

(* One round of an admission, the first or one after the panel was asked. *)
LEMMA AdmissionKeeps ==
  ASSUME LedgerInv, NEW c \in Conns,
         Admit(c) \/ AdmitDenied(c) \/ \E target \in Slots \cup {Nobody} : AdmitGranted(c, target)
  PROVE  LedgerInv'
<1>1. at[c] \in {"checking", "asking", "denied"} /\ users[CredOf[c]] # Gone /\ users' = users
  BY DEF Admit, AdmitDenied, AdmitGranted, Authorized, list, LedgerInv, Carries
<1>2. CASE Admit(c)
  <2> DEFINE b  == IF book[CredOf[c]] = NoBook THEN NewBook ELSE book[CredOf[c]]
             bk == [book EXCEPT ![CredOf[c]] = b]
             e  == Purged(ledger[b])
  <2>1. /\ b \in Books /\ bk \in [Creds -> Books \cup {NoBook}]
        /\ \A k \in Official : users[k] # Gone => bk[k] = book[k]
        /\ ledger[b] \in [Slots -> Ages]
    BY <1>1, OwnLedger
  <2>2. e \in [Slots -> Ages] /\ \A s \in Slots : ledger[b][s] = Absent => e[s] = Absent
    BY <2>1, RemovalFacts
  <2>3. \/ Enter(c, bk, b, e)
        \/ /\ SetBooks(bk, [held EXCEPT ![c] = b], [ledger EXCEPT ![b] = e])
           /\ \E there \in {"asking", "denied"} : Move(c, there)
           /\ at[c] = "checking"
    BY <1>2 DEF Admit
  <2> HIDE DEF b, bk, e
  <2>4. CASE Enter(c, bk, b, e)
    BY <1>1, <2>1, <2>2, <2>4, EnterKeeps
  <2>5. CASE ~Enter(c, bk, b, e)
    BY <1>1, <2>1, <2>2, <2>3, <2>5, StayKeeps
  <2> QED BY <2>4, <2>5
<1>3. CASE AdmitDenied(c) \/ \E target \in Slots \cup {Nobody} : AdmitGranted(c, target)
  <2> DEFINE e == Purged(ledger[held[c]])
  <2>1. at[c] \in {"asking", "denied"}
    BY <1>3 DEF AdmitDenied, AdmitGranted
  <2>2. held[c] \in Books /\ ledger[held[c]] \in [Slots -> Ages]
    BY <2>1 DEF LedgerInv, Types, Carries
  <2>3. e \in [Slots -> Ages] /\ \A s \in Slots : ledger[held[c]][s] = Absent => e[s] = Absent
    BY <2>2, RemovalFacts
  <2>4. /\ book \in [Creds -> Books \cup {NoBook}]
        /\ \A gone : /\ Without(e, gone) \in [Slots -> Ages]
                     /\ \A s \in Slots : ledger[held[c]][s] = Absent => Without(e, gone)[s] = Absent
    BY <2>3, RemovalFacts DEF LedgerInv, Types
  <2>5. \/ Enter(c, book, held[c], e)
        \/ \E gone : Enter(c, book, held[c], Without(e, gone))
        \/ /\ SetBooks(book, [held EXCEPT ![c] = NoBook], [ledger EXCEPT ![held[c]] = e])
           /\ Leave(c)
    BY <1>3 DEF AdmitDenied, AdmitGranted
  <2> HIDE DEF e
  <2>6. CASE Enter(c, book, held[c], e)
    BY <1>1, <2>2, <2>3, <2>4, <2>6, EnterKeeps
  <2>7. ASSUME NEW gone, Enter(c, book, held[c], Without(e, gone)) PROVE LedgerInv'
    BY <1>1, <2>2, <2>4, <2>7, EnterKeeps
  <2>8. CASE /\ SetBooks(book, [held EXCEPT ![c] = NoBook], [ledger EXCEPT ![held[c]] = e])
             /\ Leave(c)
    BY <1>1, <2>2, <2>3, <2>8, StayKeeps
  <2> QED BY <2>5, <2>6, <2>7, <2>8
<1> QED BY <1>2, <1>3

-----------------------------------------------------------------------------
(* Uplink data or a request registers the slot anew or renews it. *)
LEMMA EnsuredKeeps ==
  ASSUME LedgerInv, users' = users, NEW c \in Conns, at[c] = "open",
         NEW recheck \in Past, Ensured(c, recheck)
  PROVE  LedgerInv'
<1>1. users[CredOf[c]] # Gone
  BY DEF Ensured, LedgerInv, Carries
<1>2. CASE UNCHANGED <<books, conns>>
  BY <1>2, Frame, MoveFacts DEF LedgerInv, books, Past
<1> DEFINE b == IF book[CredOf[c]] = NoBook THEN NewBook ELSE book[CredOf[c]]
           f == [Entries(c) EXCEPT ![Slot(c)] = 0]
<1>3. CASE /\ SetBooks([book EXCEPT ![CredOf[c]] = b], held, [ledger EXCEPT ![b] = f])
           /\ Move(c, recheck) \/ UNCHANGED conns
  <2>1. /\ b \in Books /\ [book EXCEPT ![CredOf[c]] = b] \in [Creds -> Books \cup {NoBook}]
        /\ \A k \in Official : users[k] # Gone => [book EXCEPT ![CredOf[c]] = b][k] = book[k]
        /\ Entries(c) \in [Slots -> Ages]
        /\ \A s \in Slots : ledger[b][s] = Absent => Entries(c)[s] = Absent
    BY <1>1, OwnLedger
  <2>2. /\ f \in [Slots -> Ages]
        /\ \A s \in Slots : ledger[b][s] = Absent => f[s] = Absent \/ s = Slot(c)
    BY <2>1, SlotOf, AgeFacts
  <2>3. held' = held /\ held \in [Conns -> Books \cup {NoBook}]
    BY <1>3 DEF SetBooks, LedgerInv, Types
  <2>4. /\ Carries' /\ at' \in [Conns -> At]
        /\ seen' \in [Conns -> Nat \cup {Gone}] /\ ver' \in [Conns -> Nat \cup {Gone}]
    BY <1>3, <2>3, MoveFacts DEF LedgerInv, Past
  <2> DEFINE bk == [book EXCEPT ![CredOf[c]] = b]
             lg == [ledger EXCEPT ![b] = f]
  <2>5. /\ lg \in [Books -> [Slots -> Ages]]
        /\ \A x \in Books, s \in Slots : ledger[x][s] = Absent => lg[x][s] = Absent \/ s = Slot(c)
    <3> HIDE DEF b, f
    <3> QED BY <2>1, <2>2 DEF LedgerInv, Types
  <2>6. SetBooks(bk, held, lg)
    BY <1>3
  <2>7. bk \in [Creds -> Books \cup {NoBook}] /\ \A k \in Official : users[k] # Gone => bk[k] = book[k]
    BY <2>1
  <2> HIDE DEF b, f, bk, lg
  <2> QED BY <1>1, <2>3, <2>4, <2>5, <2>6, <2>7, EntryKeeps
<1> QED BY <1>2, <1>3 DEF Ensured

(* What data, audits and ends of a connection do beyond that. *)
LEMMA DataKeeps ==
  ASSUME LedgerInv, NEW c \in Conns, Data(c)
  PROVE  LedgerInv'
<1>1. CASE Marked(c) \/ Downlink(c) \/ Hangup(c) \/ Mark(c) \/ Reject(c)
  <2>1. UNCHANGED <<users, books>> /\ (UNCHANGED conns \/ (at[c] = "open" /\ Cut(c)))
    BY <1>1 DEF Marked, Downlink, Hangup, Mark, Reject, list
  <2>2. CASE UNCHANGED conns
    BY <2>1, <2>2, Frame DEF LedgerInv, Types, Carries, conns, books
  <2>3. CASE at[c] = "open" /\ Cut(c)
    BY <2>1, <2>3, Frame, MoveFacts DEF LedgerInv, books
  <2> QED BY <2>1, <2>2, <2>3
<1>2. CASE Uplink(c)
  <2>1. users' = users /\ at[c] = "open"
    BY <1>2 DEF Uplink, list
  <2>2. CASE Ensured(c, "rechecking")
    BY <2>1, <2>2, EnsuredKeeps DEF Past
  <2>3. CASE Cut(c) /\ UNCHANGED books
    BY <2>1, <2>3, Frame, MoveFacts DEF LedgerInv, books
  <2> QED BY <1>2, <2>2, <2>3 DEF Uplink
<1>3. CASE Request(c)
  <2>1. users' = users /\ at[c] = "open"
    BY <1>3 DEF Request, list
  <2>2. CASE Ensured(c, "guarding")
    BY <2>1, <2>2, EnsuredKeeps DEF Past
  <2>3. CASE UNCHANGED <<books, conns>>
    BY <2>1, <2>3, Frame DEF LedgerInv, Types, Carries, conns, books
  <2> QED BY <1>3, <2>2, <2>3 DEF Request
<1>4. CASE Recheck(c) \/ Guard(c) \/ Disconnect(c)
  <2>1. /\ users' = users /\ at[c] # "out" /\ held' = held
        /\ (\E there \in Past : Move(c, there)) \/ Cut(c) \/ Leave(c)
        /\ UNCHANGED books \/ ReleaseSlot(c, ver[c])
    BY <1>4 DEF Recheck, Guard, Disconnect, ReleaseSlot, list, books, Past
  <2>2. /\ Carries' /\ at' \in [Conns -> At]
        /\ seen' \in [Conns -> Nat \cup {Gone}] /\ ver' \in [Conns -> Nat \cup {Gone}]
    BY <2>1, MoveFacts DEF LedgerInv
  <2> QED BY <2>1, <2>2, Frame, ReleaseKeeps
<1> QED BY <1>1, <1>2, <1>3, <1>4 DEF Data

(* The report cycle and the clock add no slot. *)
LEMMA AgingKeeps ==
  ASSUME LedgerInv, Report \/ Tick
  PROVE  LedgerInv'
<1> USE DEF LedgerInv, Types
<1>1. UNCHANGED <<users, book, held, at, seen, ver>>
  BY DEF Report, Tick, list, conns
<1>2. /\ ledger' \in [Books -> [Slots -> Ages]]
      /\ \A b \in Books, s \in Slots : ledger[b][s] = Absent => ledger'[b][s] = Absent
  <2>1. CASE Report
    BY <2>1, RemovalFacts DEF Report, Swept
  <2>2. CASE Tick
    <3>1. ledger' = [b \in Books |-> [s \in Slots |->
            IF ledger[b][s] \in 0..Expiry THEN ledger[b][s] + 1 ELSE ledger[b][s]]]
      BY <2>2 DEF Tick
    <3>2. \A x \in Ages : (IF x \in 0..Expiry THEN x + 1 ELSE x) \in Ages
      BY ProtocolAssumption DEF Ages, Absent
    <3> QED BY <3>1, <3>2, AgeFacts
  <2> QED BY <2>1, <2>2
<1>3. UnusedEmpty'
  BY <1>1, <1>2 DEF UnusedEmpty, Used
<1>5. Carries'
  BY <1>1 DEF Carries
<1>4. \A d \in Devices : d \in Slots
  BY DEF Slots
<1> QED BY <1>1, <1>2, <1>3, <1>4, <1>5, LedgerStep

-----------------------------------------------------------------------------
(* Before the first list nobody is listed and nothing is online. *)
LEMMA LedgerInit == Init => LedgerInv
<1> SUFFICES ASSUME Init PROVE LedgerInv
  OBVIOUS
<1>1. Types
  BY AgeFacts DEF Init, Types, Empty, At
<1>2. UnusedEmpty
  BY DEF Init, UnusedEmpty, Empty
<1>3. Carries
  BY DEF Init, Carries
<1>4. OneLedger /\ HoldersListed
  BY ProtocolAssumption DEF Init, OneLedger, HoldersListed
<1> QED BY <1>1, <1>2, <1>3, <1>4 DEF LedgerInv

(* An account's listed devices share a ledger that holds listed devices only, *)
(* one nobody uses is empty, and connections carry listed versions: the       *)
(* inductive invariant, for any credentials, devices, connections and lists.  *)
THEOREM LedgerInvariant == Spec => []LedgerInv
<1>1. LedgerInv /\ [Next]_vars => LedgerInv'
  <2> SUFFICES ASSUME LedgerInv, [Next]_vars PROVE LedgerInv'
    OBVIOUS
  <2>1. ASSUME NEW c \in Conns, Admission(c) \/ Data(c) PROVE LedgerInv'
    BY <2>1, ArrivalKeeps, RefusalKeeps, AdmissionKeeps, DataKeeps DEF Admission
  <2>2. ASSUME NEW L \in Lists, NEW n \in Limits, SyncUsers(L, n) PROVE LedgerInv'
    BY <2>2, SyncKeeps
  <2>3. CASE Report \/ Tick
    BY <2>3, AgingKeeps
  <2>4. CASE SwitchEnforcing \/ UNCHANGED vars
    BY <2>4, Frame DEF SwitchEnforcing, vars, list, conns, LedgerInv, Types, Carries, books
  <2> QED BY <2>1, <2>2, <2>3, <2>4 DEF Next
<1> QED BY LedgerInit, <1>1, PTL DEF Spec

(* The listed devices of an account are counted in one ledger. *)
THEOREM SharedLedger == Spec => []OneLedger
<1>1. LedgerInv => OneLedger
  BY DEF LedgerInv
<1> QED BY LedgerInvariant, <1>1, PTL

(* A slot of the account's ledger belongs to a device the panel lists. *)
THEOREM ListedHold == Spec => []HoldersListed
<1>1. LedgerInv => HoldersListed
  BY DEF LedgerInv
<1> QED BY LedgerInvariant, <1>1, PTL
-----------------------------------------------------------------------------
(* Slots that are taken *)

(* What may become of the fresh slots of a ledger while the local limit is in *)
(* force: none is added, or they fit.                                         *)
Fitting(e, f) == Fresh(f) \subseteq Fresh(e) \/ Cardinality(Fresh(f)) <= limit
LedgersFit == \A b \in Books : Fitting(ledger[b], ledger'[b])

(* A ledger has finitely many slots, so its fresh ones can be counted. *)
LEMMA SlotsFinite ==
  ASSUME NEW e, NEW gone
  PROVE  /\ IsFiniteSet(Fresh(e)) /\ Cardinality(Fresh(e)) \in Nat
         /\ IsFiniteSet(Online(e) \ gone)
<1>1. IsFiniteSet(Slots)
  <2> DEFINE D == {DeviceOf[k] : k \in Official}
             H == {HostOf[c] : c \in {d \in Conns : CredOf[d] \notin Official}}
  <2>1. IsFiniteSet(Official) /\ IsFiniteSet({d \in Conns : CredOf[d] \notin Official})
    BY ProtocolAssumption, FS_Subset
  <2>2. IsFiniteSet(D)
    <3>1. [k \in Official |-> DeviceOf[k]] \in Surjection(Official, D)
      BY DEF Surjection
    <3> QED BY <2>1, <3>1, FS_Surjection
  <2>3. IsFiniteSet(H)
    <3> DEFINE C == {d \in Conns : CredOf[d] \notin Official}
    <3>1. [c \in C |-> HostOf[c]] \in Surjection(C, H)
      BY DEF Surjection
    <3> QED BY <2>1, <3>1, FS_Surjection
  <2> QED BY <2>2, <2>3, FS_Union DEF Slots, Devices
<1>2. Fresh(e) \subseteq Slots /\ Online(e) \ gone \subseteq Slots
  BY DEF Fresh, Online
<1> QED BY <1>1, <1>2, FS_Subset, FS_CardinalityType

(* Purging keeps what is fresh, and what is online then is fresh. *)
LEMMA PurgedFresh ==
  ASSUME NEW e \in [Slots -> Ages]
  PROVE  Fresh(Purged(e)) = Fresh(e) /\ Online(Purged(e)) = Fresh(e)
BY AgeFacts DEF Fresh, Online, Purged, Without

(* A slot taken where it was fresh, or where there is room, fits. *)
LEMMA TakenFits ==
  ASSUME ~enforcing, limit \in Nat, limit > 0,
         NEW e \in [Slots -> Ages], NEW s \in Slots,
         s \in Fresh(e) \/ HasRoom(LocalLimit, e)
  PROVE  Fitting(e, [e EXCEPT ![s] = 0])
<1>1. 0 \in 0..Expiry
  BY ProtocolAssumption
<1>2. Fresh([e EXCEPT ![s] = 0]) = Fresh(e) \cup {s}
  BY <1>1 DEF Fresh
<1>3. CASE s \in Fresh(e)
  BY <1>2, <1>3 DEF Fitting
<1>4. CASE Cardinality(Fresh(e)) < limit
  <2>1. IsFiniteSet(Fresh(e)) /\ Cardinality(Fresh(e)) \in Nat
    BY SlotsFinite
  <2>2. Cardinality(Fresh(e) \cup {s}) \in {Cardinality(Fresh(e)), Cardinality(Fresh(e)) + 1}
    BY <2>1, FS_AddElement
  <2>3. Cardinality(Fresh(e) \cup {s}) <= limit
    BY <1>4, <2>1, <2>2
  <2> QED BY <1>2, <2>3 DEF Fitting
<1> QED BY <1>3, <1>4 DEF HasRoom, LocalLimit

(* So does the slot that others were removed for. *)
LEMMA EvictedFits ==
  ASSUME ~enforcing, limit \in Nat, NEW e \in [Slots -> Ages], NEW s \in Slots,
         NEW target, NEW gone \in Evicted(e, target)
  PROVE  Cardinality(Fresh([Without(e, gone) EXCEPT ![s] = 0])) <= limit
<1> DEFINE f == [Without(e, gone) EXCEPT ![s] = 0]
           left == Online(e) \ gone
<1>1. Cardinality(left) = limit - 1
  BY DEF Evicted, LocalLimit
<1>2. Fresh(f) \subseteq left \cup {s}
  BY AgeFacts DEF Fresh, Online, Without
<1>3. /\ IsFiniteSet(left \cup {s})
      /\ Cardinality(left \cup {s}) \in {Cardinality(left), Cardinality(left) + 1}
  BY SlotsFinite, FS_AddElement
<1>4. Cardinality(Fresh(f)) <= Cardinality(left \cup {s})
  BY <1>2, <1>3, FS_Subset
<1>5. Cardinality(Fresh(f)) \in Nat
  BY SlotsFinite
<1> HIDE DEF f, left
<1>6. Cardinality(Fresh(f)) <= limit
  BY <1>1, <1>3, <1>4, <1>5
<1> QED BY <1>6 DEF f

(* One ledger is written; others stay, or are forgotten. *)
LEMMA WrittenFits ==
  ASSUME NEW bk, NEW hd, NEW b, NEW f, SetBooks(bk, hd, [ledger EXCEPT ![b] = f]),
         Types, b \in Books => Fitting(ledger[b], f)
  PROVE  LedgersFit
<1>1. Fresh(Empty) = {}
  BY AgeFacts DEF Fresh, Empty
<1>2. \A x \in Books : ledger'[x] \in {Empty, ledger[x]} \/ (x = b /\ ledger'[x] = f)
  BY DEF SetBooks, Types
<1> QED BY <1>1, <1>2 DEF LedgersFit, Fitting

(* No slot becomes fresh. *)
LEMMA NoneFresh ==
  ASSUME \A b \in Books, s \in Slots :
           ledger'[b][s] \in 0..Expiry => ledger[b][s] \in 0..Expiry
  PROVE  LedgersFit
BY DEF LedgersFit, Fitting, Fresh

LEMMA ReleasedFits ==
  ASSUME Types, NEW c, NEW v, ReleaseSlot(c, v)
  PROVE  LedgersFit
<1>1. CASE UNCHANGED books
  BY <1>1, NoneFresh DEF books
<1>2. CASE ledger' = [ledger EXCEPT ![book[CredOf[c]]][Slot(c)] = Absent]
  <2>1. \A b \in Books, s \in Slots : ledger'[b][s] \in {ledger[b][s], Absent}
    BY <1>2 DEF Types
  <2> QED BY <2>1, AgeFacts, NoneFresh
<1> QED BY <1>1, <1>2 DEF ReleaseSlot

(* An admission takes a slot of a ledger it has just purged. *)
LEMMA EnteredFits ==
  ASSUME ~enforcing, limit \in Nat, limit > 0, Types, NEW c \in Conns,
         NEW bk, NEW b \in Books, NEW e, e = Purged(ledger[b]),
         \/ Fits(c, e) /\ Enter(c, bk, b, e)
         \/ \E target : \E gone \in Evicted(e, target) : Enter(c, bk, b, Without(e, gone))
  PROVE  LedgersFit
<1>1. ledger[b] \in [Slots -> Ages] /\ Slot(c) \in Slots
  BY SlotOf DEF Types
<1>2. e \in [Slots -> Ages] /\ Fresh(e) = Fresh(ledger[b]) /\ Online(e) = Fresh(e)
  BY <1>1, RemovalFacts, PurgedFresh
<1>3. CASE Fits(c, e) /\ Enter(c, bk, b, e)
  <2>1. Fitting(e, [e EXCEPT ![Slot(c)] = 0])
    BY <1>1, <1>2, <1>3, TakenFits DEF Fits
  <2>2. Fitting(ledger[b], [e EXCEPT ![Slot(c)] = 0])
    BY <1>2, <2>1 DEF Fitting
  <2> QED BY <1>3, <2>2, WrittenFits DEF Enter
<1>4. ASSUME NEW target, NEW gone \in Evicted(e, target), Enter(c, bk, b, Without(e, gone))
      PROVE  LedgersFit
  <2>1. Fitting(ledger[b], [Without(e, gone) EXCEPT ![Slot(c)] = 0])
    BY <1>1, <1>2, EvictedFits DEF Fitting
  <2> QED BY <1>4, <2>1, WrittenFits DEF Enter
<1> QED BY <1>3, <1>4

(* An admission that stays outside leaves a purged ledger. *)
LEMMA PurgedFits ==
  ASSUME Types, NEW bk, NEW hd, NEW b \in Books,
         SetBooks(bk, hd, [ledger EXCEPT ![b] = Purged(ledger[b])])
  PROVE  LedgersFit
<1>1. Fitting(ledger[b], Purged(ledger[b]))
  BY PurgedFresh DEF Types, Fitting
<1> QED BY <1>1, WrittenFits

LEMMA AdmissionFits ==
  ASSUME LedgerInv, ~enforcing, limit \in Nat, limit > 0, NEW c \in Conns,
         Admit(c) \/ AdmitDenied(c) \/ \E target \in Slots \cup {Nobody} : AdmitGranted(c, target)
  PROVE  LedgersFit
<1>1. at[c] \in {"checking", "asking", "denied"} /\ users[CredOf[c]] # Gone
  BY DEF Admit, AdmitDenied, AdmitGranted, Authorized, LedgerInv, Carries
<1>2. CASE Admit(c)
  <2> DEFINE b  == IF book[CredOf[c]] = NoBook THEN NewBook ELSE book[CredOf[c]]
             bk == [book EXCEPT ![CredOf[c]] = b]
             e  == Purged(ledger[b])
  <2>1. b \in Books
    BY <1>1, OwnLedger
  <2>2. \/ Fits(c, e) /\ Enter(c, bk, b, e)
        \/ SetBooks(bk, [held EXCEPT ![c] = b], [ledger EXCEPT ![b] = e])
    BY <1>2 DEF Admit
  <2> HIDE DEF b, bk
  <2> QED BY <2>1, <2>2, EnteredFits, PurgedFits DEF LedgerInv
<1>3. CASE AdmitDenied(c) \/ \E target \in Slots \cup {Nobody} : AdmitGranted(c, target)
  <2> DEFINE e == Purged(ledger[held[c]])
  <2>1. held[c] \in Books
    BY <1>3 DEF AdmitDenied, AdmitGranted, LedgerInv, Types, Carries
  <2>2. \/ Fits(c, e) /\ Enter(c, book, held[c], e)
        \/ \E target : \E gone \in Evicted(e, target) :
              Enter(c, book, held[c], Without(e, gone))
        \/ SetBooks(book, [held EXCEPT ![c] = NoBook], [ledger EXCEPT ![held[c]] = e])
    BY <1>3 DEF AdmitDenied, AdmitGranted
  <2> QED BY <2>1, <2>2, EnteredFits, PurgedFits DEF LedgerInv
<1> QED BY <1>2, <1>3

(* Data takes a slot up again where it finds it fresh, or room. *)
LEMMA EnsuredFits ==
  ASSUME LedgerInv, ~enforcing, limit \in Nat, limit > 0, NEW c \in Conns, at[c] = "open",
         NEW recheck, Ensured(c, recheck)
  PROVE  LedgersFit
<1> DEFINE b == IF book[CredOf[c]] = NoBook THEN NewBook ELSE book[CredOf[c]]
           f == [Entries(c) EXCEPT ![Slot(c)] = 0]
<1>1. users[CredOf[c]] # Gone
  BY DEF Ensured, LedgerInv, Carries
<1>2. CASE UNCHANGED books
  BY <1>2, NoneFresh DEF books
<1>3. CASE /\ Slot(c) \in Fresh(Entries(c)) \/ HasRoom(LocalLimit, Entries(c))
           /\ SetBooks([book EXCEPT ![CredOf[c]] = b], held, [ledger EXCEPT ![b] = f])
  <2>1. b \in Books /\ Entries(c) \in [Slots -> Ages]
    BY <1>1, OwnLedger
  <2>2. Fitting(Entries(c), f)
    BY <1>3, <2>1, SlotOf, TakenFits
  <2>3. Fresh(Entries(c)) = Fresh(ledger[b])
    <3>1. CASE book[CredOf[c]] = NoBook
      <4>1. b \in Books \ Used(book, held)
        BY <3>1, FreshBook DEF LedgerInv
      <4>2. \A s \in Slots : ledger[b][s] = Absent
        BY <4>1 DEF LedgerInv, UnusedEmpty
      <4> QED BY <3>1, <4>2 DEF Fresh, Entries, Empty
    <3>2. CASE book[CredOf[c]] # NoBook
      BY <3>2 DEF Entries
    <3> QED BY <3>1, <3>2
  <2>4. Fitting(ledger[b], f)
    BY <2>2, <2>3 DEF Fitting
  <2> HIDE DEF b, f
  <2> QED BY <1>3, <2>4, WrittenFits DEF LedgerInv
<1> QED BY <1>2, <1>3 DEF Ensured

(* The list, the report cycle and the clock make no slot fresh. *)
LEMMA UpkeepFits ==
  ASSUME LedgerInv, (\E L \in Lists, n \in Limits : SyncUsers(L, n)) \/ Report \/ Tick
  PROVE  LedgersFit
<1> SUFFICES \A b \in Books, s \in Slots :
               ledger'[b][s] \in 0..Expiry => ledger[b][s] \in 0..Expiry
  BY NoneFresh
<1>1. \A e, gone : \A s \in Slots : Without(e, gone)[s] \in {e[s], Absent}
  BY DEF Without
<1>2. ASSUME NEW L \in Lists, NEW n \in Limits, SyncUsers(L, n)
      PROVE  \A b \in Books, s \in Slots : ledger'[b][s] \in {ledger[b][s], Absent}
  <2>1. PICK gone :
          \A b \in Books : ledger'[b] \in {Without(ledger[b], gone[b]), ledger[b], Empty}
    <3> DEFINE owner(b) == CHOOSE k \in Creds : book[k] = b
    <3>1. \A b \in Books :
            ledger'[b] \in {Without(ledger[b], Dropped(L, owner(b))), ledger[b], Empty}
      BY <1>2 DEF SyncUsers, SetBooks
    <3> WITNESS [b \in Books |-> Dropped(L, owner(b))]
    <3> QED BY <3>1
  <2> QED BY <1>1, <2>1 DEF Empty
<1>3. CASE Report
  BY <1>1, <1>3, AgeFacts DEF Report, Swept, Purged
<1>4. CASE Tick
  BY <1>4 DEF Tick
<1> QED BY <1>2, <1>3, <1>4, AgeFacts

LEMMA StepFits ==
  ASSUME LedgerInv, ~enforcing, limit \in Nat, limit > 0, [Next]_vars
  PROVE  LedgersFit
<1>1. ASSUME NEW c \in Conns, Admission(c) PROVE LedgersFit
  <2>1. CASE Route(c) \/ Begin(c) \/ BeginUnknown(c)
    BY <2>1, NoneFresh DEF Route, Begin, BeginUnknown, books
  <2>2. CASE GloballyRefused(c)
    BY <2>2, ReleasedFits DEF GloballyRefused, LedgerInv
  <2>3. CASE AdmitRevoked(c)
    <3>1. \A b \in Books : ledger'[b] \in {ledger[b], Empty}
      BY <2>3 DEF AdmitRevoked, SetBooks
    <3>2. \A b \in Books, s \in Slots : ledger'[b][s] \in {ledger[b][s], Absent}
      BY <3>1 DEF Empty
    <3> QED BY <3>2, AgeFacts, NoneFresh
  <2> QED BY <1>1, <2>1, <2>2, <2>3, AdmissionFits DEF Admission
<1>2. ASSUME NEW c \in Conns, Data(c) PROVE LedgersFit
  <2>1. CASE UNCHANGED books
    BY <2>1, NoneFresh DEF books
  <2>2. CASE \E v : ReleaseSlot(c, v)
    BY <2>2, ReleasedFits DEF LedgerInv
  <2>3. CASE at[c] = "open" /\ \E recheck : Ensured(c, recheck)
    BY <2>3, EnsuredFits
  <2> QED BY <1>2, <2>1, <2>2, <2>3
    DEF Data, Marked, Uplink, Downlink, Recheck, Hangup, Request, Guard, Mark, Reject, Disconnect
<1>3. CASE SwitchEnforcing \/ UNCHANGED vars
  BY <1>3, NoneFresh DEF SwitchEnforcing, vars, books
<1> QED BY <1>1, <1>2, <1>3, UpkeepFits DEF Next

(* The limit is a number the panel gave. *)
LEMMA LimitType == Spec => [](limit \in Nat)
<1>1. Init => limit \in Nat
  BY ProtocolAssumption DEF Init
<1>2. limit \in Nat /\ [Next]_vars => (limit \in Nat)'
  <2>1. ASSUME NEW c \in Conns, Admission(c) PROVE limit' = limit
    BY <2>1 DEF Admission, list, Route, Begin, BeginUnknown, GloballyRefused, AdmitRevoked,
                Admit, AdmitDenied, AdmitGranted
  <2>2. ASSUME NEW c \in Conns, Data(c) PROVE limit' = limit
    BY <2>2 DEF Data, list, Marked, Uplink, Downlink, Recheck, Hangup, Request, Guard, Mark,
                Reject, Disconnect
  <2>3. CASE SwitchEnforcing \/ Report \/ Tick \/ UNCHANGED vars
    BY <2>3 DEF SwitchEnforcing, Report, Tick, vars, list
  <2>4. ASSUME NEW L \in Lists, NEW n \in Limits, SyncUsers(L, n) PROVE limit' \in Nat
    BY <2>4, ProtocolAssumption DEF SyncUsers
  <2> QED BY <2>1, <2>2, <2>3, <2>4 DEF Next
<1> QED BY <1>1, <1>2, PTL DEF Spec

(* While the local limit is in force, a slot that is taken or taken up again  *)
(* fits (AdmitDeviceSlot, EvictDeviceSlot, EnsureDeviceSlot), in whichever    *)
(* ledger: whatever expired, was removed or came while the panel was asked.   *)
THEOREM TakenSlotsFit == Spec => SlotsFit
<1>1. LedgerInv /\ limit \in Nat /\ [Next]_vars =>
        [ \A b \in Books :
            ~enforcing /\ limit > 0 /\ Fresh(ledger'[b]) \ Fresh(ledger[b]) # {}
              => Cardinality(Fresh(ledger'[b])) <= limit ]_vars
  BY StepFits DEF LedgersFit, Fitting
<1> QED BY <1>1, LedgerInvariant, LimitType, PTL DEF Spec, SlotsFit
=============================================================================
