------------------------- MODULE Registration_proofs -------------------------
(***************************************************************************)
(* Proofs about module Registration.  One inductive invariant carries all  *)
(* the theorems.  It speaks of the rows rather than of their places in the *)
(* table: what is in the tables, then, user by user, where a conversation  *)
(* stands, which rows its computation relies on, what Yango has been told  *)
(* so far, and what the last closing message still claims.  A step of one  *)
(* user leaves the rows, the cars' numbers and the profiles of the others  *)
(* alone (OtherUser), so that every action is judged by what it does to    *)
(* the user who takes it (StepOf).                                         *)
(***************************************************************************)
EXTENDS Registration, SequenceTheorems, WellFoundedInduction, TLAPS

(***************************************************************************)
(* A table, given as the sequence of its rows: what rows it has, who has   *)
(* one, and the newest row of each of them.                                *)
(***************************************************************************)
RowsOf(s) == {s[i] : i \in DOMAIN s}
PlacesIn(s, u) == {i \in DOMAIN s : s[i].wha = u}
IsNewest(s, u, i) == i \in PlacesIn(s, u) /\ \A j \in PlacesIn(s, u) : i >= j
NewestIn(s, u) == CHOOSE i \in PlacesIn(s, u) : \A j \in PlacesIn(s, u) : i >= j
HoldersIn(s) == {d.wha : d \in RowsOf(s)}
LastIn(s) == [u \in HoldersIn(s) |-> s[NewestIn(s, u)]]

Apart(d, e) ==
  /\ d.phone # e.phone
  /\ d.licence # e.licence
  /\ d.card = e.card => d.card = "none"
  /\ d.profile = e.profile => d.profile = None

ApartFrom(d, S) == \A e \in S : Apart(d, e)

Changed(s, i, row, t) == t = [s EXCEPT ![i] = row]

Added(s, row, t) == t = Append(s, row)

Taken(s, i, t) == t = [j \in 1..Len(s) - 1 |-> IF j < i THEN s[j] ELSE s[j + 1]]

RowOfOwner(d) ==
  /\ Owner[d.phone] = d.wha
  /\ d.card # "none" => Owner[d.card] = d.wha
  /\ d.profile # None => d.card # "none"

TableOK(s, R) ==
  /\ s \in Seq(R)
  /\ \A i, j \in DOMAIN s : i # j => Apart(s[i], s[j])
  /\ \A i \in DOMAIN s : RowOfOwner(s[i])

LEMMA Largest ==
  ASSUME NEW n \in Nat, NEW S \in SUBSET (1..n), S # {}
  PROVE  \E i \in S : \A j \in S : i >= j
<1> DEFINE T == {m \in Nat : n - m \in S}
           R == {p \in Nat \X Nat : p[1] < p[2]}
<1>1. T # {} /\ T \subseteq Nat
  <2>1. PICK i \in S : TRUE
    OBVIOUS
  <2>2. n - i \in Nat /\ n - (n - i) = i
    OBVIOUS
  <2> QED BY <2>1, <2>2
<1>2. IsWellFoundedOn(R, Nat)
  BY NatLessThanWellFounded DEF OpToRel
<1> HIDE DEF R, T
<1>3. PICK m \in T : \A k \in T : <<k, m>> \notin R
  BY <1>1, <1>2, WFMin
<1>4. m \in Nat /\ n - m \in S
  BY <1>3 DEF T
<1>5. ASSUME NEW j \in S
      PROVE  n - m >= j
  <2>1. n - j \in Nat /\ n - (n - j) = j
    OBVIOUS
  <2>2. n - j \in T
    BY <2>1 DEF T
  <2>3. ~(n - j < m)
    BY <1>3, <1>4, <2>1, <2>2 DEF R
  <2> QED BY <1>4, <2>1, <2>3
<1> QED BY <1>4, <1>5

LEMMA TableFacts ==
  ASSUME NEW s, NEW R, TableOK(s, R)
  PROVE  /\ Len(s) \in Nat /\ DOMAIN s = 1..Len(s)
         /\ \A i \in DOMAIN s : s[i] \in R
         /\ RowsOf(s) \subseteq R
         /\ \A d \in RowsOf(s) : RowOfOwner(d)
         /\ \A d, e \in RowsOf(s) : d # e => Apart(d, e)
<1>1. Len(s) \in Nat /\ DOMAIN s = 1..Len(s) /\ \A i \in DOMAIN s : s[i] \in R
  BY DEF TableOK
<1>2. \A d, e \in RowsOf(s) : d # e => Apart(d, e)
  BY DEF TableOK, RowsOf
<1> QED BY <1>1, <1>2 DEF TableOK, RowsOf

LEMMA NewestThere ==
  ASSUME NEW s, NEW R, TableOK(s, R), NEW u \in HoldersIn(s)
  PROVE  /\ IsNewest(s, u, NewestIn(s, u))
         /\ LastIn(s)[u] = s[NewestIn(s, u)]
         /\ LastIn(s)[u] \in RowsOf(s) /\ LastIn(s)[u].wha = u
<1>1. PlacesIn(s, u) # {} /\ PlacesIn(s, u) \subseteq 1..Len(s) /\ Len(s) \in Nat
  BY TableFacts DEF HoldersIn, RowsOf, PlacesIn
<1>2. \E i \in PlacesIn(s, u) : \A j \in PlacesIn(s, u) : i >= j
  BY <1>1, Largest
<1>3. /\ NewestIn(s, u) \in PlacesIn(s, u)
      /\ \A j \in PlacesIn(s, u) : NewestIn(s, u) >= j
  BY <1>2 DEF NewestIn
<1>4. LastIn(s)[u] = s[NewestIn(s, u)]
  BY DEF LastIn
<1> QED BY <1>3, <1>4 DEF IsNewest, PlacesIn, RowsOf

LEMMA NewestUnique ==
  ASSUME NEW s, NEW R, TableOK(s, R), NEW u, NEW i, IsNewest(s, u, i)
  PROVE  u \in HoldersIn(s) /\ NewestIn(s, u) = i /\ LastIn(s)[u] = s[i]
<1>1. u \in HoldersIn(s)
  BY DEF IsNewest, PlacesIn, HoldersIn, RowsOf
<1>2. /\ i \in PlacesIn(s, u) /\ NewestIn(s, u) \in PlacesIn(s, u)
      /\ NewestIn(s, u) >= i /\ i >= NewestIn(s, u)
  BY <1>1, NewestThere DEF IsNewest
<1>3. PlacesIn(s, u) \subseteq Nat
  BY TableFacts DEF PlacesIn
<1>4. NewestIn(s, u) = i
  BY <1>2, <1>3
<1> QED BY <1>1, <1>4, NewestThere

(***************************************************************************)
(* A row is changed, added or taken away.                                  *)
(***************************************************************************)
LEMMA RowChanged ==
  ASSUME NEW s, NEW R, TableOK(s, R), NEW i \in DOMAIN s, NEW row \in R, RowOfOwner(row),
         row.wha = s[i].wha, ApartFrom(row, RowsOf(s) \ {s[i]}),
         NEW t, Changed(s, i, row, t)
  PROVE  /\ TableOK(t, R)
         /\ RowsOf(t) = (RowsOf(s) \ {s[i]}) \cup {row}
         /\ HoldersIn(t) = HoldersIn(s)
         /\ \A u \in HoldersIn(s) :
              LastIn(t)[u] = IF LastIn(s)[u] = s[i] THEN row ELSE LastIn(s)[u]
<1>1. Len(s) \in Nat /\ DOMAIN s = 1..Len(s) /\ s \in Seq(R)
  BY TableFacts DEF TableOK
<1>2. /\ t \in Seq(R) /\ DOMAIN t = DOMAIN s
      /\ \A j \in DOMAIN s : t[j] = IF j = i THEN row ELSE s[j]
  BY <1>1, ExceptSeq DEF Changed
<1>3. \A j, k \in DOMAIN s : j # k => s[j] # s[k]
  BY DEF TableOK, Apart
<1>4. TableOK(t, R)
  <2>1. ASSUME NEW j \in DOMAIN s, NEW k \in DOMAIN s, j # k
        PROVE  Apart(t[j], t[k])
    <3>1. Apart(s[j], s[k])
      BY <2>1 DEF TableOK
    <3>2. /\ j # i => s[j] \in RowsOf(s) \ {s[i]}
          /\ k # i => s[k] \in RowsOf(s) \ {s[i]}
      BY <1>3 DEF RowsOf
    <3> QED BY <1>2, <2>1, <3>1, <3>2 DEF Apart, ApartFrom
  <2> QED BY <1>2, <2>1 DEF TableOK
<1>5. RowsOf(t) = (RowsOf(s) \ {s[i]}) \cup {row}
  BY <1>2, <1>3 DEF RowsOf
<1>6. HoldersIn(t) = HoldersIn(s)
  <2>1. s[i] \in RowsOf(s)
    BY DEF RowsOf
  <2> QED BY <1>5, <2>1 DEF HoldersIn
<1>7. \A u : PlacesIn(t, u) = PlacesIn(s, u)
  BY <1>2 DEF PlacesIn
<1>8. ASSUME NEW u \in HoldersIn(s)
      PROVE  LastIn(t)[u] = IF LastIn(s)[u] = s[i] THEN row ELSE LastIn(s)[u]
  <2> DEFINE k == NewestIn(s, u)
  <2>1. IsNewest(s, u, k) /\ k \in PlacesIn(s, u) /\ LastIn(s)[u] = s[k]
    BY NewestThere DEF IsNewest
  <2> HIDE DEF k
  <2>2. LastIn(t)[u] = t[k]
    <3>1. IsNewest(t, u, k)
      BY <1>7, <2>1 DEF IsNewest
    <3> QED BY <1>4, <3>1, NewestUnique
  <2>3. k \in DOMAIN s
    BY <2>1 DEF PlacesIn
  <2> QED BY <1>2, <1>3, <2>1, <2>2, <2>3
<1> QED BY <1>4, <1>5, <1>6, <1>8

LEMMA RowAdded ==
  ASSUME NEW s, NEW R, TableOK(s, R), NEW row \in R, RowOfOwner(row),
         ApartFrom(row, RowsOf(s)), NEW t, Added(s, row, t)
  PROVE  /\ TableOK(t, R)
         /\ RowsOf(t) = RowsOf(s) \cup {row}
         /\ HoldersIn(t) = HoldersIn(s) \cup {row.wha}
         /\ LastIn(t)[row.wha] = row
         /\ \A u \in HoldersIn(s) \ {row.wha} : LastIn(t)[u] = LastIn(s)[u]
<1> DEFINE n == Len(s)
<1>1. n \in Nat /\ DOMAIN s = 1..n /\ s \in Seq(R)
  BY TableFacts DEF TableOK
<1>2. /\ t \in Seq(R) /\ DOMAIN t = 1..n + 1 /\ t[n + 1] = row
      /\ \A j \in DOMAIN s : t[j] = s[j]
  BY <1>1, AppendProperties DEF Added
<1> HIDE DEF n
<1>3. DOMAIN t = DOMAIN s \cup {n + 1} /\ n + 1 \notin DOMAIN s
  BY <1>1, <1>2
<1>4. TableOK(t, R)
  <2>1. ASSUME NEW j \in DOMAIN t, NEW k \in DOMAIN t, j # k
        PROVE  Apart(t[j], t[k])
    <3>1. CASE j \in DOMAIN s /\ k \in DOMAIN s
      BY <1>2, <2>1, <3>1 DEF TableOK
    <3>2. CASE j = n + 1 /\ k \in DOMAIN s
      BY <1>2, <3>2 DEF RowsOf, ApartFrom
    <3>3. CASE k = n + 1 /\ j \in DOMAIN s
      <4>1. Apart(row, s[j])
        BY <3>3 DEF RowsOf, ApartFrom
      <4> QED BY <1>2, <3>3, <4>1 DEF Apart
    <3> QED BY <1>3, <2>1, <3>1, <3>2, <3>3
  <2>2. \A j \in DOMAIN t : RowOfOwner(t[j])
    BY <1>2, <1>3 DEF TableOK
  <2> QED BY <1>2, <2>1, <2>2 DEF TableOK
<1>5. RowsOf(t) = RowsOf(s) \cup {row}
  BY <1>2, <1>3 DEF RowsOf
<1>6. HoldersIn(t) = HoldersIn(s) \cup {row.wha}
  BY <1>5 DEF HoldersIn
<1>7. LastIn(t)[row.wha] = row
  <2>1. IsNewest(t, row.wha, n + 1)
    BY <1>1, <1>2 DEF IsNewest, PlacesIn
  <2> QED BY <1>2, <1>4, <2>1, NewestUnique
<1>8. ASSUME NEW u \in HoldersIn(s) \ {row.wha}
      PROVE  LastIn(t)[u] = LastIn(s)[u]
  <2> DEFINE k == NewestIn(s, u)
  <2>1. IsNewest(s, u, k) /\ k \in PlacesIn(s, u) /\ LastIn(s)[u] = s[k]
    BY NewestThere DEF IsNewest
  <2> HIDE DEF k
  <2>2. PlacesIn(t, u) = PlacesIn(s, u)
    BY <1>2, <1>3 DEF PlacesIn
  <2>3. LastIn(t)[u] = t[k]
    <3>1. IsNewest(t, u, k)
      BY <2>1, <2>2 DEF IsNewest
    <3> QED BY <1>4, <3>1, NewestUnique
  <2> QED BY <1>2, <2>1, <2>3 DEF PlacesIn
<1> QED BY <1>4, <1>5, <1>6, <1>7, <1>8

LEMMA RowTaken ==
  ASSUME NEW s, NEW R, TableOK(s, R), NEW i \in DOMAIN s, NEW t, Taken(s, i, t)
  PROVE  /\ TableOK(t, R)
         /\ RowsOf(t) = RowsOf(s) \ {s[i]}
         /\ \A u \in HoldersIn(s) \ {s[i].wha} : u \in HoldersIn(t) /\ LastIn(t)[u] = LastIn(s)[u]
<1> DEFINE n == Len(s)
           old(j) == IF j < i THEN j ELSE j + 1
<1>1. n \in Nat /\ DOMAIN s = 1..n /\ i \in 1..n /\ \A j \in DOMAIN s : s[j] \in R
  BY TableFacts
<1>2. DOMAIN t = 1..n - 1 /\ \A j \in DOMAIN t : old(j) \in DOMAIN s \ {i} /\ t[j] = s[old(j)]
  BY <1>1 DEF Taken
<1>3. \A j, k \in DOMAIN t : (j < k <=> old(j) < old(k)) /\ (j # k => old(j) # old(k))
  BY <1>1, <1>2
<1>4. \A k \in DOMAIN s \ {i} : \E j \in DOMAIN t : k = old(j)
  <2> TAKE k \in DOMAIN s \ {i}
  <2>1. CASE k < i
    BY <1>1, <1>2, <2>1
  <2>2. CASE k > i
    <3>1. k - 1 \in DOMAIN t /\ old(k - 1) = k
      BY <1>1, <1>2, <2>2
    <3> QED BY <3>1
  <2> QED BY <1>1, <2>1, <2>2
<1>0. t \in Seq(R)
  <2>1. n - 1 \in Nat /\ t \in [1..n - 1 -> R]
    BY <1>1, <1>2 DEF Taken
  <2> QED BY <2>1
<1> HIDE DEF n, old
<1>5. TableOK(t, R)
  <2>1. ASSUME NEW j \in DOMAIN t, NEW k \in DOMAIN t, j # k
        PROVE  Apart(t[j], t[k])
    BY <1>2, <1>3, <2>1 DEF TableOK
  <2>2. \A j \in DOMAIN t : RowOfOwner(t[j])
    BY <1>2 DEF TableOK
  <2> QED BY <1>0, <2>1, <2>2 DEF TableOK
<1>6. \A j, k \in DOMAIN s : j # k => s[j] # s[k]
  BY DEF TableOK, Apart
<1>7. RowsOf(t) = RowsOf(s) \ {s[i]}
  <2>1. ASSUME NEW d \in RowsOf(t)
        PROVE  d \in RowsOf(s) \ {s[i]}
    BY <1>2, <1>6 DEF RowsOf
  <2>2. ASSUME NEW d \in RowsOf(s) \ {s[i]}
        PROVE  d \in RowsOf(t)
    BY <1>2, <1>4 DEF RowsOf
  <2> QED BY <2>1, <2>2
<1>8. ASSUME NEW u \in HoldersIn(s) \ {s[i].wha}
      PROVE  u \in HoldersIn(t) /\ LastIn(t)[u] = LastIn(s)[u]
  <2> DEFINE k == NewestIn(s, u)
  <2>1. IsNewest(s, u, k) /\ k \in PlacesIn(s, u) /\ LastIn(s)[u] = s[k]
    BY NewestThere DEF IsNewest
  <2> HIDE DEF k
  <2>2. k \in DOMAIN s \ {i}
    BY <2>1 DEF PlacesIn
  <2>3. PICK j \in DOMAIN t : k = old(j)
    BY <1>4, <2>2
  <2>4. j \in PlacesIn(t, u)
    BY <1>2, <2>1, <2>3 DEF PlacesIn
  <2>5. ASSUME NEW m \in PlacesIn(t, u)
        PROVE  j >= m
    <3>1. m \in DOMAIN t /\ old(m) \in PlacesIn(s, u) /\ m \in Int /\ j \in Int
          /\ old(m) \in Int /\ k \in Int
      BY <1>1, <1>2, <2>2 DEF PlacesIn
    <3>2. ~(old(j) < old(m))
      BY <2>1, <2>3, <3>1 DEF IsNewest
    <3> QED BY <1>3, <3>1, <3>2
  <2>6. IsNewest(t, u, j)
    BY <2>4, <2>5 DEF IsNewest
  <2>7. u \in HoldersIn(t) /\ LastIn(t)[u] = t[j]
    BY <1>5, <2>6, NewestUnique
  <2> QED BY <1>2, <2>1, <2>3, <2>7
<1> QED BY <1>5, <1>7, <1>8

(***************************************************************************)
(* The table of the drivers.                                               *)
(***************************************************************************)
Rows == RowsOf(drivers)
Holders == HoldersIn(drivers)
Last == LastIn(drivers)

MineOf(u) == {d \in Rows : d.phone = at[u].phone}

DriversOK == TableOK(drivers, DriverRow)

CarsOK ==
  /\ lastCar \in Nat
  /\ cars \subseteq CarRow
  /\ \A c, d \in cars : c # d => c.id # d.id /\ c.plate # d.plate

ParkOK == park \in Seq([phone : Phones, plate : Plates \cup {"none"}])

ConfirmedOK ==
  /\ confirmed \subseteq DOMAIN park
  /\ \A p \in confirmed : \E d \in Rows : d.profile = p

TablesOK == DriversOK /\ CarsOK /\ ParkOK /\ ConfirmedOK

(***************************************************************************)
(* Where the conversation of a user stands, and what its computation       *)
(* carries there.                                                          *)
(***************************************************************************)
Conversation ==
  [stage : Stages, pc : Labels, flow : {"none", "register", "change", "move"},
   mode : {"UPDATE", "CREATION"}, phone : Phones \cup {"none"}, new : Phones \cup {"none"},
   plate : Plates \cup {"none"}, car : CarIds, profile : 0..Len(park)]

Message ==
  [text : {"none", "retry", "welcome", "changed", "moved"}, phone : Phones \cup {"none"},
   plate : Plates \cup {"none"}, car : CarIds]

Documents == {"front", "back", "photo", "waiting"}
Uploads == {"create", "close", "associate", "undo"}
Jobs == {"take", "vehicle", "profile", "bind", "save"}
Moves == {"number", "move", "licence"}
Settling == {"keep", "announce", "told"}
Undoing == {"judge", "forget"}

ControlOK(u) ==
  LET c == at[u] IN
  /\ c \in Conversation
  /\ told[u] \in Message
  /\ c.stage = "none" => c.pc = "await"
  /\ c.stage \in Documents => c.phone \in Phones /\ Owner[c.phone] = u
  /\ c.stage = "waiting" /\ c.flow = "move" => c.new \in Phones /\ Owner[c.new] = u
  /\ c.stage \in {"front", "back"} => c.flow = "register"
  /\ c.stage = "photo" => c.flow \in {"register", "change"}
  /\ c.pc = "advance" => c.stage \in {"front", "back", "photo"}
  /\ c.pc \in Uploads => c.stage = "photo"
  /\ c.pc = "create" => c.plate \in Plates
  /\ c.pc = "close" => c.flow = "change"
  /\ c.pc \in Jobs \cup Moves \cup Settling => c.stage = "waiting"
  /\ c.pc \in Jobs \cup {"keep"} => c.flow \in {"register", "change"}
  /\ c.pc = "save" => c.flow = "register"
  /\ c.pc \in Moves => c.flow = "move"
  /\ c.pc \in Settling => c.flow \in {"register", "change", "move"}
  /\ c.mode = "CREATION" => c.pc \in Undoing \cup {"end"} /\ c.stage = "waiting"

(* The rows a computation works on are there.  Only when a change of       *)
(* number has written the driver row is it no longer that of the phone.    *)
Settled(u) == at[u].pc \in Settling /\ at[u].flow # "move"

Driving(u) == at[u].pc \in Uploads \cup Jobs \cup {"number", "move"} \/ Settled(u)

RowOK(u) ==
  LET c == at[u] IN
  /\ Driving(u) \/ (c.pc = "advance" /\ c.stage = "photo") => MineOf(u) # {}
  /\ c.pc = "forget" => u \in Holders
  /\ c.pc \in {"number", "move"} => \A d \in Rows : d.phone # c.new
  /\ c.pc \in Jobs \ {"take"} \/ Settled(u) => \A d \in MineOf(u) : d.car = c.car

(* The row of somebody who registers is their newest one, and blank but    *)
(* for its licence as long as Yango has not given a profile; what is       *)
(* undone was not confirmed.                                               *)
Registering(u) ==
  /\ at[u].flow = "register"
  /\ \/ at[u].stage \in {"back", "photo"}
     \/ at[u].pc \in Jobs
     \/ at[u].stage = "front" /\ at[u].pc = "advance"

Saved(u) == at[u].flow = "register" /\ at[u].pc \in Settling

Created(u) == at[u].mode = "CREATION" /\ at[u].pc \in Undoing

NewOK(u) ==
  /\ Registering(u) =>
       /\ u \in Holders
       /\ Last[u].phone = at[u].phone /\ Last[u].card = at[u].phone
       /\ Last[u].profile = None
       /\ Last[u].past = << >>
  /\ Saved(u) =>
       /\ u \in Holders
       /\ Last[u].phone = at[u].phone
       /\ Last[u].profile = at[u].profile
       /\ at[u].pc # "told" => at[u].profile \notin confirmed
  /\ Created(u) => u \in Holders /\ Last[u].profile \notin confirmed

(* What Yango has been told so far.  A profile that Yango has given and    *)
(* that is not saved yet is of one user.                                   *)
Pending(u) == at[u].flow = "register" /\ at[u].pc \in {"bind", "save"}

Moved(u) == at[u].pc = "licence" \/ (at[u].pc \in Settling /\ at[u].flow = "move")

Known(p) == \E d \in Rows : d.phone = p /\ d.profile # None /\ park[d.profile].phone = p

Carded(p) == \E e \in Rows : e.card = p

YangoOK(u) ==
  LET c == at[u] IN
  /\ Pending(u) =>
       /\ c.profile \in DOMAIN park
       /\ park[c.profile].phone = c.phone
       /\ \A d \in Rows : d.profile # c.profile
       /\ \A v \in Users \ {u} : Pending(v) => at[v].profile # c.profile
  /\ c.pc = "save" => park[c.profile].plate = c.plate
  /\ Saved(u) =>
       /\ c.profile \in DOMAIN park
       /\ park[c.profile].phone = c.phone /\ park[c.profile].plate = c.plate
  /\ Settled(u) /\ c.flow = "change" =>
       \A d \in MineOf(u) : d.profile # None /\ park[d.profile].plate = c.plate
  /\ c.pc = "move" =>
       \A d \in MineOf(u) : d.profile # None /\ park[d.profile].phone = c.new
  /\ Moved(u) => Known(c.new)
  /\ c.pc \in Settling /\ c.flow = "move" => Carded(c.new)

(* The closing messages are true, and nothing is done after one.           *)
TrueOf(d, m) ==
  /\ d.phone = m.phone /\ d.card # "none" /\ d.profile # None
  /\ m.text = "welcome" => park[d.profile] = [phone |-> m.phone, plate |-> m.plate]
  /\ m.text = "changed" => park[d.profile].plate = m.plate
  /\ m.text = "moved" => park[d.profile].phone = m.phone
  /\ m.text \in {"welcome", "changed"} => d.car = m.car

Closings == {"welcome", "changed", "moved"}

ClosingOK(u) ==
  told[u].text \in Closings =>
    /\ at[u].stage = "none" \/ (at[u].stage = "waiting" /\ at[u].pc \in {"await", "told", "end"})
    /\ \E d \in Rows : d.wha = u /\ TrueOf(d, told[u])
    /\ told[u].text = "moved" => Carded(told[u].phone)

UserOK(u) == ControlOK(u) /\ RowOK(u) /\ NewOK(u) /\ YangoOK(u) /\ ClosingOK(u)

ShapeOK == at \in [Users -> Conversation] /\ told \in [Users -> Message]

Inv == TablesOK /\ ShapeOK /\ \A u \in Users : UserOK(u)

(***************************************************************************)
(* Lookups.                                                                *)
(***************************************************************************)
LEMMA RowFacts ==
  ASSUME DriversOK
  PROVE  /\ Rows \subseteq DriverRow
         /\ \A d \in Rows : RowOfOwner(d)
         /\ \A d, e \in Rows : d # e => Apart(d, e)
BY TableFacts DEF DriversOK, Rows

LEMMA MineIs ==
  ASSUME DriversOK, NEW u, NEW d \in MineOf(u)
  PROVE  Mine(u) \in DOMAIN drivers /\ drivers[Mine(u)] = d /\ Driver(u) = d
<1>1. \E i \in DOMAIN drivers : drivers[i].phone = at[u].phone
  BY DEF MineOf, Rows, RowsOf
<1>2. Mine(u) \in DOMAIN drivers /\ drivers[Mine(u)].phone = at[u].phone
  BY <1>1 DEF Mine, ByPhone
<1>3. drivers[Mine(u)] \in Rows /\ d \in Rows /\ d.phone = at[u].phone
  BY <1>2 DEF MineOf, Rows, RowsOf
<1> QED BY <1>2, <1>3, RowFacts DEF Apart, Driver

LEMMA MineThere ==
  ASSUME DriversOK, NEW u, MineOf(u) # {}
  PROVE  /\ Mine(u) \in DOMAIN drivers /\ drivers[Mine(u)] = Driver(u)
         /\ MineOf(u) = {Driver(u)}
         /\ Driver(u) \in Rows /\ Driver(u).phone = at[u].phone
<1>1. PICK d \in MineOf(u) : TRUE
  OBVIOUS
<1>2. \A e \in MineOf(u) : Driver(u) = e
  BY MineIs
<1> QED BY <1>1, <1>2, MineIs DEF MineOf

LEMMA LastIs ==
  ASSUME DriversOK, NEW u \in Holders
  PROVE  /\ Newest(u) \in DOMAIN drivers /\ drivers[Newest(u)] = Last[u]
         /\ Last[u] \in Rows /\ Last[u].wha = u
<1>1. Newest(u) = NewestIn(drivers, u)
  BY DEF Newest, ByWha, NewestIn, PlacesIn
<1> QED BY <1>1, NewestThere DEF DriversOK, Rows, Holders, Last, IsNewest, PlacesIn

LEMMA Lookups ==
  /\ \A p : ByPhone(p) = {} <=> \A d \in Rows : d.phone # p
  /\ \A l : ByLicence(l) = {} <=> \A d \in Rows : d.licence # l
  /\ \A p : ByCard(p) = {} <=> \A d \in Rows : d.card # p
  /\ \A u : ByWha(u) = {} <=> u \notin Holders
  /\ \A d \in Rows : d.wha \in Holders
BY DEF ByPhone, ByLicence, ByCard, ByWha, Rows, RowsOf, Holders, HoldersIn

(***************************************************************************)
(* A step of one user leaves the others alone.                             *)
(***************************************************************************)
Profiled(u, k) ==
  \/ \E d \in Rows : d.wha = u /\ d.profile = k /\ k # None
  \/ Pending(u) /\ at[u].profile = k

TablesOf(u) ==
  /\ \A d \in Rows : d.wha # u => d \in Rows'
  /\ \A d \in Rows' : d.wha # u => d \in Rows
  /\ \A v \in Holders \ {u} : v \in Holders' /\ Last'[v] = Last[v]
  /\ lastCar' \in Nat /\ lastCar' >= lastCar
  /\ Len(park') \in Nat /\ Len(park') >= Len(park)
  /\ \A k \in DOMAIN park : park'[k] = park[k] \/ Profiled(u, k)
  /\ \A k \in confirmed' : k \in confirmed \/ Profiled(u, k)
  /\ \A d \in Rows' : d.wha = u => d.profile = None \/ Profiled(u, d.profile)

OnlyOf(u) ==
  /\ \A v \in Users \ {u} : at'[v] = at[v] /\ told'[v] = told[v]
  /\ TablesOf(u)
  /\ Pending(u)' => \/ Pending(u) /\ at'[u].profile = at[u].profile
                    \/ at'[u].profile \notin DOMAIN park

LEMMA OtherUser ==
  ASSUME Inv, NEW u \in Users, NEW v \in Users \ {u}, OnlyOf(u), DriversOK', ParkOK'
  PROVE  UserOK(v)'
<1>1. at'[v] = at[v] /\ told'[v] = told[v]
  BY DEF OnlyOf, TablesOf
<1>2. UserOK(v) /\ DriversOK /\ CarsOK /\ ParkOK /\ ConfirmedOK
  BY DEF Inv, TablesOK
<1>3. /\ Rows \subseteq DriverRow
      /\ \A d \in Rows : RowOfOwner(d)
      /\ \A d, e \in Rows : d # e => Apart(d, e)
  BY <1>2, RowFacts
<1>4. \A d \in Rows' : RowOfOwner(d)
  BY TableFacts DEF DriversOK, Rows
<1>5. CarIds \subseteq CarIds' /\ 0..Len(park) \subseteq 0..Len(park')
  BY <1>2 DEF OnlyOf, TablesOf, CarsOK, CarIds, ParkOK
<1>6. /\ DOMAIN park = 1..Len(park) /\ DOMAIN park' = 1..Len(park')
      /\ DOMAIN park \subseteq DOMAIN park'
  BY <1>2 DEF OnlyOf, TablesOf, ParkOK
<1>7. \A k : Profiled(u, k) =>
               /\ \A d \in Rows : d.wha = v => d.profile # k
               /\ Pending(v) => at[v].profile # k
  <2>1. ASSUME NEW d \in Rows, d.wha = u, d.profile # None
        PROVE  /\ \A e \in Rows : e.wha = v => e.profile # d.profile
               /\ Pending(v) => at[v].profile # d.profile
    BY <1>2, <1>3, <2>1 DEF Apart, UserOK, YangoOK
  <2>2. ASSUME Pending(u)
        PROVE  /\ \A e \in Rows : e.wha = v => e.profile # at[u].profile
               /\ Pending(v) => at[v].profile # at[u].profile
    BY <2>2 DEF Inv, UserOK, YangoOK
  <2> QED BY <2>1, <2>2 DEF Profiled
<1>8. /\ Pending(v)' = Pending(v) /\ Registering(v)' = Registering(v)
      /\ Created(v)' = Created(v) /\ Saved(v)' = Saved(v) /\ Settled(v)' = Settled(v)
      /\ Driving(v)' = Driving(v) /\ Moved(v)' = Moved(v)
  BY <1>1 DEF Pending, Registering, Created, Saved, Settled, Driving, Moved
<1>9. /\ at[v].stage \in Documents => MineOf(v)' = MineOf(v)
      /\ \A p \in Phones : Owner[p] = v /\ (\A d \in Rows : d.phone # p)
                             => \A d \in Rows' : d.phone # p
      /\ \A d \in MineOf(v) : at[v].stage \in Documents => d.wha = v
      /\ \A p \in Phones : Owner[p] = v /\ Carded(p) => Carded(p)'
  <2>1. at[v].stage \in Documents => at[v].phone \in Phones /\ Owner[at[v].phone] = v
    BY <1>2 DEF UserOK, ControlOK
  <2>2. \A d : d \in Rows \/ d \in Rows' =>
                 d.wha = Owner[d.phone] /\ (d.card # "none" => d.wha = Owner[d.card])
    BY <1>3, <1>4 DEF RowOfOwner
  <2>3. \A d : d.wha = v => (d \in Rows <=> d \in Rows')
    BY DEF OnlyOf, TablesOf
  <2>4. ASSUME NEW p \in Phones, Owner[p] = v, Carded(p)
        PROVE  Carded(p)'
    BY <2>2, <2>3, <2>4, PhonesAssumption DEF Carded
  <2> QED BY <1>1, <2>1, <2>2, <2>3, <2>4 DEF MineOf
<1>10. \A d \in Rows : d.wha = v /\ d.profile # None =>
          park'[d.profile] = park[d.profile]
  <2>1. ASSUME NEW d \in Rows, d.wha = v, d.profile # None
        PROVE  park'[d.profile] = park[d.profile]
    <3>1. d.profile \in DOMAIN park
      BY <1>2, <1>3, <1>6, <2>1 DEF DriverRow, ParkOK, None
    <3> QED BY <1>7, <2>1, <3>1 DEF OnlyOf, TablesOf
  <2> QED BY <2>1
<1>11. v \in Holders => v \in Holders' /\ Last'[v] = Last[v] /\ Last[v] \in Rows /\ Last[v].wha = v
  BY <1>2, LastIs DEF OnlyOf, TablesOf
<1>12. ControlOK(v)'
  BY <1>1, <1>2, <1>5 DEF UserOK, ControlOK, Conversation, Message
<1>13. RowOK(v)'
  <2>1. ControlOK(v) /\ RowOK(v)
    BY <1>2 DEF UserOK
  <2>2. /\ Driving(v) => at[v].stage \in Documents
        /\ at[v].pc \in {"number", "move"} => at[v].new \in Phones /\ Owner[at[v].new] = v
    BY <2>1 DEF ControlOK, Documents, Driving, Settled, Uploads, Moves
  <2>4. at[v].pc \in Jobs \/ Settled(v) => Driving(v)
    BY DEF Driving
  <2>3. (at[v].pc = "advance" /\ at[v].stage = "photo") => at[v].stage \in Documents
    BY DEF Documents
  <2> QED BY <1>1, <1>8, <1>9, <1>11, <2>1, <2>2, <2>3, <2>4 DEF RowOK
<1>14. NewOK(v)'
  <2>1. NewOK(v)
    BY <1>2 DEF UserOK
  <2>2. ASSUME Created(v)
        PROVE  Last[v].profile \notin confirmed'
    BY <1>7, <1>11, <2>1, <2>2 DEF NewOK, OnlyOf, TablesOf
  <2>3. ASSUME Saved(v), at[v].profile \notin confirmed
        PROVE  at[v].profile \notin confirmed'
    BY <1>7, <1>11, <2>1, <2>3 DEF NewOK, OnlyOf, TablesOf
  <2> QED BY <1>1, <1>8, <1>11, <2>1, <2>2, <2>3 DEF NewOK
<1>15. YangoOK(v)'
  <2>1. YangoOK(v) /\ ControlOK(v) /\ NewOK(v)
    BY <1>2 DEF UserOK
  <2>2. ASSUME Pending(v)
        PROVE  /\ at[v].profile \in DOMAIN park' /\ park'[at[v].profile] = park[at[v].profile]
               /\ \A d \in Rows' : d.profile # at[v].profile
               /\ \A w \in Users \ {v} : Pending(w)' => at'[w].profile # at[v].profile
    <3>1. at[v].profile \in DOMAIN park /\ at[v].profile # None
      BY <1>6, <2>1, <2>2 DEF YangoOK, None
    <3>2. at[v].profile \in DOMAIN park' /\ park'[at[v].profile] = park[at[v].profile]
      BY <1>6, <1>7, <2>2, <3>1 DEF OnlyOf, TablesOf
    <3>3. \A d \in Rows' : d.profile # at[v].profile
      BY <1>7, <2>1, <2>2, <3>1 DEF OnlyOf, TablesOf, YangoOK
    <3>5. ASSUME NEW w \in Users \ {v}, Pending(w)'
          PROVE  at'[w].profile # at[v].profile
      <4>1. CASE w = u
        BY <2>1, <2>2, <3>1, <3>5, <4>1 DEF OnlyOf, TablesOf, YangoOK
      <4>2. CASE w # u
        <5>1. at'[w] = at[w]
          BY <4>2 DEF OnlyOf, TablesOf
        <5>2. Pending(w)
          BY <3>5, <5>1 DEF Pending
        <5> QED BY <2>1, <2>2, <5>1, <5>2 DEF YangoOK
      <4> QED BY <4>1, <4>2
    <3> QED BY <3>2, <3>3, <3>5
  <2>3. ASSUME at[v].pc = "move" \/ Settled(v)
        PROVE  /\ MineOf(v)' = MineOf(v)
               /\ \A d \in MineOf(v) : d.profile # None => park'[d.profile] = park[d.profile]
    <3>1. at[v].stage \in Documents
      BY <2>1, <2>3 DEF ControlOK, Moves, Settled, Documents
    <3> QED BY <1>9, <1>10, <3>1 DEF MineOf
  <2>4. /\ at[v].pc = "save" => park'[at[v].profile].plate = at[v].plate
        /\ Pending(v) => park'[at[v].profile].phone = at[v].phone
    BY <2>1, <2>2 DEF YangoOK, Pending, ControlOK
  <2>5. ASSUME Saved(v)
        PROVE  at[v].profile \in DOMAIN park' /\ park'[at[v].profile] = park[at[v].profile]
    <3>1. v \in Holders /\ Last[v].profile = at[v].profile /\ at[v].profile \in DOMAIN park
      BY <2>1, <2>5 DEF NewOK, YangoOK
    <3>2. at[v].profile # None
      BY <1>6, <3>1 DEF None
    <3> QED BY <1>6, <1>10, <1>11, <3>1, <3>2
  <2>6. Moved(v) => at[v].new \in Phones /\ Owner[at[v].new] = v
    BY <2>1 DEF Moved, ControlOK, Moves
  <2>7. ASSUME Moved(v)
        PROVE  Known(at[v].new)'
    <3>1. PICK d \in Rows : /\ d.phone = at[v].new /\ d.profile # None
                            /\ park[d.profile].phone = at[v].new
      BY <2>1, <2>7 DEF YangoOK, Known
    <3>2. d.wha = v
      BY <1>3, <2>6, <2>7, <3>1 DEF RowOfOwner
    <3>3. d \in Rows' /\ park'[d.profile] = park[d.profile]
      BY <1>10, <3>1, <3>2 DEF OnlyOf, TablesOf
    <3> QED BY <1>1, <3>1, <3>3 DEF Known
  <2>8. at[v].pc \in Settling /\ at[v].flow = "move" => Carded(at[v].new)'
    BY <1>1, <1>9, <2>1, <2>6 DEF YangoOK, Moved
  <2> QED BY <1>1, <1>8, <1>11, <2>1, <2>2, <2>3, <2>4, <2>5, <2>7, <2>8 DEF YangoOK
<1>16. ClosingOK(v)'
  <2>1. ClosingOK(v)
    BY <1>2 DEF UserOK
  <2>2. ASSUME told[v].text \in Closings
        PROVE  /\ \E d \in Rows' : d.wha = v /\ TrueOf(d, told[v])'
               /\ told[v].text = "moved" => Carded(told[v].phone)'
    <3>1. PICK d \in Rows : d.wha = v /\ TrueOf(d, told[v])
      BY <2>1, <2>2 DEF ClosingOK
    <3>3. told[v].phone \in Phones /\ Owner[told[v].phone] = v
      BY <1>3, <3>1 DEF TrueOf, RowOfOwner, DriverRow
    <3>4. told[v].text = "moved" => Carded(told[v].phone)'
      BY <1>1, <1>9, <2>1, <2>2, <3>3 DEF ClosingOK
    <3>2. d \in Rows' /\ park'[d.profile] = park[d.profile]
      BY <1>10, <3>1 DEF OnlyOf, TablesOf, TrueOf
    <3> QED BY <1>1, <3>1, <3>2, <3>4 DEF TrueOf
  <2> QED BY <1>1, <2>1, <2>2 DEF ClosingOK
<1> QED BY <1>12, <1>13, <1>14, <1>15, <1>16 DEF UserOK

(***************************************************************************)
(* Steps, from what they do to the user who takes them.                    *)
(***************************************************************************)
SetsTo(u, conv, m) ==
  /\ at' = [at EXCEPT ![u] = conv]
  /\ told' = [told EXCEPT ![u] = m]

LEMMA Grown ==
  ASSUME Inv, NEW u \in Users, TablesOf(u)
  PROVE  Conversation \subseteq Conversation' /\ Message \subseteq Message'
<1>1. CarIds \subseteq CarIds' /\ 0..Len(park) \subseteq 0..Len(park')
  BY DEF Inv, TablesOK, TablesOf, CarsOK, CarIds, ParkOK
<1> QED BY <1>1 DEF Conversation, Message

LEMMA SetIs ==
  ASSUME Inv, NEW u \in Users, NEW conv, NEW m, SetsTo(u, conv, m)
  PROVE  /\ at'[u] = conv /\ told'[u] = m
         /\ \A v \in Users \ {u} : at'[v] = at[v] /\ told'[v] = told[v]
BY DEF Inv, ShapeOK, SetsTo

LEMMA StepOf ==
  ASSUME Inv, NEW u \in Users, NEW conv, NEW m, SetsTo(u, conv, m),
         conv \in Conversation', m \in Message',
         TablesOf(u), TablesOK', UserOK(u)',
         conv.flow = "register" /\ conv.pc \in {"bind", "save"} =>
            \/ Pending(u) /\ conv.profile = at[u].profile
            \/ conv.profile \notin DOMAIN park
  PROVE  Inv'
<1>1. /\ at'[u] = conv /\ told'[u] = m
      /\ \A v \in Users \ {u} : at'[v] = at[v] /\ told'[v] = told[v]
  BY SetIs
<1>2. OnlyOf(u)
  BY <1>1 DEF OnlyOf, Pending
<1>3. \A v \in Users : UserOK(v)'
  BY <1>2, OtherUser DEF TablesOK
<1>4. ShapeOK'
  <2>1. Conversation \subseteq Conversation' /\ Message \subseteq Message'
    BY Grown
  <2> QED BY <2>1 DEF Inv, ShapeOK, SetsTo
<1> QED BY <1>3, <1>4 DEF Inv

LEMMA QuietTables ==
  ASSUME Inv, NEW u \in Users, UNCHANGED <<tables, park, confirmed>>
  PROVE  /\ TablesOf(u) /\ TablesOK'
         /\ Rows' = Rows /\ Holders' = Holders /\ Last' = Last
         /\ Conversation' = Conversation /\ Message' = Message
<1>1. /\ drivers' = drivers /\ cars' = cars /\ lastCar' = lastCar
      /\ park' = park /\ confirmed' = confirmed
  BY DEF tables
<1>2. Rows' = Rows /\ Holders' = Holders /\ Last' = Last
  BY <1>1 DEF Rows, Holders, Last
<1>3. DriversOK' /\ CarsOK' /\ ParkOK' /\ ConfirmedOK'
  <2>1. DriverRow' = DriverRow /\ CarRow' = CarRow
    BY <1>1 DEF DriverRow, CarRow, CarIds
  <2> QED BY <1>1, <1>2, <2>1
          DEF Inv, TablesOK, DriversOK, CarsOK, ParkOK, ConfirmedOK
<1>4. TablesOf(u)
  BY <1>1, <1>2 DEF TablesOf, Profiled, Inv, TablesOK, CarsOK, ParkOK
<1>5. Conversation' = Conversation /\ Message' = Message
  BY <1>1 DEF Conversation, Message, CarIds
<1> QED BY <1>2, <1>3, <1>4, <1>5 DEF TablesOK

LEMMA Now ==
  ASSUME Inv, NEW u \in Users
  PROVE  /\ at[u] \in Conversation /\ told[u] \in Message
         /\ ControlOK(u) /\ RowOK(u) /\ NewOK(u) /\ YangoOK(u) /\ ClosingOK(u)
         /\ DriversOK /\ CarsOK /\ ParkOK /\ ConfirmedOK
BY DEF Inv, TablesOK, ShapeOK, UserOK

LEMMA Words ==
  ASSUME Inv
  PROVE  /\ Nobody \in Conversation /\ Silence \in Message
         /\ Silence.text = "none" /\ Nobody.stage = "none" /\ Nobody.pc = "await"
         /\ Nobody.mode = "UPDATE" /\ Nobody.flow = "none"
<1>1. None \in CarIds /\ None \in 0..Len(park)
  BY DEF Inv, TablesOK, CarsOK, ParkOK, CarIds, None
<1> QED BY <1>1 DEF Nobody, Silence, Conversation, Message, Stages, Labels

(* A computation ends, and waits for a message, or goes on to undo.        *)
Resting(u, conv, m) ==
  /\ conv \in Conversation
  /\ conv.stage = at[u].stage /\ conv.flow = at[u].flow
  /\ conv.phone = at[u].phone /\ conv.new = at[u].new
  /\ conv.pc \in {"await", "judge", "end"}
  /\ conv.mode = "CREATION" => conv.pc \in {"judge", "end"} /\ conv.stage = "waiting"
  /\ m \in Message /\ m.text \notin Closings

LEMMA Rested ==
  ASSUME Inv, NEW u \in Users, at[u].stage # "none", NEW conv, NEW m, SetsTo(u, conv, m),
         Resting(u, conv, m), TablesOf(u), TablesOK', NewOK(u)'
  PROVE  Inv'
<1>1. at'[u] = conv /\ told'[u] = m /\ conv \in Conversation' /\ m \in Message'
  BY SetIs, Grown DEF Resting
<1>2. ControlOK(u)'
  BY <1>1, Now DEF Resting, ControlOK, Uploads, Jobs, Moves, Settling, Undoing
<1>3. RowOK(u)'
  BY <1>1 DEF Resting, RowOK, Uploads, Jobs, Moves, Settling, Driving, Settled
<1>4. YangoOK(u)'
  BY <1>1 DEF Resting, YangoOK, Pending, Saved, Settled, Moved, Settling
<1>5. ClosingOK(u)'
  BY <1>1 DEF Resting, ClosingOK
<1>6. UserOK(u)'
  BY <1>2, <1>3, <1>4, <1>5 DEF UserOK
<1> QED BY <1>1, <1>6, StepOf DEF Resting

(* Nothing is undone as a creation but by the workers.                     *)
LEMMA RestsNew ==
  ASSUME Inv, NEW u \in Users, NEW conv, NEW m, SetsTo(u, conv, m), Resting(u, conv, m),
         conv.mode = "UPDATE" \/ conv.pc = "end",
         Registering(u) =>
           /\ u \in Holders' /\ Last'[u].phone = Last[u].phone
           /\ Last'[u].card = Last[u].card
           /\ Last'[u].profile = Last[u].profile
           /\ Last[u].past = << >> => Last'[u].past = << >>
  PROVE  NewOK(u)'
<1>1. at'[u] = conv
  BY SetIs
<1>2. ~Created(u)'
  BY <1>1 DEF Created, Undoing
<1>3. (Registering(u)' => Registering(u)) /\ ~Saved(u)'
  BY <1>1 DEF Resting, Registering, Saved, Jobs, Settling
<1> QED BY <1>1, <1>2, <1>3, Now DEF NewOK, Resting

LEMMA QuietRest ==
  ASSUME Inv, NEW u \in Users, at[u].stage # "none", NEW conv, NEW m, SetsTo(u, conv, m),
         Resting(u, conv, m), conv.mode = "UPDATE" \/ conv.pc = "end",
         UNCHANGED <<tables, park, confirmed>>
  PROVE  Inv'
<1>1. TablesOf(u) /\ TablesOK' /\ Holders' = Holders /\ Last' = Last
  BY QuietTables
<1>2. Registering(u) => u \in Holders
  BY Now DEF NewOK
<1>3. NewOK(u)'
  BY <1>1, <1>2, RestsNew
<1> QED BY <1>1, <1>3, Rested

LEMMA IdleFacts ==
  ASSUME Inv, NEW u \in Users, NEW mode \in {"UPDATE", "CREATION"}
  PROVE  LET c == Idle(at[u])
             j == [Idle(at[u]) EXCEPT !.pc = "judge", !.mode = mode]
         IN /\ c \in Conversation /\ c.stage = at[u].stage /\ c.flow = at[u].flow
            /\ c.phone = at[u].phone /\ c.new = at[u].new /\ c.pc = "await" /\ c.mode = "UPDATE"
            /\ j \in Conversation /\ j.stage = at[u].stage /\ j.flow = at[u].flow
            /\ j.phone = at[u].phone /\ j.new = at[u].new /\ j.pc = "judge" /\ j.mode = mode
<1>1. None \in CarIds /\ None \in 0..Len(park)
  BY DEF Inv, TablesOK, CarsOK, ParkOK, CarIds, None
<1> QED BY <1>1, Now DEF Idle, Conversation, Labels, Working

(* abortConversation, and the answer to a document that is refused.        *)
LEMMA AbortIs ==
  ASSUME Inv, NEW u \in Users, NEW mode \in {"UPDATE", "CREATION"}, Abort(u, mode),
         mode = "CREATION" => at[u].stage = "waiting"
  PROVE  \E conv, m : SetsTo(u, conv, m) /\ Resting(u, conv, m) /\ conv.mode = mode
                        /\ conv.pc = "judge"
<1> DEFINE conv == [Idle(at[u]) EXCEPT !.pc = "judge", !.mode = mode]
           m == IF at[u].flow = "register"
                THEN [Silence EXCEPT !.text = "retry", !.phone = at[u].phone] ELSE Silence
<1>1. m \in Message /\ m.text \notin Closings
  BY Words, Now DEF Message, Closings, Conversation, Silence
<1>2. SetsTo(u, conv, m)
  BY DEF Abort, Set, SetsTo
<1>3. /\ conv \in Conversation /\ conv.stage = at[u].stage /\ conv.flow = at[u].flow
      /\ conv.phone = at[u].phone /\ conv.new = at[u].new /\ conv.pc = "judge" /\ conv.mode = mode
  BY IdleFacts
<1> HIDE DEF conv, m
<1> QED BY <1>1, <1>2, <1>3 DEF Resting

LEMMA RefuseIs ==
  ASSUME Inv, NEW u \in Users, Refuse(u), at[u].stage \in {"front", "back", "photo"}
  PROVE  \E conv, m : SetsTo(u, conv, m) /\ Resting(u, conv, m) /\ conv.mode = "UPDATE"
<1>1. CASE Abort(u, "UPDATE")
  BY <1>1, AbortIs
<1>2. CASE Set(u, Idle(at[u])) /\ UNCHANGED told
  <2> DEFINE conv == Idle(at[u])
             m == told[u]
  <2>1. SetsTo(u, conv, m)
    BY <1>2 DEF Set, SetsTo, Inv, ShapeOK
  <2>2. m \in Message /\ m.text \notin Closings
    BY Now DEF ClosingOK
  <2>3. /\ conv \in Conversation /\ conv.stage = at[u].stage /\ conv.flow = at[u].flow
        /\ conv.phone = at[u].phone /\ conv.new = at[u].new /\ conv.pc = "await"
        /\ conv.mode = "UPDATE"
    BY IdleFacts
  <2> HIDE DEF conv, m
  <2> QED BY <2>1, <2>2, <2>3 DEF Resting
<1> QED BY <1>1, <1>2 DEF Refuse

LEMMA FailIs ==
  ASSUME Inv, NEW u \in Users, Fail(u), at[u].stage = "waiting"
  PROVE  \E conv, m : /\ SetsTo(u, conv, m) /\ Resting(u, conv, m) /\ conv.pc = "judge"
                      /\ conv.mode = IF at[u].flow = "register" THEN "CREATION" ELSE "UPDATE"
<1> DEFINE mode == IF at[u].flow = "register" THEN "CREATION" ELSE "UPDATE"
<1>1. Abort(u, mode) /\ mode \in {"UPDATE", "CREATION"}
  BY DEF Fail
<1> HIDE DEF mode
<1>2. \E conv, m : SetsTo(u, conv, m) /\ Resting(u, conv, m) /\ conv.mode = mode
                     /\ conv.pc = "judge"
  BY <1>1, AbortIs
<1> QED BY <1>2 DEF mode

(***************************************************************************)
(* The steps that leave the tables as they are.                            *)
(***************************************************************************)
LEMMA QuietStep ==
  ASSUME Inv, NEW u \in Users, NEW conv, NEW m, SetsTo(u, conv, m),
         conv \in Conversation, m \in Message, UNCHANGED <<tables, park, confirmed>>,
         UserOK(u)', ~(conv.flow = "register" /\ conv.pc \in {"bind", "save"})
  PROVE  Inv'
<1>1. TablesOf(u) /\ TablesOK' /\ Conversation' = Conversation /\ Message' = Message
  BY QuietTables
<1> QED BY <1>1, StepOf

LEMMA SetOnly ==
  ASSUME Inv, NEW u \in Users, NEW conv, Set(u, conv), told' = told
  PROVE  SetsTo(u, conv, told[u])
BY DEF Set, SetsTo, Inv, ShapeOK

(* Outside the documents a conversation has no row of its own.             *)
LEMMA OutsideStep ==
  ASSUME Inv, NEW u \in Users, NEW conv, NEW m, SetsTo(u, conv, m),
         conv \in Conversation, m \in Message, UNCHANGED <<tables, park, confirmed>>,
         conv.stage \in {"none", "menu"}, conv.pc = "await", conv.mode = "UPDATE",
         conv.stage = "menu" => m.text \notin Closings,
         m.text \in Closings => m = told[u]
  PROVE  Inv'
<1>1. at'[u] = conv /\ told'[u] = m
  BY SetIs
<1>2. /\ TablesOK' /\ Rows' = Rows /\ Holders' = Holders /\ Last' = Last
      /\ Conversation' = Conversation /\ Message' = Message /\ park' = park
  BY QuietTables
<1>3. ControlOK(u)'
  BY <1>1, <1>2 DEF ControlOK, Documents, Uploads, Jobs, Moves, Settling
<1>4. RowOK(u)' /\ NewOK(u)' /\ YangoOK(u)'
  BY <1>1 DEF RowOK, NewOK, YangoOK, Registering, Created, Pending, Uploads, Jobs, Moves,
              Settling, Driving, Settled, Saved, Moved
<1>5. ClosingOK(u)'
  <2>1. ASSUME m.text \in Closings
        PROVE  /\ \E d \in Rows' : d.wha = u /\ TrueOf(d, m)'
               /\ m.text = "moved" => Carded(m.phone)'
    <3>1. PICK d \in Rows : d.wha = u /\ TrueOf(d, m)
      BY <2>1, Now DEF ClosingOK
    <3>2. m.text = "moved" => Carded(m.phone)'
      BY <1>2, <2>1, Now DEF ClosingOK, Carded
    <3> QED BY <1>2, <3>1, <3>2 DEF TrueOf
  <2> QED BY <1>1, <2>1 DEF ClosingOK, TrueOf
<1>6. UserOK(u)'
  BY <1>3, <1>4, <1>5 DEF UserOK
<1> QED BY <1>6, QuietStep

LEMMA StartStep ==
  ASSUME Inv, NEW u \in Users, Start(u) \/ Leave(u) \/ End(u)
  PROVE  Inv'
<1>0. Nobody \in Conversation /\ Silence \in Message /\ told[u] \in Message
  BY Words, Now
<1>1. CASE Start(u)
  <2> DEFINE conv == [Nobody EXCEPT !.stage = "menu"]
  <2>1. /\ conv \in Conversation /\ conv.stage = "menu" /\ conv.pc = "await"
        /\ conv.mode = "UPDATE"
    BY <1>0, Words DEF Conversation, Stages
  <2>2. SetsTo(u, conv, Silence) /\ UNCHANGED <<tables, park, confirmed>>
    BY <1>1 DEF Start, Set, SetsTo
  <2>3. Silence.text \notin Closings
    BY Words DEF Closings
  <2> HIDE DEF conv
  <2> QED BY <1>0, <2>1, <2>2, <2>3, OutsideStep
<1>2. CASE Leave(u) \/ End(u)
  <2>1. SetsTo(u, Nobody, told[u]) /\ UNCHANGED <<tables, park, confirmed>>
    BY <1>2, SetOnly DEF Leave, End
  <2> QED BY <1>0, <2>1, Words, OutsideStep
<1> QED BY <1>1, <1>2

LEMMA NumberStep ==
  ASSUME Inv, NEW u \in Users, GiveNumber(u)
  PROVE  Inv'
<1>0. /\ at[u] \in Conversation /\ at[u].stage = "menu" /\ at[u].pc = "await"
      /\ at[u].mode = "UPDATE" /\ told[u].text \notin Closings /\ told[u] \in Message
      /\ told' = told /\ UNCHANGED <<tables, park, confirmed>>
  BY Now DEF GiveNumber, Awaits, At, ControlOK, ClosingOK, Undoing, Conversation
<1>1. /\ TablesOK' /\ Rows' = Rows /\ Conversation' = Conversation /\ Message' = Message
  BY <1>0, QuietTables
<1>2. PICK p \in Phones :
       /\ Owner[p] = u
       /\ \/ /\ ByPhone(p) = {}
             /\ Set(u, [at[u] EXCEPT !.stage = "front", !.flow = "register", !.phone = p])
          \/ /\ ByPhone(p) # {}
             /\ Set(u, [at[u] EXCEPT !.stage = "photo", !.flow = "change", !.phone = p])
          \/ /\ ByPhone(p) # {}
             /\ \E q \in Phones :
                  /\ Owner[q] = u /\ ByPhone(q) = {}
                  /\ Set(u, [at[u] EXCEPT !.stage = "waiting", !.pc = "number",
                                          !.flow = "move", !.phone = p, !.new = q])
  BY DEF GiveNumber
<1>3. ASSUME NEW conv \in Conversation, Set(u, conv),
             conv.pc = "await", conv.mode = "UPDATE", conv.phone = p,
             \/ conv.stage = "front" /\ conv.flow = "register"
             \/ conv.stage = "photo" /\ conv.flow = "change"
      PROVE  Inv'
  <2>1. SetsTo(u, conv, told[u])
    BY <1>0, <1>3, SetOnly
  <2>2. at'[u] = conv /\ told'[u] = told[u]
    BY <2>1, SetIs
  <2>3. ControlOK(u)'
    BY <1>0, <1>1, <1>2, <1>3, <2>2
    DEF ControlOK, Documents, Uploads, Jobs, Moves, Settling
  <2>4. RowOK(u)' /\ NewOK(u)' /\ YangoOK(u)' /\ ClosingOK(u)'
    BY <1>0, <1>3, <2>2
    DEF RowOK, NewOK, YangoOK, ClosingOK, Registering, Created, Pending, Uploads, Jobs, Moves,
        Settling, Driving, Settled, Saved, Moved
  <2> QED BY <1>0, <1>3, <2>1, <2>3, <2>4, QuietStep DEF UserOK
<1>4. ASSUME NEW q \in Phones, Owner[q] = u, ByPhone(q) = {}, ByPhone(p) # {},
             NEW conv \in Conversation, Set(u, conv),
             conv.pc = "number", conv.mode = "UPDATE", conv.phone = p, conv.new = q,
             conv.stage = "waiting", conv.flow = "move"
      PROVE  Inv'
  <2>1. SetsTo(u, conv, told[u])
    BY <1>0, <1>4, SetOnly
  <2>2. at'[u] = conv /\ told'[u] = told[u]
    BY <2>1, SetIs
  <2>3. ControlOK(u)'
    BY <1>0, <1>1, <1>2, <1>4, <2>2
    DEF ControlOK, Documents, Uploads, Jobs, Moves, Settling
  <2>4. RowOK(u)'
    <3>1. (\E d \in Rows : d.phone = p) /\ \A d \in Rows : d.phone # q
      BY <1>4, Lookups
    <3> QED BY <1>1, <1>4, <2>2, <3>1 DEF RowOK, MineOf, Uploads, Jobs, Moves, Settling, Driving,
                                          Settled
  <2>5. NewOK(u)' /\ YangoOK(u)' /\ ClosingOK(u)'
    BY <1>0, <1>4, <2>2
    DEF NewOK, YangoOK, ClosingOK, Registering, Created, Pending, Jobs, Saved, Settling, Settled,
        Moved
  <2> QED BY <1>0, <1>4, <2>1, <2>3, <2>4, <2>5, QuietStep DEF UserOK
<1>5. CASE Set(u, [at[u] EXCEPT !.stage = "front", !.flow = "register", !.phone = p])
  <2> DEFINE conv == [at[u] EXCEPT !.stage = "front", !.flow = "register", !.phone = p]
  <2>1. /\ conv \in Conversation /\ conv.pc = "await" /\ conv.mode = "UPDATE"
        /\ conv.phone = p /\ conv.stage = "front" /\ conv.flow = "register"
    BY <1>0 DEF Conversation, Stages
  <2>2. Set(u, conv)
    BY <1>5
  <2> HIDE DEF conv
  <2> QED BY <1>3, <2>1, <2>2
<1>6. CASE Set(u, [at[u] EXCEPT !.stage = "photo", !.flow = "change", !.phone = p])
  <2> DEFINE conv == [at[u] EXCEPT !.stage = "photo", !.flow = "change", !.phone = p]
  <2>1. /\ conv \in Conversation /\ conv.pc = "await" /\ conv.mode = "UPDATE"
        /\ conv.phone = p /\ conv.stage = "photo" /\ conv.flow = "change"
    BY <1>0 DEF Conversation, Stages
  <2>2. Set(u, conv)
    BY <1>6
  <2> HIDE DEF conv
  <2> QED BY <1>3, <2>1, <2>2
<1>7. ASSUME NEW q \in Phones, Owner[q] = u, ByPhone(q) = {}, ByPhone(p) # {},
             Set(u, [at[u] EXCEPT !.stage = "waiting", !.pc = "number",
                                  !.flow = "move", !.phone = p, !.new = q])
      PROVE  Inv'
  <2> DEFINE conv == [at[u] EXCEPT !.stage = "waiting", !.pc = "number",
                                   !.flow = "move", !.phone = p, !.new = q]
  <2>1. /\ conv \in Conversation /\ conv.pc = "number" /\ conv.mode = "UPDATE"
        /\ conv.phone = p /\ conv.stage = "waiting" /\ conv.flow = "move" /\ conv.new = q
    BY <1>0 DEF Conversation, Stages, Labels, Working
  <2>2. Set(u, conv)
    BY <1>7
  <2> HIDE DEF conv
  <2> QED BY <1>4, <1>7, <2>1, <2>2
<1> QED BY <1>2, <1>5, <1>6, <1>7

LEMMA GiveUpStep ==
  ASSUME Inv, NEW u \in Users, GiveUp(u)
  PROVE  Inv'
<1>1. at[u].stage # "none" /\ UNCHANGED <<tables, park, confirmed>>
  BY DEF GiveUp
<1>2. CASE Abort(u, "UPDATE")
  <2>1. PICK conv, m : SetsTo(u, conv, m) /\ Resting(u, conv, m) /\ conv.mode = "UPDATE"
    BY <1>2, AbortIs
  <2> QED BY <1>1, <2>1, QuietRest
<1>3. CASE /\ Set(u, [Idle(at[u]) EXCEPT !.pc = "judge"])
           /\ told' = [told EXCEPT ![u] = Silence]
  <2> DEFINE idle == Idle(at[u])
             conv == [idle EXCEPT !.pc = "judge"]
  <2>1. SetsTo(u, conv, Silence)
    BY <1>3 DEF Set, SetsTo
  <2>2. /\ idle \in Conversation /\ idle.stage = at[u].stage /\ idle.flow = at[u].flow
        /\ idle.phone = at[u].phone /\ idle.new = at[u].new /\ idle.mode = "UPDATE"
    BY IdleFacts
  <2> HIDE DEF idle
  <2>3. /\ conv \in Conversation /\ conv.stage = at[u].stage /\ conv.flow = at[u].flow
        /\ conv.phone = at[u].phone /\ conv.new = at[u].new /\ conv.mode = "UPDATE"
        /\ conv.pc = "judge"
    BY <2>2 DEF Conversation, Labels, Working
  <2> HIDE DEF conv
  <2>4. Resting(u, conv, Silence)
    BY <2>3, Words DEF Resting, Closings
  <2> QED BY <1>1, <2>1, <2>3, <2>4, QuietRest
<1> QED BY <1>2, <1>3 DEF GiveUp

(* The documents, as far as the tables stay as they are.                   *)
LEMMA OpenTold ==
  ASSUME Inv, NEW u \in Users, at[u].stage \in {"front", "back", "photo"}
           \/ at[u].pc \notin {"await", "told", "end"}
  PROVE  told[u].text \notin Closings /\ at[u].stage # "none"
BY Now DEF ClosingOK, ControlOK

LEMMA RefuseQuietly ==
  ASSUME Inv, NEW u \in Users, at[u].stage \in {"front", "back", "photo"}, Refuse(u),
         UNCHANGED <<tables, park, confirmed>>
  PROVE  Inv'
<1>1. PICK conv, m : SetsTo(u, conv, m) /\ Resting(u, conv, m) /\ conv.mode = "UPDATE"
  BY RefuseIs
<1> QED BY <1>1, QuietRest

(* A computation goes on with a document.                                  *)
LEMMA Uploading ==
  ASSUME Inv, NEW u \in Users, NEW conv \in Conversation, Set(u, conv), told' = told,
         UNCHANGED <<tables, park, confirmed>>,
         at[u].stage \in {"back", "photo"}, conv.stage = at[u].stage,
         conv.flow = at[u].flow, conv.phone = at[u].phone, conv.new = at[u].new,
         conv.mode = "UPDATE", conv.pc \in Uploads \cup {"advance"},
         conv.stage = "back" => conv.pc = "advance",
         conv.stage = "photo" => MineOf(u) # {},
         conv.pc = "create" => conv.plate \in Plates,
         conv.pc = "close" => conv.flow = "change"
  PROVE  Inv'
<1>1. SetsTo(u, conv, told[u])
  BY SetOnly
<1>2. at'[u] = conv /\ told'[u] = told[u]
  BY <1>1, SetIs
<1>3. /\ TablesOK' /\ Rows' = Rows /\ Holders' = Holders /\ Last' = Last
      /\ Conversation' = Conversation /\ Message' = Message /\ confirmed' = confirmed
  BY QuietTables
<1>4. ControlOK(u)'
  BY <1>2, <1>3, Now DEF ControlOK, Documents, Uploads, Jobs, Moves, Settling
<1>5. RowOK(u)'
  BY <1>2, <1>3 DEF RowOK, MineOf, Uploads, Jobs, Moves, Settling, Driving, Settled
<1>6. NewOK(u)'
  BY <1>2, <1>3, Now DEF NewOK, Registering, Created, Saved, Uploads, Settling, Jobs
<1>7. YangoOK(u)' /\ ClosingOK(u)'
  BY <1>2, OpenTold DEF YangoOK, ClosingOK, Pending, Uploads, Saved, Settled, Moved, Settling
<1> QED BY <1>1, <1>4, <1>5, <1>6, <1>7, Now, QuietStep DEF UserOK, Uploads

LEMMA ByPhoneMine == \A u : MineOf(u) = {} <=> ByPhone(at[u].phone) = {}
BY Lookups DEF MineOf

LEMMA BackStep ==
  ASSUME Inv, NEW u \in Users, ReadBack(u)
  PROVE  Inv'
<1>1. /\ at[u].stage = "back" /\ at[u].pc = "await" /\ at[u] \in Conversation
      /\ UNCHANGED <<tables, park, confirmed>> /\ at[u].mode = "UPDATE"
  BY Now DEF ReadBack, Awaits, At, ControlOK, Undoing, Conversation
<1>2. CASE Goto(u, "advance") /\ UNCHANGED told
  <2> DEFINE conv == [at[u] EXCEPT !.pc = "advance"]
  <2>1. /\ conv \in Conversation /\ conv.stage = at[u].stage
        /\ conv.flow = at[u].flow /\ conv.phone = at[u].phone /\ conv.new = at[u].new
        /\ conv.mode = "UPDATE" /\ conv.pc = "advance"
    BY <1>1 DEF Conversation, Labels, Working
  <2>2. Set(u, conv)
    BY <1>2 DEF Goto, Set
  <2> HIDE DEF conv
  <2> QED BY <1>1, <1>2, <2>1, <2>2, Uploading
<1>3. CASE Refuse(u)
  BY <1>1, <1>3, RefuseQuietly
<1> QED BY <1>2, <1>3 DEF ReadBack

LEMMA LinkIs ==
  ASSUME NEW u
  PROVE  Link(u) \in {"close", "associate"} /\ (Link(u) = "close" => at[u].flow = "change")
BY DEF Link

LEMMA PlateStep ==
  ASSUME Inv, NEW u \in Users, ReadPlate(u)
  PROVE  Inv'
<1>1. /\ at[u].stage = "photo" /\ at[u].pc = "await" /\ at[u] \in Conversation
      /\ UNCHANGED <<tables, park, confirmed>> /\ at[u].mode = "UPDATE"
  BY Now DEF ReadPlate, Awaits, At, ControlOK, Undoing, Conversation
<1>2. CASE Refuse(u)
  BY <1>1, <1>2, RefuseQuietly
<1>3. CASE ~Refuse(u)
  <2>1. PICK plate \in Plates :
          /\ ByPhone(at[u].phone) # {}
          /\ \/ Set(u, [at[u] EXCEPT !.pc = "create", !.plate = plate]) /\ UNCHANGED told
             \/ \E c \in ByPlate(plate) :
                   /\ Set(u, [at[u] EXCEPT !.pc = Link(u), !.plate = plate, !.car = c.id])
                   /\ UNCHANGED told
    BY <1>3 DEF ReadPlate
  <2>2. MineOf(u) # {}
    BY <2>1, ByPhoneMine
  <2>3. CASE Set(u, [at[u] EXCEPT !.pc = "create", !.plate = plate]) /\ UNCHANGED told
    <3> DEFINE conv == [at[u] EXCEPT !.pc = "create", !.plate = plate]
    <3>1. /\ conv \in Conversation /\ conv.stage = at[u].stage
          /\ conv.flow = at[u].flow /\ conv.phone = at[u].phone /\ conv.new = at[u].new
          /\ conv.mode = "UPDATE" /\ conv.pc = "create" /\ conv.plate = plate
      BY <1>1 DEF Conversation, Labels, Working
    <3>2. Set(u, conv)
      BY <2>3
    <3> HIDE DEF conv
    <3> QED BY <1>1, <2>2, <2>3, <3>1, <3>2, Uploading DEF Uploads
  <2>4. ASSUME NEW c \in ByPlate(plate), UNCHANGED told,
               Set(u, [at[u] EXCEPT !.pc = Link(u), !.plate = plate, !.car = c.id])
        PROVE  Inv'
    <3> DEFINE conv == [at[u] EXCEPT !.pc = Link(u), !.plate = plate, !.car = c.id]
    <3>0. c.id \in CarIds /\ Link(u) \in Labels
      BY LinkIs, Now DEF ByPlate, CarsOK, CarRow, Labels
    <3>1. /\ conv \in Conversation /\ conv.stage = at[u].stage
          /\ conv.flow = at[u].flow /\ conv.phone = at[u].phone /\ conv.new = at[u].new
          /\ conv.mode = "UPDATE" /\ conv.pc = Link(u)
      BY <1>1, <3>0 DEF Conversation
    <3>2. Set(u, conv)
      BY <2>4
    <3> HIDE DEF conv
    <3> QED BY <1>1, <2>2, <2>4, <3>1, <3>2, LinkIs, Uploading DEF Uploads
  <2> QED BY <2>1, <2>3, <2>4
<1> QED BY <1>2, <1>3

LEMMA AdvanceStep ==
  ASSUME Inv, NEW u \in Users, Advance(u)
  PROVE  Inv'
<1>1. /\ at[u].pc = "advance" /\ at[u].stage \in {"front", "back", "photo"}
      /\ at[u].mode = "UPDATE" /\ UNCHANGED <<tables, park, confirmed>> /\ told' = told
      /\ at[u] \in Conversation /\ at[u].flow \in {"register", "change"}
      /\ at[u].phone \in Phones /\ Owner[at[u].phone] = u
  BY Now DEF Advance, At, ControlOK, Undoing, Conversation, Documents
<1> DEFINE stage == NextStage[at[u].stage]
           pc == IF at[u].stage = "photo" THEN "take" ELSE "await"
           conv == [at[u] EXCEPT !.stage = stage, !.pc = pc]
<1>2. /\ stage = IF at[u].stage = "front" THEN "back"
                 ELSE IF at[u].stage = "back" THEN "photo" ELSE "waiting"
      /\ stage \in Stages /\ pc \in Labels
  BY <1>1 DEF NextStage, Stages, Labels, Working
<1> HIDE DEF stage
<1>3. /\ conv \in Conversation /\ conv.stage = stage /\ conv.pc = pc
      /\ conv.flow = at[u].flow /\ conv.phone = at[u].phone /\ conv.new = at[u].new
      /\ conv.mode = "UPDATE"
  BY <1>1, <1>2 DEF Conversation
<1>4. SetsTo(u, conv, told[u])
  <2>1. Set(u, conv)
    BY DEF Advance, Set, stage
  <2> QED BY <1>1, <2>1, SetOnly
<1> HIDE DEF conv
<1>5. at'[u] = conv /\ told'[u] = told[u]
  BY <1>4, SetIs
<1>6. /\ TablesOK' /\ Rows' = Rows /\ Holders' = Holders /\ Last' = Last
      /\ Conversation' = Conversation /\ Message' = Message /\ confirmed' = confirmed
  BY <1>1, QuietTables
<1>7. ControlOK(u)'
  BY <1>1, <1>2, <1>3, <1>5, <1>6, Now DEF ControlOK, Documents, Uploads, Jobs, Moves, Settling
<1>8. RowOK(u)'
  <2>1. at[u].stage = "photo" => MineOf(u) # {}
    BY <1>1, Now DEF RowOK
  <2> QED BY <1>1, <1>2, <1>3, <1>5, <1>6, <2>1 DEF RowOK, MineOf, Uploads, Jobs, Moves, Settling,
                                                    Driving, Settled
<1>9. NewOK(u)'
  BY <1>1, <1>2, <1>3, <1>5, <1>6, Now DEF NewOK, Registering, Created, Jobs, Saved, Settling
<1>10. YangoOK(u)' /\ ClosingOK(u)'
  BY <1>1, <1>2, <1>3, <1>5, OpenTold DEF YangoOK, ClosingOK, Pending, Saved, Settled, Moved,
                                          Settling
<1> QED BY <1>1, <1>3, <1>4, <1>7, <1>8, <1>9, <1>10, Now, QuietStep DEF UserOK

(***************************************************************************)
(* The workers, as far as the tables stay as they are.                     *)
(***************************************************************************)
LEMMA Driven ==
  ASSUME Inv, NEW u \in Users, Driving(u)
  PROVE  /\ Mine(u) \in DOMAIN drivers /\ drivers[Mine(u)] = Driver(u)
         /\ MineOf(u) = {Driver(u)}
         /\ Driver(u) \in Rows /\ Driver(u).phone = at[u].phone /\ Driver(u).wha = u
         /\ Driver(u) \in DriverRow
         /\ Registering(u) \/ Saved(u) => Last[u] = Driver(u)
<1>1. MineOf(u) # {} /\ at[u].stage \in Documents
  BY Now DEF RowOK, ControlOK, Uploads, Jobs, Moves, Settling, Documents, Driving, Settled
<1>2. /\ Mine(u) \in DOMAIN drivers /\ drivers[Mine(u)] = Driver(u)
      /\ MineOf(u) = {Driver(u)}
      /\ Driver(u) \in Rows /\ Driver(u).phone = at[u].phone
  BY <1>1, MineThere, Now
<1>3. Driver(u).wha = u /\ Driver(u) \in DriverRow
  BY <1>1, <1>2, RowFacts, Now DEF RowOfOwner, ControlOK
<1>4. Registering(u) \/ Saved(u) => Last[u] = Driver(u)
  <2>1. Registering(u) \/ Saved(u) => u \in Holders /\ Last[u].phone = at[u].phone
    BY Now DEF NewOK
  <2>2. Registering(u) \/ Saved(u) => Last[u] \in MineOf(u)
    BY <2>1, LastIs, Now DEF MineOf
  <2> QED BY <1>2, <2>2
<1> QED BY <1>2, <1>3, <1>4

(* A job that fails: what a registration has created was not confirmed.    *)
LEMMA FailStep ==
  ASSUME Inv, NEW u \in Users, Fail(u), at[u].pc \in Jobs \cup Moves \cup Settling,
         TablesOf(u), TablesOK',
         at[u].flow = "register" => u \in Holders' /\ Last'[u].profile \notin confirmed'
  PROVE  Inv'
<1>1. at[u].stage = "waiting"
  BY Now DEF ControlOK, Jobs, Moves
<1>2. PICK conv, m : /\ SetsTo(u, conv, m) /\ Resting(u, conv, m) /\ conv.pc = "judge"
                     /\ conv.mode = IF at[u].flow = "register" THEN "CREATION" ELSE "UPDATE"
  BY <1>1, FailIs
<1>3. at'[u] = conv
  BY <1>2, SetIs
<1>4. NewOK(u)'
  BY <1>1, <1>2, <1>3 DEF NewOK, Resting, Registering, Created, Jobs, Saved, Settling
<1> QED BY <1>1, <1>2, <1>4, Rested

LEMMA Blank ==
  ASSUME Inv, NEW u \in Users, Registering(u)
  PROVE  u \in Holders /\ Last[u].profile = None /\ None \notin confirmed
<1>1. None \notin DOMAIN park
  BY Now DEF ParkOK, None
<1> QED BY <1>1, Now DEF NewOK, ConfirmedOK

LEMMA FailQuietly ==
  ASSUME Inv, NEW u \in Users, Fail(u), at[u].pc \in Jobs \cup Moves,
         UNCHANGED <<tables, park, confirmed>>
  PROVE  Inv'
<1>1. TablesOf(u) /\ TablesOK' /\ Holders' = Holders /\ Last' = Last /\ confirmed' = confirmed
  BY QuietTables
<1>2. at[u].flow = "register" => Registering(u)
  BY Now DEF Registering, ControlOK, Moves
<1> QED BY <1>1, <1>2, Blank, FailStep

LEMMA TakeStep ==
  ASSUME Inv, NEW u \in Users, TakeJob(u)
  PROVE  Inv'
<1>1. /\ at[u].pc = "take" /\ at[u] \in Conversation /\ at[u].stage = "waiting"
      /\ at[u].mode = "UPDATE" /\ UNCHANGED <<tables, park, confirmed>>
      /\ at[u].flow \in {"register", "change"}
      /\ at[u].phone \in Phones /\ Owner[at[u].phone] = u
  BY Now DEF TakeJob, At, ControlOK, Undoing, Conversation, Documents, Jobs
<1>2. CASE Fail(u)
  BY <1>1, <1>2, FailQuietly DEF Jobs
<1>3. CASE ~Fail(u)
  <2>1. PICK id \in JobCars(u) : \E c \in Row(id) :
           /\ Set(u, [at[u] EXCEPT !.car = id, !.plate = c.plate,
                                   !.pc = IF ~c.yango THEN "vehicle"
                                          ELSE IF at[u].flow = "register" THEN "profile"
                                          ELSE "bind"])
           /\ told' = told
    BY <1>3 DEF TakeJob
  <2>2. PICK c \in Row(id) :
           /\ Set(u, [at[u] EXCEPT !.car = id, !.plate = c.plate,
                                   !.pc = IF ~c.yango THEN "vehicle"
                                          ELSE IF at[u].flow = "register" THEN "profile"
                                          ELSE "bind"])
           /\ told' = told
    BY <2>1
  <2> DEFINE pc == IF ~c.yango THEN "vehicle"
                   ELSE IF at[u].flow = "register" THEN "profile" ELSE "bind"
             conv == [at[u] EXCEPT !.car = id, !.plate = c.plate, !.pc = pc]
  <2>3. /\ pc \in {"vehicle", "profile", "bind"} /\ pc \in Labels
        /\ pc = "bind" => at[u].flow # "register"
    BY DEF Labels, Working
  <2> HIDE DEF pc
  <2>4. c.id = id /\ id \in CarIds /\ c.plate \in Plates
    BY Now DEF Row, CarsOK, CarRow
  <2>5. /\ conv \in Conversation /\ conv.stage = "waiting" /\ conv.pc = pc
        /\ conv.flow = at[u].flow /\ conv.phone = at[u].phone /\ conv.new = at[u].new
        /\ conv.mode = "UPDATE" /\ conv.car = id
    BY <1>1, <2>3, <2>4 DEF Conversation
  <2>6. SetsTo(u, conv, told[u])
    BY <2>2, SetOnly DEF pc
  <2> HIDE DEF conv
  <2>7. at'[u] = conv /\ told'[u] = told[u]
    BY <2>6, SetIs
  <2>8. /\ TablesOK' /\ Rows' = Rows /\ Holders' = Holders /\ Last' = Last
        /\ Conversation' = Conversation /\ Message' = Message /\ confirmed' = confirmed
    BY <1>1, QuietTables
  <2>9. MineOf(u) = {Driver(u)} /\ Driver(u).car = id
    <3>1. /\ MineOf(u) = {Driver(u)} /\ Driver(u) \in DriverRow
          /\ Registering(u) => Last[u] = Driver(u)
      BY <1>1, Driven DEF Driving, Jobs
    <3>2. Registering(u) => Driver(u).past = << >>
      BY <3>1, Now DEF NewOK
    <3>3. at[u].flow = "register" => PastCars(Driver(u)) = {}
      BY <1>1, <3>2 DEF Registering, Jobs, PastCars
    <3> QED BY <2>1, <3>1, <3>3 DEF JobCars, OpenCar
  <2>10. ControlOK(u)'
    BY <1>1, <2>3, <2>5, <2>7, <2>8, Now DEF ControlOK, Documents, Uploads, Jobs, Moves, Settling
  <2>11. RowOK(u)'
    BY <2>3, <2>5, <2>7, <2>8, <2>9 DEF RowOK, MineOf, Uploads, Jobs, Moves, Settling, Driving,
                                        Settled
  <2>12. NewOK(u)'
    BY <1>1, <2>3, <2>5, <2>7, <2>8, Now DEF NewOK, Registering, Created, Jobs, Saved, Settling
  <2>13. YangoOK(u)' /\ ClosingOK(u)'
    BY <1>1, <2>3, <2>5, <2>7, OpenTold DEF YangoOK, ClosingOK, Pending, Saved, Settled, Moved,
                                            Settling
  <2> QED BY <1>1, <2>3, <2>5, <2>6, <2>10, <2>11, <2>12, <2>13, Now, QuietStep DEF UserOK
<1> QED BY <1>2, <1>3

(***************************************************************************)
(* What happens to the tables.                                             *)
(***************************************************************************)
LEMMA SameDrivers ==
  ASSUME Inv, NEW u \in Users, drivers' = drivers, lastCar' \in Nat, lastCar' >= lastCar,
         ParkOK', Len(park') >= Len(park),
         \A k \in DOMAIN park : park'[k] = park[k] \/ Profiled(u, k),
         \A k \in confirmed' : k \in confirmed \/ Profiled(u, k)
  PROVE  TablesOf(u) /\ DriversOK' /\ Rows' = Rows /\ Holders' = Holders /\ Last' = Last
<1>1. Rows' = Rows /\ Holders' = Holders /\ Last' = Last
  BY DEF Rows, Holders, Last
<1>2. Len(park') \in Nat /\ lastCar \in Nat /\ Len(park) \in Nat
  BY Now DEF ParkOK, CarsOK
<1>3. DriversOK'
  <2>1. CarIds \subseteq CarIds' /\ 0..Len(park) \subseteq 0..Len(park')
    BY <1>2 DEF CarIds
  <2>2. Seq(CarIds \ {None}) \subseteq Seq(CarIds' \ {None})
    BY <2>1
  <2>3. DriverRow \subseteq DriverRow'
    BY <2>1, <2>2 DEF DriverRow
  <2>4. drivers \in Seq(DriverRow')
    <3>1. drivers \in Seq(DriverRow)
      BY Now DEF DriversOK, TableOK
    <3> QED BY <2>3, <3>1
  <2>5. DriversOK
    BY Now
  <2> QED BY <2>4, <2>5 DEF DriversOK, TableOK
<1>4. TablesOf(u)
  BY <1>1, <1>2 DEF TablesOf, Profiled
<1> QED BY <1>1, <1>3, <1>4

LEMMA SameTypes ==
  ASSUME lastCar' = lastCar, park' = park
  PROVE  /\ DriverRow' = DriverRow /\ Conversation' = Conversation /\ Message' = Message
         /\ CarIds' = CarIds /\ CarRow' = CarRow
BY DEF DriverRow, Conversation, Message, CarIds, CarRow

LEMMA SamePark ==
  ASSUME Inv, lastCar' = lastCar, park' = park
  PROVE  ParkOK' /\ lastCar' \in Nat /\ lastCar' >= lastCar
         /\ Len(park') \in Nat /\ Len(park') >= Len(park)
BY Now DEF Inv, TablesOK, ParkOK, CarsOK

LEMMA RowStep ==
  ASSUME Inv, NEW u \in Users, NEW i \in DOMAIN drivers, drivers[i].wha = u,
         NEW row \in DriverRow, RowOfOwner(row), row.wha = u,
         ApartFrom(row, Rows \ {drivers[i]}),
         drivers' = [drivers EXCEPT ![i] = row], lastCar' = lastCar, park' = park,
         \A k \in confirmed' : k \in confirmed \/ Profiled(u, k),
         row.profile = None \/ Profiled(u, row.profile)
  PROVE  /\ TablesOf(u) /\ DriversOK'
         /\ Rows' = (Rows \ {drivers[i]}) \cup {row}
         /\ u \in Holders /\ u \in Holders'
         /\ Last'[u] = IF Last[u] = drivers[i] THEN row ELSE Last[u]
<1>1. TableOK(drivers, DriverRow)
  BY Now DEF DriversOK
<1>0. row.wha = drivers[i].wha /\ ApartFrom(row, RowsOf(drivers) \ {drivers[i]})
  BY DEF Rows
<1>2. /\ TableOK(drivers', DriverRow)
      /\ Rows' = (Rows \ {drivers[i]}) \cup {row}
      /\ Holders' = Holders
      /\ \A v \in Holders : Last'[v] = IF Last[v] = drivers[i] THEN row ELSE Last[v]
  <2> DEFINE s == drivers
             t == drivers'
  <2>1. /\ TableOK(s, DriverRow) /\ i \in DOMAIN s /\ row.wha = s[i].wha
        /\ ApartFrom(row, RowsOf(s) \ {s[i]}) /\ Changed(s, i, row, t)
    BY <1>0, <1>1 DEF Changed
  <2> HIDE DEF s, t
  <2>2. /\ TableOK(t, DriverRow)
        /\ RowsOf(t) = (RowsOf(s) \ {s[i]}) \cup {row}
        /\ HoldersIn(t) = HoldersIn(s)
        /\ \A v \in HoldersIn(s) :
              LastIn(t)[v] = IF LastIn(s)[v] = s[i] THEN row ELSE LastIn(s)[v]
    BY <2>1, RowChanged
  <2> QED BY <2>2 DEF s, t, Rows, Holders, Last
<1>3. DriversOK'
  BY <1>2, SameTypes DEF DriversOK
<1>4. drivers[i] \in Rows /\ u \in Holders
  BY DEF Rows, RowsOf, Holders, HoldersIn
<1>5. \A v \in Holders \ {u} : v \in Holders' /\ Last'[v] = Last[v]
  BY <1>2, LastIs, Now
<1>6. TablesOf(u)
  BY <1>2, <1>5, SamePark DEF TablesOf, Profiled
<1> QED BY <1>2, <1>3, <1>4, <1>6

(* A row whose columns stay, but for the car.                              *)
Recar(row, d) ==
  /\ row \in DriverRow
  /\ row.wha = d.wha /\ row.phone = d.phone /\ row.licence = d.licence
  /\ row.card = d.card /\ row.profile = d.profile

LEMMA CarStep ==
  ASSUME Inv, NEW u \in Users, NEW i \in DOMAIN drivers, drivers[i].wha = u,
         NEW row, Recar(row, drivers[i]), drivers' = [drivers EXCEPT ![i] = row],
         lastCar' = lastCar, park' = park, confirmed' = confirmed
  PROVE  /\ TablesOf(u) /\ DriversOK' /\ ParkOK' /\ ConfirmedOK'
         /\ Rows' = (Rows \ {drivers[i]}) \cup {row}
         /\ u \in Holders /\ u \in Holders'
         /\ Last'[u] = IF Last[u] = drivers[i] THEN row ELSE Last[u]
<1>1. drivers[i] \in Rows
  BY DEF Rows, RowsOf
<1>2. RowOfOwner(row) /\ ApartFrom(row, Rows \ {drivers[i]})
  BY <1>1, RowFacts, Now DEF Recar, RowOfOwner, Apart, ApartFrom
<1>3. row.profile = None \/ Profiled(u, row.profile)
  BY <1>1 DEF Profiled, Recar
<1>4. row \in DriverRow /\ row.wha = u /\ \A k \in confirmed' : k \in confirmed \/ Profiled(u, k)
  BY DEF Recar
<1>6. /\ TablesOf(u) /\ DriversOK'
      /\ Rows' = (Rows \ {drivers[i]}) \cup {row}
      /\ u \in Holders /\ u \in Holders'
      /\ Last'[u] = IF Last[u] = drivers[i] THEN row ELSE Last[u]
  BY <1>2, <1>3, <1>4, RowStep
<1>5. ConfirmedOK'
  BY <1>6, Now DEF ConfirmedOK, Recar
<1> QED BY <1>5, <1>6, SamePark

LEMMA ReopenedIs ==
  ASSUME Inv, NEW d \in DriverRow
  PROVE  Recar(Reopened(d), d) /\ (d.past = << >> => Reopened(d).past = << >>)
<1>1. None \in CarIds /\ d.past \in Seq(CarIds \ {None})
  BY Now DEF Inv, TablesOK, CarsOK, CarIds, None, DriverRow
<1>2. CASE d.past = << >>
  BY <1>1, <1>2 DEF Reopened, Recar, DriverRow
<1>3. CASE d.past # << >>
  <2>1. Head(d.past) \in CarIds \ {None} /\ Tail(d.past) \in Seq(CarIds \ {None})
    BY <1>1, <1>3, HeadTailProperties
  <2> QED BY <1>3, <2>1 DEF Reopened, Recar, DriverRow
<1> QED BY <1>2, <1>3

LEMMA ClosedIs ==
  ASSUME Inv, NEW d \in DriverRow
  PROVE  Recar(Closed(d), d) /\ Closed(d).car = None
<1>1. None \in CarIds /\ d.past \in Seq(CarIds \ {None}) /\ d.car \in CarIds
  BY Now DEF Inv, TablesOK, CarsOK, CarIds, None, DriverRow
<1>2. CASE d.car = None
  BY <1>2 DEF Closed, Recar
<1>3. CASE d.car # None
  <2>1. <<d.car>> \o d.past \in Seq(CarIds \ {None})
    BY <1>1, <1>3
  <2>2. Closed(d) = [d EXCEPT !.car = None, !.past = <<d.car>> \o d.past]
    BY <1>3 DEF Closed
  <2> QED BY <1>1, <2>1, <2>2 DEF Recar, DriverRow
<1> QED BY <1>2, <1>3

LEMMA TakenStep ==
  ASSUME Inv, NEW u \in Holders, u \in Users, drivers' = Without(Newest(u)),
         Last[u].profile \notin confirmed,
         lastCar' = lastCar, park' = park, confirmed' = confirmed
  PROVE  TablesOf(u) /\ DriversOK' /\ ParkOK' /\ ConfirmedOK'
<1> DEFINE i == Newest(u)
<1>1. /\ i \in DOMAIN drivers /\ drivers[i] = Last[u] /\ Last[u].wha = u
      /\ TableOK(drivers, DriverRow)
  BY LastIs, Now DEF DriversOK
<1>2. Taken(drivers, i, drivers')
  BY DEF Without, Taken
<1> HIDE DEF i
<1>3. /\ TableOK(drivers', DriverRow)
      /\ Rows' = Rows \ {drivers[i]}
      /\ \A v \in Holders \ {drivers[i].wha} : v \in Holders' /\ Last'[v] = Last[v]
  <2> DEFINE s == drivers
             t == drivers'
  <2>1. TableOK(s, DriverRow) /\ i \in DOMAIN s /\ Taken(s, i, t)
    BY <1>1, <1>2
  <2> HIDE DEF s, t
  <2>2. /\ TableOK(t, DriverRow)
        /\ RowsOf(t) = RowsOf(s) \ {s[i]}
        /\ \A v \in HoldersIn(s) \ {s[i].wha} :
              v \in HoldersIn(t) /\ LastIn(t)[v] = LastIn(s)[v]
    BY <2>1, RowTaken
  <2> QED BY <2>2 DEF s, t, Rows, Holders, Last
<1>4. DriversOK'
  BY <1>3, SameTypes DEF DriversOK
<1>5. ConfirmedOK'
  BY <1>1, <1>3, Now DEF ConfirmedOK
<1>6. TablesOf(u)
  BY <1>1, <1>3, SamePark DEF TablesOf, Profiled
<1> QED BY <1>4, <1>5, <1>6, SamePark

(***************************************************************************)
(* The undoing.                                                            *)
(***************************************************************************)
LEMMA UndoneStep ==
  ASSUME Inv, NEW u \in Users, u \in Holders, drivers' = Undone(u), at[u].pc \in Undoing,
         lastCar' = lastCar, park' = park, confirmed' = confirmed
  PROVE  /\ TablesOf(u) /\ DriversOK' /\ ParkOK' /\ ConfirmedOK'
         /\ Registering(u) =>
              /\ u \in Holders' /\ Last'[u].phone = Last[u].phone
              /\ Last'[u].card = Last[u].card
              /\ Last'[u].profile = Last[u].profile
              /\ Last[u].past = << >> => Last'[u].past = << >>
<1>1. /\ Newest(u) \in DOMAIN drivers /\ drivers[Newest(u)] = Last[u]
      /\ Last[u] \in Rows /\ Last[u].wha = u /\ Last[u] \in DriverRow
  BY LastIs, RowFacts, Now
<1>2. CASE at[u].mode = "CREATION"
  <2>1. Last[u].profile \notin confirmed
    BY <1>2, Now DEF NewOK, Created
  <2>2. ~Registering(u)
    BY <1>2, Now DEF Registering, ControlOK, Undoing, Jobs
  <2> QED BY <1>2, <2>1, <2>2, TakenStep DEF Undone
<1>3. CASE at[u].mode # "CREATION"
  <2> DEFINE i == Newest(u)
             row == Reopened(Last[u])
  <2>1. drivers' = [drivers EXCEPT ![i] = row]
    BY <1>1, <1>3 DEF Undone
  <2>2. Recar(row, drivers[i]) /\ (Last[u].past = << >> => row.past = << >>)
    BY <1>1, ReopenedIs
  <2> HIDE DEF i, row
  <2>3. i \in DOMAIN drivers /\ drivers[i] = Last[u]
    BY <1>1 DEF i
  <2>4. /\ TablesOf(u) /\ DriversOK' /\ ParkOK' /\ ConfirmedOK'
        /\ u \in Holders' /\ Last'[u] = row
    BY <1>1, <2>1, <2>2, <2>3, CarStep
  <2> QED BY <2>2, <2>3, <2>4 DEF Recar
<1> QED BY <1>2, <1>3

LEMMA FewerCars ==
  ASSUME Inv, cars' \subseteq cars, lastCar' = lastCar
  PROVE  CarsOK'
BY Now DEF Inv, TablesOK, CarsOK, CarRow, CarIds

LEMMA EndIs ==
  ASSUME Inv, NEW u \in Users, at[u].pc \in Undoing, Goto(u, "end"), told' = told
  PROVE  \E conv : /\ SetsTo(u, conv, told[u]) /\ Resting(u, conv, told[u])
                   /\ conv.pc = "end"
<1> DEFINE conv == [at[u] EXCEPT !.pc = "end"]
<1>1. Set(u, conv)
  BY DEF Goto, Set
<1>2. /\ conv \in Conversation /\ conv.stage = at[u].stage /\ conv.flow = at[u].flow
      /\ conv.phone = at[u].phone /\ conv.new = at[u].new /\ conv.pc = "end"
      /\ conv.mode = at[u].mode
  BY Now DEF Conversation, Labels, Working
<1> HIDE DEF conv
<1>3. SetsTo(u, conv, told[u])
  BY <1>1, SetOnly
<1>4. at[u].mode = "CREATION" => at[u].stage = "waiting"
  BY Now DEF ControlOK
<1>5. Resting(u, conv, told[u])
  BY <1>2, <1>4, OpenTold, Now DEF Resting, Undoing
<1> QED BY <1>2, <1>3, <1>5

LEMMA UndoStep ==
  ASSUME Inv, NEW u \in Users, Judge(u) \/ Forget(u) \/ UndoThrows(u)
  PROVE  Inv'
<1>1. /\ at[u].pc \in Undoing /\ told' = told /\ lastCar' = lastCar
      /\ park' = park /\ confirmed' = confirmed /\ cars' \subseteq cars
      /\ at[u].stage # "none"
  BY Now DEF Judge, Forget, UndoThrows, At, Undoing, ControlOK, tables
<1>2. CarsOK' /\ ParkOK'
  BY <1>1, FewerCars, SamePark
<1>3. ASSUME Goto(u, "end"), drivers' = drivers
      PROVE  Inv'
  <2>1. PICK conv : SetsTo(u, conv, told[u]) /\ Resting(u, conv, told[u]) /\ conv.pc = "end"
    BY <1>1, <1>3, EndIs
  <2>2. TablesOf(u) /\ DriversOK' /\ Rows' = Rows /\ Holders' = Holders /\ Last' = Last
    BY <1>1, <1>2, <1>3, SamePark, SameDrivers
  <2>3. ConfirmedOK'
    BY <1>1, <2>2, Now DEF ConfirmedOK
  <2>4. NewOK(u)'
    BY <2>1, <2>2, Now, RestsNew DEF NewOK
  <2> QED BY <1>1, <1>2, <2>1, <2>2, <2>3, <2>4, Rested DEF TablesOK
<1>4. ASSUME Goto(u, "end"), u \in Holders, drivers' = Undone(u)
      PROVE  Inv'
  <2>1. PICK conv : SetsTo(u, conv, told[u]) /\ Resting(u, conv, told[u]) /\ conv.pc = "end"
    BY <1>1, <1>4, EndIs
  <2>2. /\ TablesOf(u) /\ DriversOK' /\ ParkOK' /\ ConfirmedOK'
        /\ Registering(u) =>
              /\ u \in Holders' /\ Last'[u].phone = Last[u].phone
              /\ Last'[u].card = Last[u].card
              /\ Last'[u].profile = Last[u].profile
              /\ Last[u].past = << >> => Last'[u].past = << >>
    BY <1>1, <1>4, UndoneStep
  <2>3. NewOK(u)'
    BY <2>1, <2>2, RestsNew
  <2> QED BY <1>1, <1>2, <2>1, <2>2, <2>3, Rested DEF TablesOK
<1>5. CASE Judge(u)
  <2>1. \/ Goto(u, "end") /\ drivers' = drivers
        \/ ByWha(u) # {} /\ Goto(u, "end") /\ drivers' = Undone(u)
        \/ ByWha(u) # {} /\ Goto(u, "forget") /\ drivers' = drivers
    BY <1>5 DEF Judge
  <2>2. ByWha(u) # {} => u \in Holders
    BY Lookups
  <2>3. ASSUME u \in Holders, Goto(u, "forget"), drivers' = drivers
        PROVE  Inv'
    <3> DEFINE conv == [at[u] EXCEPT !.pc = "forget"]
    <3>1. Set(u, conv)
      BY <2>3 DEF Goto, Set
    <3>2. /\ conv \in Conversation /\ conv.stage = at[u].stage /\ conv.flow = at[u].flow
          /\ conv.phone = at[u].phone /\ conv.new = at[u].new /\ conv.pc = "forget"
          /\ conv.mode = at[u].mode
      BY Now DEF Conversation, Labels, Working
    <3> HIDE DEF conv
    <3>3. UNCHANGED <<tables, park, confirmed>>
      BY <1>5, <2>3 DEF Judge, tables
    <3>4. SetsTo(u, conv, told[u])
      BY <1>1, <3>1, SetOnly
    <3>5. at'[u] = conv /\ told'[u] = told[u]
      BY <3>4, SetIs
    <3>6. /\ TablesOK' /\ Rows' = Rows /\ Holders' = Holders /\ Last' = Last
          /\ Conversation' = Conversation /\ Message' = Message /\ confirmed' = confirmed
      BY <3>3, QuietTables
    <3>7. ControlOK(u)'
      BY <1>1, <3>2, <3>5, <3>6, Now DEF ControlOK, Uploads, Jobs, Moves, Settling, Undoing
    <3>8. RowOK(u)'
      BY <2>3, <3>2, <3>5, <3>6 DEF RowOK, Uploads, Jobs, Moves, Settling, Driving, Settled
    <3>9. NewOK(u)'
      BY <1>1, <3>2, <3>5, <3>6, Now DEF NewOK, Registering, Created, Undoing, Jobs, Saved,
                                         Settling
    <3>10. YangoOK(u)' /\ ClosingOK(u)'
      BY <1>1, <3>2, <3>5, OpenTold DEF YangoOK, ClosingOK, Pending, Undoing, Saved, Settled,
                                        Moved, Settling
    <3> QED BY <3>2, <3>3, <3>4, <3>7, <3>8, <3>9, <3>10, Now, QuietStep DEF UserOK
  <2> QED BY <1>3, <1>4, <2>1, <2>2, <2>3
<1>6. CASE Forget(u)
  <2>1. u \in Holders /\ Goto(u, "end") /\ (drivers' = drivers \/ drivers' = Undone(u))
    BY <1>6, Now DEF Forget, At, RowOK, Driving, Settled, Settling, Uploads, Jobs, Moves
  <2> QED BY <1>3, <1>4, <2>1
<1>7. CASE UndoThrows(u)
  BY <1>3, <1>7 DEF UndoThrows, tables
<1> QED BY <1>5, <1>6, <1>7

(***************************************************************************)
(* The uploads that write.                                                 *)
(***************************************************************************)
LEMMA AddedStep ==
  ASSUME Inv, NEW u \in Users, NEW row \in DriverRow, RowOfOwner(row), row.wha = u,
         ApartFrom(row, Rows), row.profile = None, drivers' = Append(drivers, row),
         UNCHANGED <<cars, lastCar, park, confirmed>>
  PROVE  /\ TablesOf(u) /\ TablesOK'
         /\ u \in Holders' /\ Last'[u] = row
<1>0. cars' = cars /\ lastCar' = lastCar /\ park' = park /\ confirmed' = confirmed
  OBVIOUS
<1> DEFINE s == drivers
           t == drivers'
<1>1. TableOK(s, DriverRow) /\ ApartFrom(row, RowsOf(s)) /\ Added(s, row, t)
  BY Now DEF DriversOK, Rows, Added
<1> HIDE DEF s, t
<1>2. /\ TableOK(t, DriverRow)
      /\ RowsOf(t) = RowsOf(s) \cup {row}
      /\ HoldersIn(t) = HoldersIn(s) \cup {row.wha}
      /\ LastIn(t)[row.wha] = row
      /\ \A v \in HoldersIn(s) \ {row.wha} : LastIn(t)[v] = LastIn(s)[v]
  BY <1>1, RowAdded
<1>3. /\ TableOK(drivers', DriverRow)
      /\ Rows' = Rows \cup {row} /\ Holders' = Holders \cup {u} /\ Last'[u] = row
      /\ \A v \in Holders \ {u} : Last'[v] = Last[v]
  BY <1>2 DEF s, t, Rows, Holders, Last
<1>4. DriversOK' /\ CarsOK' /\ ParkOK'
  BY <1>0, <1>3, SameTypes, SamePark, FewerCars DEF DriversOK
<1>5. ConfirmedOK'
  BY <1>0, <1>3, Now DEF ConfirmedOK
<1>6. TablesOf(u)
  BY <1>0, <1>3, SamePark DEF TablesOf, Profiled
<1> QED BY <1>3, <1>4, <1>5, <1>6 DEF TablesOK

LEMMA FrontStep ==
  ASSUME Inv, NEW u \in Users, ReadFront(u)
  PROVE  Inv'
<1>1. /\ at[u].stage = "front" /\ at[u].pc = "await" /\ at[u] \in Conversation
      /\ cars' = cars /\ lastCar' = lastCar /\ park' = park /\ confirmed' = confirmed
      /\ at[u].mode = "UPDATE" /\ at[u].phone \in Phones /\ Owner[at[u].phone] = u
      /\ at[u].flow = "register"
  BY Now DEF ReadFront, Awaits, At, ControlOK, Undoing, Conversation, Documents
<1>2. CASE Refuse(u) /\ UNCHANGED drivers
  BY <1>1, <1>2, RefuseQuietly DEF tables
<1>3. CASE ~(Refuse(u) /\ UNCHANGED drivers)
  <2>1. PICK l \in Licences, dated \in BOOLEAN :
          /\ ByLicence(l) = {} /\ ByPhone(at[u].phone) = {} /\ ByCard(at[u].phone) = {}
          /\ drivers' = Append(drivers, NewDriver(u, l, dated))
          /\ (dated /\ Goto(u, "advance") /\ told' = told) \/ Refuse(u)
    BY <1>3 DEF ReadFront
  <2> DEFINE row == NewDriver(u, l, dated)
  <2>2. /\ row \in DriverRow /\ row.wha = u /\ row.phone = at[u].phone /\ row.licence = l
        /\ row.profile = None /\ row.past = << >> /\ drivers' = Append(drivers, row)
        /\ row.card = IF dated THEN at[u].phone ELSE "none"
    <3>1. None \in CarIds /\ None \in 0..Len(park)
      BY Now DEF CarsOK, ParkOK, CarIds, None
    <3>2. << >> \in Seq(CarIds \ {None})
      OBVIOUS
    <3> QED BY <1>1, <2>1, <3>1, <3>2 DEF NewDriver, DriverRow
  <2> HIDE DEF row
  <2>3. RowOfOwner(row) /\ ApartFrom(row, Rows)
    <3>1. RowOfOwner(row)
      BY <1>1, <2>2 DEF RowOfOwner
    <3>2. \A d \in Rows : /\ d.phone # at[u].phone /\ d.licence # l
                           /\ d.card # at[u].phone
      BY <2>1, Lookups
    <3>3. ASSUME NEW d \in Rows
          PROVE  Apart(row, d)
      <4>1. row.phone # d.phone /\ row.licence # d.licence
        BY <2>2, <3>2
      <4>2. row.card = d.card => row.card = "none"
        BY <2>2, <3>2
      <4>3. row.profile = d.profile => row.profile = None
        BY <2>2
      <4> QED BY <4>1, <4>2, <4>3 DEF Apart
    <3> QED BY <3>1, <3>3 DEF ApartFrom
  <2>4. TablesOf(u) /\ TablesOK' /\ u \in Holders' /\ Last'[u] = row
    BY <1>1, <2>2, <2>3, AddedStep
  <2>5. CASE Refuse(u)
    <3>1. PICK conv, m : SetsTo(u, conv, m) /\ Resting(u, conv, m) /\ conv.mode = "UPDATE"
      BY <1>1, <2>5, RefuseIs
    <3>2. ~Registering(u)
      BY <1>1 DEF Registering, Jobs
    <3>3. NewOK(u)'
      BY <3>1, <3>2, RestsNew
    <3> QED BY <1>1, <2>4, <3>1, <3>3, Rested
  <2>6. CASE dated /\ Goto(u, "advance") /\ told' = told
    <3> DEFINE conv == [at[u] EXCEPT !.pc = "advance"]
    <3>1. /\ conv \in Conversation /\ conv.stage = "front"
          /\ conv.flow = at[u].flow /\ conv.phone = at[u].phone /\ conv.new = at[u].new
          /\ conv.mode = "UPDATE" /\ conv.pc = "advance"
      BY <1>1 DEF Conversation, Labels, Working
    <3>2. Set(u, conv)
      BY <2>6 DEF Goto, Set
    <3> HIDE DEF conv
    <3>3. SetsTo(u, conv, told[u])
      BY <2>6, <3>2, SetOnly
    <3>4. at'[u] = conv /\ told'[u] = told[u]
      BY <3>3, SetIs
    <3>5. conv \in Conversation' /\ told[u] \in Message'
      BY <2>4, <3>1, Grown, Now
    <3>6. ControlOK(u)'
      BY <1>1, <3>1, <3>4, <3>5 DEF ControlOK, Documents, Uploads, Jobs, Moves, Settling
    <3>7. RowOK(u)'
      BY <3>1, <3>4 DEF RowOK, Uploads, Jobs, Moves, Settling, Driving, Settled
    <3>8. NewOK(u)'
      BY <2>2, <2>4, <2>6, <3>1, <3>4 DEF NewOK, Created, Saved, Settling, Undoing
    <3>9. YangoOK(u)' /\ ClosingOK(u)'
      BY <1>1, <3>1, <3>4, OpenTold DEF YangoOK, ClosingOK, Pending, Saved, Settled, Moved,
                                        Settling
    <3> QED BY <2>4, <3>1, <3>3, <3>5, <3>6, <3>7, <3>8, <3>9, StepOf DEF UserOK
  <2> QED BY <2>1, <2>5, <2>6
<1> QED BY <1>2, <1>3

(***************************************************************************)
(* A document goes on after its tables were written.                       *)
(***************************************************************************)
LEMMA Written ==
  ASSUME Inv, NEW u \in Users, NEW conv \in Conversation', Set(u, conv), told' = told,
         TablesOf(u), TablesOK', at[u].stage = "photo", at[u].pc \in Uploads,
         conv.stage = "photo", conv.flow = at[u].flow, conv.phone = at[u].phone,
         conv.mode = "UPDATE", conv.pc \in {"close", "associate", "undo", "advance"},
         conv.pc = "close" => conv.flow = "change",
         \E d \in Rows' : d.phone = at[u].phone,
         at[u].flow = "register" =>
           /\ u \in Holders' /\ Last'[u].phone = Last[u].phone
           /\ Last'[u].card = Last[u].card
           /\ Last'[u].profile = Last[u].profile /\ Last'[u].past = Last[u].past
  PROVE  Inv'
<1>1. SetsTo(u, conv, told[u])
  BY SetOnly
<1>2. at'[u] = conv /\ told'[u] = told[u] /\ told[u] \in Message'
  BY <1>1, SetIs, Grown, Now
<1>3. ControlOK(u)'
  BY <1>2, Now DEF ControlOK, Documents, Uploads, Jobs, Moves, Settling
<1>4. RowOK(u)'
  BY <1>2 DEF RowOK, MineOf, Uploads, Jobs, Moves, Settling, Driving, Settled
<1>5. NewOK(u)'
  BY <1>2, Now DEF NewOK, Registering, Created, Saved, Settling, Jobs
<1>6. YangoOK(u)' /\ ClosingOK(u)'
  BY <1>2, OpenTold DEF YangoOK, ClosingOK, Pending, Saved, Settled, Moved, Settling
<1> QED BY <1>1, <1>2, <1>3, <1>4, <1>5, <1>6, StepOf DEF UserOK

LEMMA CreateStep ==
  ASSUME Inv, NEW u \in Users, CreateCar(u)
  PROVE  Inv'
<1>1. /\ at[u].stage = "photo" /\ at[u].pc = "create" /\ at[u] \in Conversation
      /\ drivers' = drivers /\ park' = park /\ confirmed' = confirmed /\ told' = told
      /\ at[u].mode = "UPDATE" /\ at[u].plate \in Plates
  BY Now DEF CreateCar, At, ControlOK, Undoing, Conversation, Uploads
<1>2. CASE Goto(u, "undo") /\ UNCHANGED <<cars, lastCar>>
  <2> DEFINE conv == [at[u] EXCEPT !.pc = "undo"]
  <2>1. /\ conv \in Conversation /\ conv.stage = at[u].stage
        /\ conv.flow = at[u].flow /\ conv.phone = at[u].phone /\ conv.new = at[u].new
        /\ conv.mode = "UPDATE" /\ conv.pc = "undo"
    BY <1>1 DEF Conversation, Labels, Working
  <2>2. Set(u, conv)
    BY <1>2 DEF Goto, Set
  <2> HIDE DEF conv
  <2>3. MineOf(u) # {} /\ UNCHANGED <<tables, park, confirmed>>
    BY <1>1, <1>2, Now DEF RowOK, Uploads, tables, Driving, Settled, Settling, Jobs, Moves
  <2> QED BY <1>1, <2>1, <2>2, <2>3, Uploading DEF Uploads
<1>3. CASE ~(Goto(u, "undo") /\ UNCHANGED <<cars, lastCar>>)
  <2> DEFINE n == lastCar + 1
             car == [id |-> n, plate |-> at[u].plate, yango |-> FALSE]
             conv == [at[u] EXCEPT !.pc = Link(u), !.car = n]
  <2>1. /\ ByPlate(at[u].plate) = {} /\ lastCar' = n /\ cars' = cars \cup {car}
        /\ Set(u, conv)
    BY <1>3 DEF CreateCar, Clashes
  <2>2. lastCar \in Nat /\ n \in Nat /\ n > lastCar /\ n # None
    BY Now DEF CarsOK, None
  <2> HIDE DEF n
  <2>3. CarIds \subseteq CarIds' /\ n \in CarIds' \ {None} /\ n \notin CarIds
    BY <2>1, <2>2 DEF CarIds
  <2>4. CarsOK'
    <3>1. \A c \in cars : c.id # n /\ c.plate # at[u].plate /\ c \in CarRow'
      BY <2>1, <2>3, Now DEF CarsOK, CarRow, ByPlate
    <3>2. car \in CarRow' /\ car.id = n /\ car.plate = at[u].plate
      BY <1>1, <2>3 DEF CarRow
    <3> HIDE DEF car
    <3> QED BY <2>1, <2>2, <3>1, <3>2, Now DEF CarsOK
  <2>5. TablesOf(u) /\ DriversOK' /\ ParkOK' /\ Rows' = Rows /\ Holders' = Holders /\ Last' = Last
    <3>1. ParkOK' /\ Len(park') >= Len(park)
      <4>1. ParkOK /\ Len(park) \in Nat
        BY DEF Inv, TablesOK, ParkOK
      <4> QED BY <1>1, <4>1 DEF ParkOK
    <3> QED BY <1>1, <2>1, <2>2, <3>1, SameDrivers
  <2>6. ConfirmedOK'
    BY <1>1, <2>5, Now DEF ConfirmedOK
  <2>7. /\ conv \in Conversation' /\ conv.stage = "photo"
        /\ conv.flow = at[u].flow /\ conv.phone = at[u].phone
        /\ conv.mode = "UPDATE" /\ conv.pc = Link(u)
    <3>1. at[u] \in Conversation'
      BY <2>5, Now, Grown
    <3>2. Link(u) \in Labels
      BY LinkIs DEF Labels
    <3> QED BY <1>1, <2>3, <3>1, <3>2 DEF Conversation
  <2> HIDE DEF conv
  <2>8. \E d \in Rows' : d.phone = at[u].phone
    BY <1>1, <2>5, Now DEF RowOK, MineOf, Uploads, Driving, Settled, Settling, Jobs, Moves
  <2>9. at[u].flow = "register" => u \in Holders'
    BY <1>1, <2>5, Now DEF NewOK, Registering, Saved, Settling, Jobs
  <2>10. TablesOK'
    BY <2>4, <2>5, <2>6 DEF TablesOK
  <2>11. conv.pc \in {"close", "associate"} /\ (conv.pc = "close" => conv.flow = "change")
    BY <2>7, LinkIs
  <2> QED BY <1>1, <2>1, <2>5, <2>7, <2>8, <2>9, <2>10, <2>11, Written DEF Uploads
<1> QED BY <1>2, <1>3

LEMMA CloseStep ==
  ASSUME Inv, NEW u \in Users, Close(u)
  PROVE  Inv'
<1>1. /\ at[u].stage = "photo" /\ at[u].pc = "close" /\ at[u] \in Conversation
      /\ cars' = cars /\ lastCar' = lastCar /\ park' = park /\ confirmed' = confirmed
      /\ told' = told /\ at[u].mode = "UPDATE" /\ at[u].flow = "change"
  BY Now DEF Close, At, ControlOK, Undoing, Conversation, Uploads
<1> DEFINE i == Mine(u)
           e == Driver(u)
           row == Closed(e)
           conv == [at[u] EXCEPT !.pc = "associate"]
<1>2. /\ i \in DOMAIN drivers /\ drivers[i] = e /\ e.phone = at[u].phone
      /\ e.wha = u /\ e \in DriverRow
  BY <1>1, Driven DEF Driving, Uploads
<1>3. Set(u, conv) /\ drivers' = [drivers EXCEPT ![i] = row] /\ Recar(row, e)
  BY <1>2, ClosedIs DEF Close, Goto, Set
<1> HIDE DEF i, e, row
<1>4. /\ conv \in Conversation /\ conv.stage = "photo"
      /\ conv.flow = at[u].flow /\ conv.phone = at[u].phone
      /\ conv.mode = "UPDATE" /\ conv.pc = "associate"
  BY <1>1 DEF Conversation, Labels
<1> HIDE DEF conv
<1>5. i \in DOMAIN drivers /\ Recar(row, drivers[i]) /\ drivers[i].wha = u
  BY <1>2, <1>3
<1>6. /\ TablesOf(u) /\ DriversOK' /\ ParkOK' /\ ConfirmedOK'
      /\ Rows' = (Rows \ {drivers[i]}) \cup {row}
  BY <1>1, <1>3, <1>5, CarStep
<1>7. TablesOK' /\ conv \in Conversation'
  BY <1>1, <1>4, <1>6, FewerCars, SameTypes DEF TablesOK
<1>8. \E r \in Rows' : r.phone = at[u].phone
  BY <1>2, <1>3, <1>6 DEF Recar
<1> QED BY <1>1, <1>3, <1>4, <1>6, <1>7, <1>8, Written DEF Uploads

LEMMA AssociateStep ==
  ASSUME Inv, NEW u \in Users, Associate(u)
  PROVE  Inv'
<1>1. /\ at[u].stage = "photo" /\ at[u].pc = "associate" /\ at[u] \in Conversation
      /\ cars' = cars /\ lastCar' = lastCar /\ park' = park /\ confirmed' = confirmed
      /\ told' = told /\ at[u].mode = "UPDATE" /\ at[u].car \in CarIds
  BY Now DEF Associate, At, ControlOK, Undoing, Conversation, Uploads
<1> DEFINE i == Mine(u)
           e == Driver(u)
           row == [e EXCEPT !.car = at[u].car]
           conv == [at[u] EXCEPT !.pc = "advance"]
<1>3. /\ i \in DOMAIN drivers /\ drivers[i] = e /\ MineOf(u) = {e}
      /\ e \in Rows /\ e.phone = at[u].phone /\ e.wha = u /\ e \in DriverRow
      /\ Registering(u) => Last[u] = e
  BY <1>1, Driven DEF Driving, Uploads
<1>2. \/ Goto(u, "undo") /\ drivers' = drivers
      \/ Set(u, conv) /\ drivers' = [drivers EXCEPT ![i] = row]
  <2>1. [drivers EXCEPT ![Mine(u)].car = at[u].car] = [drivers EXCEPT ![i] = row]
    BY <1>3
  <2> QED BY <2>1 DEF Associate, Goto, Set
<1> HIDE DEF i, e
<1>5. Recar(row, e) /\ row.past = e.past
  BY <1>1, <1>3 DEF Recar, DriverRow
<1>6. /\ conv \in Conversation /\ conv.stage = "photo"
      /\ conv.flow = at[u].flow /\ conv.phone = at[u].phone
      /\ conv.mode = "UPDATE" /\ conv.pc = "advance"
  BY <1>1 DEF Conversation, Labels, Working
<1> HIDE DEF row, conv
<1>7. CASE Goto(u, "undo") /\ drivers' = drivers
  <2> DEFINE back == [at[u] EXCEPT !.pc = "undo"]
  <2>1. /\ back \in Conversation /\ back.stage = at[u].stage
        /\ back.flow = at[u].flow /\ back.phone = at[u].phone /\ back.new = at[u].new
        /\ back.mode = "UPDATE" /\ back.pc = "undo"
    BY <1>1 DEF Conversation, Labels, Working
  <2>2. Set(u, back)
    BY <1>7 DEF Goto, Set
  <2> HIDE DEF back
  <2>3. MineOf(u) # {} /\ UNCHANGED <<tables, park, confirmed>>
    BY <1>1, <1>3, <1>7 DEF tables
  <2> QED BY <1>1, <2>1, <2>2, <2>3, Uploading DEF Uploads
<1>8. CASE Set(u, conv) /\ drivers' = [drivers EXCEPT ![i] = row]
  <2>1. i \in DOMAIN drivers /\ Recar(row, drivers[i]) /\ drivers[i].wha = u
    BY <1>3, <1>5
  <2>2. /\ TablesOf(u) /\ DriversOK' /\ ParkOK' /\ ConfirmedOK'
        /\ Rows' = (Rows \ {drivers[i]}) \cup {row}
        /\ u \in Holders' /\ Last'[u] = IF Last[u] = drivers[i] THEN row ELSE Last[u]
    BY <1>1, <1>8, <2>1, CarStep
  <2>3. TablesOK' /\ conv \in Conversation'
    BY <1>1, <1>6, <2>2, FewerCars, SameTypes DEF TablesOK
  <2>4. \E r \in Rows' : r.phone = at[u].phone
    BY <1>3, <1>5, <2>2 DEF Recar
  <2>5. at[u].flow = "register" =>
          /\ u \in Holders' /\ Last'[u].phone = Last[u].phone
          /\ Last'[u].card = Last[u].card
          /\ Last'[u].profile = Last[u].profile /\ Last'[u].past = Last[u].past
    BY <1>1, <1>3, <1>5, <2>2 DEF Registering, Recar
  <2> QED BY <1>1, <1>6, <1>8, <2>2, <2>3, <2>4, <2>5, Written DEF Uploads
<1> QED BY <1>2, <1>7, <1>8

LEMMA UploadThrowsStep ==
  ASSUME Inv, NEW u \in Users, UploadThrows(u)
  PROVE  Inv'
<1>1. /\ at[u].stage = "photo" /\ at[u].pc \in Uploads /\ at[u] \in Conversation
      /\ UNCHANGED <<tables, park, confirmed>> /\ told' = told /\ at[u].mode = "UPDATE"
  BY Now DEF UploadThrows, ControlOK, Undoing, Conversation, Uploads
<1> DEFINE conv == [at[u] EXCEPT !.pc = "undo"]
<1>2. /\ conv \in Conversation /\ conv.stage = at[u].stage
      /\ conv.flow = at[u].flow /\ conv.phone = at[u].phone /\ conv.new = at[u].new
      /\ conv.mode = "UPDATE" /\ conv.pc = "undo"
  BY <1>1 DEF Conversation, Labels
<1>3. Set(u, conv)
  BY DEF UploadThrows, Goto, Set
<1> HIDE DEF conv
<1>4. MineOf(u) # {}
  BY <1>1, Driven DEF Driving
<1> QED BY <1>1, <1>2, <1>3, <1>4, Uploading DEF Uploads

LEMMA UnloadStep ==
  ASSUME Inv, NEW u \in Users, Undo(u)
  PROVE  Inv'
<1>1. /\ at[u].stage = "photo" /\ at[u].pc = "undo" /\ Refuse(u)
      /\ lastCar' = lastCar /\ park' = park /\ confirmed' = confirmed
  BY Now DEF Undo, At, ControlOK, Uploads
<1> DEFINE i == Mine(u)
           d == Driver(u)
           row == IF Row(d.car) = {} THEN [d EXCEPT !.car = None] ELSE Reopened(d)
<1>2. \/ UNCHANGED <<drivers, cars>>
      \/ cars' \subseteq cars /\ drivers' = [drivers EXCEPT ![i] = row]
  BY DEF Undo
<1>3. /\ i \in DOMAIN drivers /\ drivers[i] = d /\ d.wha = u /\ d \in DriverRow
      /\ Registering(u) => Last[u] = d
  BY <1>1, Driven DEF Driving, Uploads
<1> HIDE DEF i, d
<1>4. Recar(row, d) /\ (d.past = << >> => row.past = << >>)
  <2>1. CASE Row(d.car) = {}
    <3>1. None \in CarIds
      BY Now DEF CarsOK, CarIds, None
    <3> QED BY <1>3, <2>1, <3>1 DEF Recar, DriverRow
  <2>2. CASE Row(d.car) # {}
    BY <1>3, <2>2, ReopenedIs
  <2> QED BY <2>1, <2>2
<1> HIDE DEF row
<1>5. CASE UNCHANGED <<drivers, cars>>
  BY <1>1, <1>5, RefuseQuietly DEF tables
<1>6. CASE cars' \subseteq cars /\ drivers' = [drivers EXCEPT ![i] = row]
  <2>1. Recar(row, drivers[i]) /\ drivers[i].wha = u
    BY <1>3, <1>4
  <2>2. /\ TablesOf(u) /\ DriversOK' /\ ParkOK' /\ ConfirmedOK'
        /\ u \in Holders' /\ Last'[u] = IF Last[u] = drivers[i] THEN row ELSE Last[u]
    BY <1>1, <1>3, <1>6, <2>1, CarStep
  <2>3. TablesOK'
    BY <1>1, <1>6, <2>2, FewerCars DEF TablesOK
  <2>4. PICK conv, m : SetsTo(u, conv, m) /\ Resting(u, conv, m) /\ conv.mode = "UPDATE"
    BY <1>1, RefuseIs
  <2>5. Registering(u) =>
          /\ u \in Holders' /\ Last'[u].phone = Last[u].phone
          /\ Last'[u].card = Last[u].card
          /\ Last'[u].profile = Last[u].profile
          /\ Last[u].past = << >> => Last'[u].past = << >>
    BY <1>3, <1>4, <2>2 DEF Recar
  <2>6. NewOK(u)'
    BY <2>4, <2>5, RestsNew
  <2> QED BY <1>1, <2>2, <2>3, <2>4, <2>6, Rested
<1> QED BY <1>2, <1>5, <1>6

(***************************************************************************)
(* The workers, call by call.                                              *)
(***************************************************************************)
LEMMA RestoredIs ==
  ASSUME Inv, NEW d \in DriverRow, d.past # << >>
  PROVE  Recar(Restored(d), d)
<1>1. Head(d.past) \in CarIds
  <2>1. d.past \in Seq(CarIds \ {None})
    BY DEF DriverRow
  <2> QED BY <2>1, HeadTailProperties
<1> DEFINE e == Closed(d)
           car == Head(d.past)
<1>2. Recar(e, d) /\ Restored(d) = [e EXCEPT !.car = car] /\ car \in CarIds
  BY <1>1, ClosedIs DEF Restored
<1> HIDE DEF e, car
<1> QED BY <1>2 DEF Recar, DriverRow

LEMMA VehicleStep ==
  ASSUME Inv, NEW u \in Users, CreateVehicle(u)
  PROVE  Inv'
<1>1. /\ at[u].pc = "vehicle" /\ at[u] \in Conversation /\ at[u].stage = "waiting"
      /\ at[u].mode = "UPDATE" /\ cars' = cars /\ lastCar' = lastCar /\ park' = park
      /\ confirmed' = confirmed /\ at[u].flow \in {"register", "change"}
      /\ at[u].phone \in Phones /\ Owner[at[u].phone] = u
  BY Now DEF CreateVehicle, At, ControlOK, Undoing, Conversation, Documents, Jobs
<1> DEFINE i == Mine(u)
           d == Driver(u)
           pc == IF at[u].flow = "register" THEN "profile" ELSE "bind"
           conv == [at[u] EXCEPT !.pc = pc]
           row == Restored(d)
<1>2. /\ i \in DOMAIN drivers /\ drivers[i] = d /\ d.wha = u /\ d \in DriverRow
      /\ MineOf(u) # {}
  BY <1>1, Driven DEF Driving, Jobs
<1>3. \/ Set(u, conv) /\ drivers' = drivers /\ told' = told
      \/ Fail(u) /\ drivers' = drivers
      \/ Fail(u) /\ at[u].flow = "change" /\ d.past # << >>
           /\ drivers' = [drivers EXCEPT ![i] = row]
  <2>1. drivers' = [drivers EXCEPT ![Mine(u)] = Restored(@)]
           => drivers' = [drivers EXCEPT ![i] = row]
    BY <1>2
  <2> QED BY <2>1 DEF CreateVehicle, Goto, Set
<1>4. Recar(row, d) \/ d.past = << >>
  BY <1>2, RestoredIs
<1> HIDE DEF i, d, row
<1>5. CASE Fail(u) /\ drivers' = drivers
  BY <1>1, <1>5, FailQuietly DEF tables, Jobs
<1>6. CASE Fail(u) /\ at[u].flow = "change" /\ d.past # << >>
             /\ drivers' = [drivers EXCEPT ![i] = row]
  <2>1. i \in DOMAIN drivers /\ Recar(row, drivers[i]) /\ drivers[i].wha = u
    BY <1>2, <1>4, <1>6
  <2>2. TablesOf(u) /\ DriversOK' /\ ParkOK' /\ ConfirmedOK'
    BY <1>1, <1>6, <2>1, CarStep
  <2>3. TablesOK'
    BY <1>1, <2>2, FewerCars DEF TablesOK
  <2> QED BY <1>1, <1>6, <2>2, <2>3, FailStep DEF Jobs
<1>7. CASE Set(u, conv) /\ drivers' = drivers /\ told' = told
  <2>1. pc \in Labels /\ pc \in {"profile", "bind"} /\ (pc = "bind" => at[u].flow # "register")
    BY DEF Labels, Working
  <2> HIDE DEF pc
  <2>2. /\ conv \in Conversation /\ conv.stage = "waiting" /\ conv.pc = pc
        /\ conv.flow = at[u].flow /\ conv.phone = at[u].phone
        /\ conv.mode = "UPDATE" /\ conv.car = at[u].car
    BY <1>1, <2>1 DEF Conversation
  <2> HIDE DEF conv
  <2>3. SetsTo(u, conv, told[u]) /\ UNCHANGED <<tables, park, confirmed>>
    BY <1>1, <1>7, SetOnly DEF tables
  <2>4. at'[u] = conv /\ told'[u] = told[u]
    BY <2>3, SetIs
  <2>5. /\ Rows' = Rows /\ Holders' = Holders /\ Last' = Last
        /\ Conversation' = Conversation /\ Message' = Message
    BY <2>3, QuietTables
  <2>6. ControlOK(u)'
    BY <1>1, <2>1, <2>2, <2>4, <2>5, Now DEF ControlOK, Documents, Uploads, Jobs, Moves, Settling
  <2>7. RowOK(u)'
    <3>1. \A e \in MineOf(u) : e.car = at[u].car
      BY <1>1, Now DEF RowOK, Jobs, Driving, Settled, Settling, Uploads, Moves
    <3> QED BY <1>2, <2>1, <2>2, <2>4, <2>5, <3>1 DEF RowOK, MineOf, Uploads, Jobs, Moves,
                                                      Settling, Driving, Settled
  <2>8. NewOK(u)'
    BY <1>1, <2>1, <2>2, <2>4, <2>5, Now DEF NewOK, Registering, Created, Jobs, Saved, Settling
  <2>9. YangoOK(u)' /\ ClosingOK(u)'
    BY <1>1, <2>1, <2>2, <2>4, OpenTold DEF YangoOK, ClosingOK, Pending, Saved, Settled, Moved,
                                            Settling
  <2> QED BY <2>1, <2>2, <2>3, <2>6, <2>7, <2>8, <2>9, Now, QuietStep DEF UserOK
<1> QED BY <1>3, <1>5, <1>6, <1>7

LEMMA ProfileStep ==
  ASSUME Inv, NEW u \in Users, CreateProfile(u)
  PROVE  Inv'
<1>1. /\ at[u].pc = "profile" /\ at[u] \in Conversation /\ at[u].stage = "waiting"
      /\ at[u].mode = "UPDATE" /\ drivers' = drivers /\ cars' = cars /\ lastCar' = lastCar
      /\ confirmed' = confirmed /\ at[u].flow \in {"register", "change"}
      /\ at[u].phone \in Phones /\ Owner[at[u].phone] = u
  BY Now DEF CreateProfile, At, ControlOK, Undoing, Conversation, Documents, Jobs, tables
<1>2. /\ MineOf(u) = {Driver(u)} /\ (Registering(u) => Last[u] = Driver(u))
      /\ Driver(u).car = at[u].car
  BY <1>1, Driven, Now DEF Driving, Jobs, RowOK, Driving, Settled, Settling, Uploads, Moves
<1> DEFINE k == Len(park) + 1
           new == [phone |-> at[u].phone, plate |-> "none"]
           conv == [at[u] EXCEPT !.pc = "bind", !.profile = k]
<1>3. \/ Fail(u) /\ park' = park
      \/ park' = Append(park, new) /\ Set(u, conv) /\ told' = told
  BY DEF CreateProfile, Passed
<1>4. CASE Fail(u) /\ park' = park
  BY <1>1, <1>4, FailQuietly DEF tables, Jobs
<1>5. CASE park' = Append(park, new) /\ Set(u, conv) /\ told' = told
  <2>0. park \in Seq([phone : Phones, plate : Plates \cup {"none"}])
    BY Now DEF ParkOK
  <2>1. new \in [phone : Phones, plate : Plates \cup {"none"}] /\ new.phone = at[u].phone
    BY <1>1
  <2> HIDE DEF new
  <2>2. /\ ParkOK' /\ Len(park) \in Nat /\ Len(park') = k /\ DOMAIN park = 1..Len(park)
        /\ DOMAIN park' = 1..k /\ park'[k] = new
        /\ \A j \in DOMAIN park : park'[j] = park[j]
    BY <1>5, <2>0, <2>1, AppendProperties DEF ParkOK
  <2>3. k \in DOMAIN park' /\ k \notin DOMAIN park /\ k \notin 0..Len(park) /\ k \in 0..Len(park')
        /\ DOMAIN park \subseteq DOMAIN park' /\ Len(park') >= Len(park)
    BY <2>2
  <2> HIDE DEF k
  <2>4. TablesOf(u) /\ DriversOK' /\ Rows' = Rows /\ Holders' = Holders /\ Last' = Last
    <3>1. lastCar' \in Nat /\ lastCar' >= lastCar
      BY <1>1, Now DEF CarsOK
    <3> QED BY <1>1, <2>2, <2>3, <3>1, SameDrivers
  <2>5. ConfirmedOK'
    BY <1>1, <2>3, <2>4, Now DEF ConfirmedOK
  <2>6. TablesOK'
    BY <1>1, <2>2, <2>4, <2>5, FewerCars DEF TablesOK
  <2>7. /\ conv \in Conversation' /\ conv.stage = "waiting" /\ conv.pc = "bind"
        /\ conv.flow = at[u].flow /\ conv.phone = at[u].phone
        /\ conv.mode = "UPDATE" /\ conv.car = at[u].car /\ conv.profile = k
    <3>1. at[u] \in Conversation'
      BY <1>1, <2>4, Grown
    <3> QED BY <1>1, <2>3, <3>1 DEF Conversation, Labels, Working
  <2> HIDE DEF conv
  <2>8. SetsTo(u, conv, told[u])
    BY <1>5, SetOnly
  <2>9. /\ at'[u] = conv /\ told'[u] = told[u] /\ told[u] \in Message'
        /\ \A v \in Users \ {u} : at'[v] = at[v]
    BY <2>4, <2>8, SetIs, Grown, Now
  <2>10. ControlOK(u)'
    BY <1>1, <2>7, <2>9 DEF ControlOK, Documents, Uploads, Jobs, Moves, Settling
  <2>11. RowOK(u)'
    BY <1>2, <2>4, <2>7, <2>9 DEF RowOK, MineOf, Uploads, Jobs, Moves, Settling, Driving, Settled
  <2>12. NewOK(u)'
    BY <1>1, <2>4, <2>7, <2>9, Now DEF NewOK, Registering, Created, Jobs, Undoing, Saved, Settling
  <2>13. YangoOK(u)'
    <3>1. \A d \in Rows : d.profile # k
      BY <2>3, RowFacts, Now DEF DriverRow
    <3>2. \A v \in Users \ {u} : Pending(v)' => at'[v].profile # k
      BY <2>3, <2>9, Now DEF YangoOK, Pending, Saved, Settled, Moved, Settling
    <3>4. park'[k].phone = conv.phone
      BY <2>1, <2>2, <2>7
    <3> QED BY <2>3, <2>4, <2>7, <2>9, <3>1, <3>2, <3>4
       DEF YangoOK, Pending, Saved, Settled, Moved, Settling
  <2>14. ClosingOK(u)'
    BY <1>1, <2>9, OpenTold DEF ClosingOK
  <2> QED BY <2>3, <2>4, <2>6, <2>7, <2>8, <2>9, <2>10, <2>11, <2>12, <2>13, <2>14, StepOf
          DEF UserOK
<1> QED BY <1>3, <1>4, <1>5

(* Yango is told of a profile that is the user's.                          *)
Entry == [phone : Phones, plate : Plates \cup {"none"}]

LEMMA ParkStep ==
  ASSUME Inv, NEW u \in Users, NEW k, NEW entry, park' = park \/
           (Profiled(u, k) /\ k \in DOMAIN park /\ entry \in Entry
              /\ park' = [park EXCEPT ![k] = entry]),
         UNCHANGED <<tables, confirmed>>
  PROVE  /\ TablesOf(u) /\ TablesOK'
         /\ Rows' = Rows /\ Holders' = Holders /\ Last' = Last
         /\ DOMAIN park' = DOMAIN park
         /\ Conversation' = Conversation /\ Message' = Message
<1>1. /\ drivers' = drivers /\ cars' = cars /\ lastCar' = lastCar /\ confirmed' = confirmed
      /\ park \in Seq(Entry)
  BY Now DEF tables, Entry, Inv, TablesOK, ParkOK
<1>2. /\ park' \in Seq(Entry) /\ Len(park') = Len(park) /\ Len(park) \in Nat
      /\ DOMAIN park' = DOMAIN park
      /\ \A j \in DOMAIN park : park'[j] = park[j] \/ Profiled(u, j)
  <2>1. CASE park' = park
    BY <1>1, <2>1
  <2>2. CASE /\ Profiled(u, k) /\ k \in DOMAIN park /\ entry \in Entry
             /\ park' = [park EXCEPT ![k] = entry]
    BY <1>1, <2>2, ExceptSeq
  <2> QED BY <2>1, <2>2
<1>3. ParkOK'
  BY <1>2 DEF ParkOK, Entry
<1>4. TablesOf(u) /\ DriversOK' /\ Rows' = Rows /\ Holders' = Holders /\ Last' = Last
  <2>1. lastCar' \in Nat /\ lastCar' >= lastCar /\ Len(park') >= Len(park)
    BY <1>1, <1>2, Now DEF CarsOK
  <2> QED BY <1>1, <1>2, <1>3, <2>1, SameDrivers
<1>5. ConfirmedOK'
  BY <1>1, <1>2, <1>4, Now DEF ConfirmedOK
<1>6. TablesOK'
  BY <1>1, <1>3, <1>4, <1>5, FewerCars DEF TablesOK
<1>7. Conversation' = Conversation /\ Message' = Message
  BY <1>1, <1>2 DEF Conversation, Message, CarIds
<1> QED BY <1>2, <1>4, <1>6, <1>7

LEMMA EntryIs ==
  ASSUME Inv, NEW k \in DOMAIN park
  PROVE  /\ park[k] \in Entry
         /\ \A plate \in Plates \cup {"none"} : [park[k] EXCEPT !.plate = plate] \in Entry
         /\ \A p \in Phones : [park[k] EXCEPT !.phone = p] \in Entry
<1>1. park \in Seq(Entry)
  BY DEF Entry, Inv, TablesOK, ParkOK
<1>2. park[k] \in Entry
  BY <1>1
<1> QED BY <1>2 DEF Entry

LEMMA BindStep ==
  ASSUME Inv, NEW u \in Users, Bind(u)
  PROVE  Inv'
<1>1. /\ at[u].pc = "bind" /\ at[u] \in Conversation /\ at[u].stage = "waiting"
      /\ at[u].mode = "UPDATE" /\ UNCHANGED <<tables, confirmed>>
      /\ at[u].flow \in {"register", "change"}
      /\ at[u].phone \in Phones /\ Owner[at[u].phone] = u
      /\ at[u].plate \in Plates \cup {"none"}
  BY Now DEF Bind, At, ControlOK, Undoing, Conversation, Documents, Jobs
<1>2. /\ MineOf(u) = {Driver(u)} /\ (Registering(u) => Last[u] = Driver(u))
      /\ Driver(u).car = at[u].car /\ Driver(u) \in Rows /\ Driver(u).wha = u
      /\ Driver(u) \in DriverRow
  BY <1>1, Driven, Now DEF Driving, Jobs, RowOK, Driving, Settled, Settling, Uploads, Moves
<1>3. PICK answer \in Answers, done \in BOOLEAN :
       /\ IF Profile(u) = None THEN answer # "accepted" /\ ~done ELSE done \in Done(answer)
       /\ park' = IF done THEN [park EXCEPT ![Profile(u)].plate = at[u].plate] ELSE park
       /\ IF Passed(answer)
          THEN Goto(u, IF at[u].flow = "register" THEN "save" ELSE "keep") /\ UNCHANGED told
          ELSE Fail(u)
  BY DEF Bind
<1> DEFINE k == Profile(u)
           entry == [park[k] EXCEPT !.plate = at[u].plate]
           pc == IF at[u].flow = "register" THEN "save" ELSE "keep"
           conv == [at[u] EXCEPT !.pc = pc]
<1>4. done => k # None
  BY <1>3
<1>5. k # None => Profiled(u, k) /\ k \in DOMAIN park
  <2>1. CASE at[u].flow = "register"
    BY <1>1, <2>1, Now DEF Profile, Profiled, Pending, YangoOK, Saved, Settled, Moved, Settling
  <2>2. CASE at[u].flow = "change"
    <3>1. k = Driver(u).profile /\ k \in 0..Len(park) /\ Len(park) \in Nat
             /\ DOMAIN park = 1..Len(park)
      BY <1>2, <2>2, Now DEF Profile, DriverRow, Inv, TablesOK, ParkOK
    <3> QED BY <1>2, <3>1 DEF Profiled, None
  <2> QED BY <1>1, <2>1, <2>2
<1>6. done => park' = [park EXCEPT ![k] = entry] /\ entry \in Entry
  BY <1>1, <1>3, <1>4, <1>5, EntryIs
<1>7. park' = park \/ (Profiled(u, k) /\ k \in DOMAIN park /\ entry \in Entry
                         /\ park' = [park EXCEPT ![k] = entry])
  BY <1>3, <1>4, <1>5, <1>6
<1>8. CASE Passed(answer)
  <2>1. done /\ k # None /\ Set(u, conv) /\ told' = told
    BY <1>3, <1>8 DEF Passed, Done, Goto, Set
  <2>2. park'[k].plate = at[u].plate /\ park'[k].phone = park[k].phone
    <3>1. park[k] \in Entry
      BY <1>5, <2>1, EntryIs
    <3>2. entry.plate = at[u].plate /\ entry.phone = park[k].phone
      BY <3>1 DEF Entry
    <3> HIDE DEF entry, k
    <3>3. park' = [park EXCEPT ![k] = entry] /\ k \in DOMAIN park
      BY <1>5, <1>6, <2>1
    <3>4. park'[k] = entry
      BY <3>3
    <3> QED BY <3>2, <3>4
  <2> HIDE DEF entry
  <2>3. /\ k = IF at[u].flow = "register" THEN at[u].profile ELSE Driver(u).profile
    BY DEF Profile
  <2> HIDE DEF k
  <2>15. /\ pc \in Labels /\ pc \in {"save", "keep"}
         /\ (pc = "save") <=> (at[u].flow = "register")
    BY DEF Labels, Working
  <2> HIDE DEF pc
  <2>4. /\ conv \in Conversation /\ conv.stage = "waiting" /\ conv.pc = pc
        /\ conv.flow = at[u].flow /\ conv.phone = at[u].phone /\ conv.plate = at[u].plate
        /\ conv.mode = "UPDATE" /\ conv.car = at[u].car /\ conv.profile = at[u].profile
    BY <1>1, <2>15 DEF Conversation
  <2> HIDE DEF conv
  <2>5. SetsTo(u, conv, told[u])
    BY <2>1, SetOnly
  <2>6. /\ at'[u] = conv /\ told'[u] = told[u]
        /\ \A v \in Users \ {u} : at'[v] = at[v]
    BY <2>5, SetIs
  <2>7. /\ TablesOf(u) /\ TablesOK' /\ Rows' = Rows /\ Holders' = Holders /\ Last' = Last
        /\ DOMAIN park' = DOMAIN park /\ Conversation' = Conversation /\ Message' = Message
    BY <1>1, <1>7, ParkStep
  <2>8. ControlOK(u)'
    BY <1>1, <2>4, <2>6, <2>7, <2>15, Now DEF ControlOK, Documents, Uploads, Jobs, Moves, Settling
  <2>9. RowOK(u)'
    BY <1>2, <2>4, <2>6, <2>7, <2>15
    DEF RowOK, MineOf, Uploads, Jobs, Moves, Settling, Driving, Settled
  <2>10. confirmed' = confirmed
    BY <1>1
  <2>11. NewOK(u)'
    BY <1>1, <2>4, <2>6, <2>7, <2>10, <2>15, Now
    DEF NewOK, Registering, Created, Jobs, Undoing, Saved,
                                              Settling
  <2>12. YangoOK(u)'
    <3>1. ASSUME at[u].flow = "register"
          PROVE  /\ conv.profile \in DOMAIN park' /\ park'[conv.profile].phone = conv.phone
                 /\ park'[conv.profile].plate = conv.plate
                 /\ \A d \in Rows : d.profile # conv.profile
                 /\ \A v \in Users \ {u} : Pending(v)' => at'[v].profile # conv.profile
      <4>1. /\ at[u].profile \in DOMAIN park /\ park[at[u].profile].phone = at[u].phone
            /\ \A d \in Rows : d.profile # at[u].profile
            /\ \A v \in Users \ {u} : Pending(v) => at[v].profile # at[u].profile
        BY <1>1, <3>1, Now DEF YangoOK, Pending, Saved, Settled, Moved, Settling
      <4>2. \A v \in Users \ {u} : Pending(v)' = Pending(v)
        BY <2>6 DEF Pending
      <4> QED BY <2>2, <2>3, <2>4, <2>6, <2>7, <3>1, <4>1, <4>2
    <3>2. ASSUME at[u].flow = "change", NEW d \in MineOf(u)'
          PROVE  d.profile # None /\ park'[d.profile].plate = conv.plate
      <4>1. d = Driver(u)
        BY <1>2, <2>4, <2>6, <2>7 DEF MineOf
      <4> QED BY <2>1, <2>2, <2>3, <2>4, <3>2, <4>1
    <3> QED BY <1>1, <2>4, <2>6, <2>7, <2>15, <3>1, <3>2
           DEF YangoOK, Pending, Saved, Settled, Moved, Settling
  <2>13. ClosingOK(u)'
    BY <1>1, <2>6, OpenTold DEF ClosingOK
  <2>14. conv.flow = "register" => Pending(u)
    BY <1>1, <2>4 DEF Pending
  <2> QED BY <2>4, <2>5, <2>7, <2>8, <2>9, <2>11, <2>12, <2>13, <2>14, Now, StepOf DEF UserOK
<1>9. CASE ~Passed(answer)
  <2>1. Fail(u)
    BY <1>3, <1>9
  <2> HIDE DEF entry, k
  <2>2. TablesOf(u) /\ TablesOK' /\ Holders' = Holders /\ Last' = Last /\ confirmed' = confirmed
    BY <1>1, <1>7, ParkStep
  <2>3. at[u].flow = "register" => Registering(u)
    BY <1>1 DEF Registering, Jobs
  <2> QED BY <1>1, <2>1, <2>2, <2>3, Blank, FailStep DEF Jobs
<1> QED BY <1>8, <1>9

LEMMA MoveStep ==
  ASSUME Inv, NEW u \in Users, MoveNumber(u)
  PROVE  Inv'
<1>1. /\ at[u].pc = "number" /\ at[u] \in Conversation /\ at[u].stage = "waiting"
      /\ at[u].mode = "UPDATE" /\ UNCHANGED <<tables, confirmed>> /\ at[u].flow = "move"
      /\ at[u].phone \in Phones /\ Owner[at[u].phone] = u
      /\ at[u].new \in Phones /\ Owner[at[u].new] = u
      /\ \A d \in Rows : d.phone # at[u].new
  BY Now DEF MoveNumber, At, ControlOK, Undoing, Conversation, Documents, Moves, RowOK, Driving,
             Settled, Settling, Uploads, Jobs
<1>2. /\ MineOf(u) = {Driver(u)} /\ Driver(u) \in Rows /\ Driver(u).wha = u
      /\ Driver(u) \in DriverRow
  BY <1>1, Driven DEF Driving, Moves
<1>3. PICK answer \in Answers, done \in BOOLEAN :
       /\ IF Driver(u).profile = None THEN answer # "accepted" /\ ~done
                                      ELSE done \in Done(answer)
       /\ park' = IF done THEN [park EXCEPT ![Driver(u).profile].phone = at[u].new] ELSE park
       /\ IF Passed(answer) THEN Goto(u, "move") /\ UNCHANGED told ELSE Fail(u)
  BY DEF MoveNumber
<1> DEFINE k == Driver(u).profile
           entry == [park[k] EXCEPT !.phone = at[u].new]
           conv == [at[u] EXCEPT !.pc = "move"]
<1>4. k # None => Profiled(u, k) /\ k \in DOMAIN park
  <2>1. k \in 0..Len(park) /\ Len(park) \in Nat /\ DOMAIN park = 1..Len(park)
    BY <1>2, Now DEF DriverRow, Inv, TablesOK, ParkOK
  <2> QED BY <1>2, <2>1 DEF Profiled, None
<1>5. done => k # None
  BY <1>3
<1>6. done => park' = [park EXCEPT ![k] = entry] /\ entry \in Entry
  BY <1>1, <1>3, <1>4, <1>5, EntryIs
<1>7. park' = park \/ (Profiled(u, k) /\ k \in DOMAIN park /\ entry \in Entry
                         /\ park' = [park EXCEPT ![k] = entry])
  BY <1>3, <1>4, <1>5, <1>6
<1>8. CASE Passed(answer)
  <2>1. done /\ k # None /\ Set(u, conv) /\ told' = told
    BY <1>3, <1>8 DEF Passed, Done, Goto, Set
  <2>2. park'[k].phone = at[u].new
    <3>1. park[k] \in Entry
      BY <1>4, <2>1, EntryIs
    <3>2. entry.phone = at[u].new
      BY <3>1 DEF Entry
    <3> HIDE DEF entry, k
    <3>3. park' = [park EXCEPT ![k] = entry] /\ k \in DOMAIN park
      BY <1>4, <1>6, <2>1
    <3>4. park'[k] = entry
      BY <3>3
    <3> QED BY <3>2, <3>4
  <2> HIDE DEF entry
  <2>4. /\ conv \in Conversation /\ conv.stage = "waiting" /\ conv.pc = "move"
        /\ conv.flow = at[u].flow /\ conv.phone = at[u].phone /\ conv.new = at[u].new
        /\ conv.mode = "UPDATE"
    BY <1>1 DEF Conversation, Labels, Working
  <2> HIDE DEF conv
  <2>5. SetsTo(u, conv, told[u])
    BY <2>1, SetOnly
  <2>6. at'[u] = conv /\ told'[u] = told[u]
    BY <2>5, SetIs
  <2>7. /\ TablesOf(u) /\ TablesOK' /\ Rows' = Rows /\ Holders' = Holders /\ Last' = Last
        /\ Conversation' = Conversation /\ Message' = Message
    BY <1>1, <1>7, ParkStep
  <2>8. ControlOK(u)'
    BY <1>1, <2>4, <2>6, <2>7, Now DEF ControlOK, Documents, Uploads, Jobs, Moves, Settling
  <2>9. RowOK(u)'
    BY <1>1, <1>2, <2>4, <2>6, <2>7 DEF RowOK, MineOf, Uploads, Jobs, Moves, Settling, Driving,
                                        Settled
  <2>10. NewOK(u)'
    BY <1>1, <2>4, <2>6 DEF NewOK, Registering, Created, Undoing, Saved, Settling, Jobs
  <2>11. YangoOK(u)'
    <3>1. MineOf(u)' = {Driver(u)}
      BY <1>2, <2>4, <2>6, <2>7 DEF MineOf
    <3> QED BY <1>1, <2>1, <2>2, <2>4, <2>6, <3>1 DEF YangoOK, Pending, Saved, Settled, Moved,
                                                      Settling
  <2>12. ClosingOK(u)'
    BY <1>1, <2>6, OpenTold DEF ClosingOK
  <2> QED BY <1>1, <2>4, <2>5, <2>7, <2>8, <2>9, <2>10, <2>11, <2>12, Now, StepOf DEF UserOK
<1>9. CASE ~Passed(answer)
  <2>1. Fail(u)
    BY <1>3, <1>9
  <2> HIDE DEF entry, k
  <2>2. TablesOf(u) /\ TablesOK'
    BY <1>1, <1>7, ParkStep
  <2> QED BY <1>1, <2>1, <2>2, FailStep DEF Moves
<1> QED BY <1>8, <1>9

(* A computation goes from one call to the next.                           *)
LEMMA GotoIs ==
  ASSUME Inv, NEW u \in Users, NEW pc \in Labels, Goto(u, pc)
  PROVE  \E conv \in Conversation :
           /\ at' = [at EXCEPT ![u] = conv]
           /\ conv.stage = at[u].stage /\ conv.flow = at[u].flow /\ conv.mode = at[u].mode
           /\ conv.phone = at[u].phone /\ conv.new = at[u].new /\ conv.plate = at[u].plate
           /\ conv.car = at[u].car /\ conv.profile = at[u].profile /\ conv.pc = pc
<1> DEFINE conv == [at[u] EXCEPT !.pc = pc]
<1>1. at' = [at EXCEPT ![u] = conv]
  BY DEF Goto
<1>2. /\ conv \in Conversation
      /\ conv.stage = at[u].stage /\ conv.flow = at[u].flow /\ conv.mode = at[u].mode
      /\ conv.phone = at[u].phone /\ conv.new = at[u].new /\ conv.plate = at[u].plate
      /\ conv.car = at[u].car /\ conv.profile = at[u].profile /\ conv.pc = pc
  BY Now DEF Conversation
<1> HIDE DEF conv
<1> QED BY <1>1, <1>2

LEMMA Goes ==
  ASSUME Inv, NEW u \in Users, NEW pc \in Labels, Goto(u, pc), told' = told
  PROVE  \E conv \in Conversation :
           /\ SetsTo(u, conv, told[u])
           /\ conv.stage = at[u].stage /\ conv.flow = at[u].flow /\ conv.mode = at[u].mode
           /\ conv.phone = at[u].phone /\ conv.new = at[u].new /\ conv.plate = at[u].plate
           /\ conv.car = at[u].car /\ conv.profile = at[u].profile /\ conv.pc = pc
<1>1. told' = [told EXCEPT ![u] = told[u]]
  BY DEF Inv, ShapeOK
<1> QED BY <1>1, GotoIs DEF SetsTo

(* A worker is over, and what it has said stays.                           *)
LEMMA WorkerOver ==
  ASSUME Inv, NEW u \in Users, at[u].stage = "waiting", NEW conv \in Conversation,
         SetsTo(u, conv, told[u]), conv.stage = "waiting", conv.flow = at[u].flow,
         conv.phone = at[u].phone, conv.new = at[u].new, conv.mode = "UPDATE",
         conv.pc \in {"await", "end"}, UNCHANGED <<tables, park, confirmed>>
  PROVE  Inv'
<1>1. at'[u] = conv /\ told'[u] = told[u] /\ park' = park
  BY SetIs
<1>2. /\ TablesOf(u) /\ TablesOK' /\ Rows' = Rows
      /\ Conversation' = Conversation /\ Message' = Message
  BY QuietTables
<1>3. ControlOK(u)'
  BY <1>1, <1>2, Now DEF ControlOK, Documents, Uploads, Jobs, Moves, Settling
<1>4. RowOK(u)' /\ NewOK(u)' /\ YangoOK(u)'
  BY <1>1 DEF RowOK, NewOK, YangoOK, Registering, Created, Pending, Uploads, Jobs, Moves,
              Settling, Driving, Settled, Saved, Moved
<1>5. ClosingOK(u)'
  <2>1. ASSUME told[u].text \in Closings
        PROVE  /\ \E d \in Rows' : d.wha = u /\ TrueOf(d, told[u])'
               /\ told[u].text = "moved" => Carded(told[u].phone)'
    <3>1. PICK d \in Rows : d.wha = u /\ TrueOf(d, told[u])
      BY <2>1, Now DEF ClosingOK
    <3>2. PICK m : m = told[u]
      OBVIOUS
    <3>3. TrueOf(d, told[u])'
      BY <1>1, <3>1 DEF TrueOf
    <3>4. told[u].text = "moved" => Carded(told[u].phone)'
      BY <1>1, <1>2, <2>1, Now DEF ClosingOK, Carded
    <3> QED BY <1>2, <3>1, <3>3, <3>4
  <2> QED BY <1>1, <2>1 DEF ClosingOK, TrueOf
<1> QED BY <1>1, <1>2, <1>3, <1>4, <1>5, Now, StepOf DEF UserOK

LEMMA SeenCars ==
  ASSUME Inv, NEW id, lastCar' = lastCar,
         cars' = {IF c.id = id THEN [c EXCEPT !.yango = TRUE] ELSE c : c \in cars}
  PROVE  CarsOK'
<1>1. lastCar \in Nat /\ cars \subseteq CarRow
      /\ \A c, d \in cars : c # d => c.id # d.id /\ c.plate # d.plate
  BY DEF Inv, TablesOK, CarsOK
<1>2. \A e \in cars' : \E c \in cars :
         /\ e = IF c.id = id THEN [c EXCEPT !.yango = TRUE] ELSE c
         /\ e \in CarRow /\ e.id = c.id /\ e.plate = c.plate
  <2> TAKE e \in cars'
  <2>1. PICK c \in cars : e = IF c.id = id THEN [c EXCEPT !.yango = TRUE] ELSE c
    OBVIOUS
  <2>2. e \in CarRow /\ e.id = c.id /\ e.plate = c.plate
    BY <1>1, <2>1 DEF CarRow
  <2> QED BY <2>1, <2>2
<1>3. ASSUME NEW e \in cars', NEW f \in cars', e # f
      PROVE  e.id # f.id /\ e.plate # f.plate
  <2>1. PICK c \in cars : /\ e = IF c.id = id THEN [c EXCEPT !.yango = TRUE] ELSE c
                          /\ e.id = c.id /\ e.plate = c.plate
    BY <1>2
  <2>2. PICK g \in cars : /\ f = IF g.id = id THEN [g EXCEPT !.yango = TRUE] ELSE g
                          /\ f.id = g.id /\ f.plate = g.plate
    BY <1>2
  <2>3. c # g
    BY <1>3, <2>1, <2>2
  <2> QED BY <1>1, <2>1, <2>2, <2>3
<1>4. CarRow' = CarRow
  BY DEF CarRow, CarIds
<1> QED BY <1>1, <1>2, <1>3, <1>4 DEF CarsOK

LEMMA SaveStep ==
  ASSUME Inv, NEW u \in Users, Save(u)
  PROVE  Inv'
<1>1. /\ at[u].pc = "save" /\ at[u].stage = "waiting" /\ at[u].flow = "register"
      /\ at[u].mode = "UPDATE" /\ cars' = cars /\ lastCar' = lastCar /\ park' = park
      /\ confirmed' = confirmed /\ told' = told
      /\ at[u].phone \in Phones /\ Owner[at[u].phone] = u
  BY Now DEF Save, At, ControlOK, Undoing, Conversation, Documents, Jobs
<1> DEFINE i == Mine(u)
           d == Driver(u)
           k == at[u].profile
           row == [d EXCEPT !.profile = k]
<1>2. /\ i \in DOMAIN drivers /\ drivers[i] = d /\ MineOf(u) = {d}
      /\ d \in Rows /\ d.phone = at[u].phone /\ d.wha = u /\ d \in DriverRow
      /\ Last[u] = d
  BY <1>1, Driven DEF Driving, Jobs, Registering
<1>3. /\ d.car = at[u].car /\ d.card = at[u].phone /\ d.profile = None
      /\ None \notin confirmed
  BY <1>1, <1>2, Blank, Now DEF RowOK, NewOK, Registering, Jobs
<1>4. drivers' = [drivers EXCEPT ![i] = row]
  BY <1>2 DEF Save
<1>5. /\ k \in DOMAIN park /\ park[k].phone = at[u].phone /\ park[k].plate = at[u].plate
      /\ (\A e \in Rows : e.profile # k) /\ Profiled(u, k)
  BY <1>1, Now DEF YangoOK, Pending, Profiled
<1>6. k \in 0..Len(park) /\ k # None /\ k \notin confirmed
  BY <1>5, Now DEF None, ConfirmedOK, Inv, TablesOK, ParkOK
<1>7. PICK conv \in Conversation :
        /\ SetsTo(u, conv, told[u])
        /\ conv.stage = "waiting" /\ conv.flow = "register" /\ conv.mode = "UPDATE"
        /\ conv.phone = at[u].phone /\ conv.plate = at[u].plate
        /\ conv.car = at[u].car /\ conv.profile = k /\ conv.pc = "keep"
  BY <1>1, Goes DEF Save, Labels, Working
<1> HIDE DEF i, d, k
<1>8. /\ row \in DriverRow /\ row.wha = u /\ row.phone = d.phone /\ row.licence = d.licence
      /\ row.card = d.card /\ row.profile = k /\ row.car = d.car
  BY <1>2, <1>6 DEF DriverRow
<1> HIDE DEF row
<1>9. RowOfOwner(row) /\ ApartFrom(row, Rows \ {drivers[i]})
  <2>1. row.card # "none"
    BY <1>1, <1>3, <1>8, PhonesAssumption
  <2>2. RowOfOwner(row)
    BY <1>1, <1>2, <1>3, <1>8, <2>1 DEF RowOfOwner
  <2>3. ASSUME NEW e \in Rows \ {drivers[i]}
        PROVE  Apart(row, e)
    <3>1. Apart(d, e)
      BY <1>2, RowFacts, Now
    <3> QED BY <1>5, <1>8, <3>1 DEF Apart
  <2> QED BY <2>2, <2>3 DEF ApartFrom
<1>10. /\ TablesOf(u) /\ DriversOK'
       /\ Rows' = (Rows \ {drivers[i]}) \cup {row}
       /\ u \in Holders' /\ Last'[u] = row
  <2>1. i \in DOMAIN drivers /\ drivers[i].wha = u
        /\ (\A p \in confirmed' : p \in confirmed \/ Profiled(u, p))
        /\ (row.profile = None \/ Profiled(u, row.profile))
    BY <1>1, <1>2, <1>5, <1>8
  <2>2. /\ TablesOf(u) /\ DriversOK'
        /\ Rows' = (Rows \ {drivers[i]}) \cup {row}
        /\ u \in Holders' /\ Last'[u] = IF Last[u] = drivers[i] THEN row ELSE Last[u]
    BY <1>1, <1>4, <1>8, <1>9, <2>1, RowStep
  <2> QED BY <1>2, <2>2
<1>11. ConfirmedOK'
  <2>1. \A p \in confirmed : \E e \in Rows \ {drivers[i]} : e.profile = p
    BY <1>2, <1>3, Now DEF ConfirmedOK
  <2> QED BY <1>1, <1>10, <2>1, Now DEF ConfirmedOK
<1>12. TablesOK'
  BY <1>1, <1>10, <1>11, SamePark, FewerCars DEF TablesOK
<1>13. /\ at'[u] = conv /\ told'[u] = told[u]
       /\ Conversation' = Conversation /\ Message' = Message
  BY <1>1, <1>7, SetIs, SameTypes
<1>14. ControlOK(u)'
  BY <1>1, <1>7, <1>13, Now DEF ControlOK, Documents, Uploads, Jobs, Moves, Settling
<1>15. RowOK(u)'
  <2>1. \A e \in Rows \ {d} : e.phone # d.phone
    BY <1>2, RowFacts, Now DEF Apart
  <2>2. MineOf(u)' = {row}
    BY <1>2, <1>7, <1>8, <1>10, <1>13, <2>1 DEF MineOf
  <2> QED BY <1>3, <1>7, <1>8, <1>13, <2>2
          DEF RowOK, Uploads, Jobs, Moves, Settling, Driving, Settled
<1>16. NewOK(u)'
  BY <1>1, <1>2, <1>6, <1>7, <1>8, <1>10, <1>13
  DEF NewOK, Registering, Created, Saved, Settling, Jobs, Undoing
<1>17. YangoOK(u)' /\ ClosingOK(u)'
  BY <1>1, <1>5, <1>7, <1>13, OpenTold
  DEF YangoOK, ClosingOK, Pending, Saved, Settled, Moved, Settling
<1> QED BY <1>7, <1>10, <1>12, <1>13, <1>14, <1>15, <1>16, <1>17, Now, StepOf DEF UserOK

(* What a registration has saved was not confirmed before it is announced. *)
LEMMA Unannounced ==
  ASSUME Inv, NEW u \in Users, at[u].pc \in Jobs \cup {"keep", "announce"},
         at[u].flow = "register"
  PROVE  u \in Holders /\ Last[u].profile \notin confirmed
<1>1. CASE at[u].pc \in Jobs
  BY <1>1, Blank DEF Registering
<1>2. CASE at[u].pc \in {"keep", "announce"}
  BY <1>2, Now DEF NewOK, Saved, Settling
<1> QED BY <1>1, <1>2

LEMMA CarSaveStep ==
  ASSUME Inv, NEW u \in Users, SaveCar(u)
  PROVE  Inv'
<1>1. /\ at[u].pc = "keep" /\ at[u].stage = "waiting" /\ at[u].mode = "UPDATE"
      /\ drivers' = drivers /\ lastCar' = lastCar /\ park' = park /\ confirmed' = confirmed
      /\ at[u].flow \in {"register", "change"}
  BY Now DEF SaveCar, At, ControlOK, Undoing, Conversation, Settling
<1>2. \/ Fail(u) /\ cars' = cars
      \/ /\ cars' = {IF c.id = at[u].car THEN [c EXCEPT !.yango = TRUE] ELSE c : c \in cars}
         /\ Goto(u, "announce") /\ told' = told
  BY DEF SaveCar
<1>3. CarsOK' /\ ParkOK'
  BY <1>1, <1>2, SeenCars, FewerCars, SamePark
<1>4. /\ TablesOf(u) /\ DriversOK' /\ Rows' = Rows /\ Holders' = Holders /\ Last' = Last
  BY <1>1, <1>3, SamePark, SameDrivers
<1>5. TablesOK'
  BY <1>1, <1>3, <1>4, Now DEF TablesOK, ConfirmedOK
<1>6. CASE Fail(u)
  BY <1>1, <1>4, <1>5, <1>6, Unannounced, FailStep DEF Settling
<1>7. CASE Goto(u, "announce") /\ told' = told
  <2>1. PICK conv \in Conversation :
          /\ SetsTo(u, conv, told[u])
          /\ conv.stage = "waiting" /\ conv.flow = at[u].flow /\ conv.mode = "UPDATE"
          /\ conv.phone = at[u].phone /\ conv.plate = at[u].plate
          /\ conv.car = at[u].car /\ conv.profile = at[u].profile /\ conv.pc = "announce"
    BY <1>1, <1>7, Goes DEF Labels, Working
  <2>2. /\ at'[u] = conv /\ told'[u] = told[u]
        /\ Conversation' = Conversation /\ Message' = Message
    BY <1>1, <2>1, SetIs, SameTypes
  <2>3. ControlOK(u)'
    BY <1>1, <2>1, <2>2, Now DEF ControlOK, Documents, Uploads, Jobs, Moves, Settling
  <2>4. RowOK(u)'
    BY <1>1, <1>4, <2>1, <2>2, Now
    DEF RowOK, MineOf, Uploads, Jobs, Moves, Settling, Driving, Settled
  <2>5. NewOK(u)'
    BY <1>1, <1>4, <2>1, <2>2, Now
    DEF NewOK, Registering, Created, Saved, Settling, Jobs, Undoing
  <2>6. YangoOK(u)'
    BY <1>1, <1>4, <2>1, <2>2, Now
    DEF YangoOK, MineOf, Pending, Saved, Settled, Moved, Settling
  <2>7. ClosingOK(u)'
    BY <1>1, <2>2, OpenTold DEF ClosingOK
  <2> QED BY <1>4, <1>5, <2>1, <2>2, <2>3, <2>4, <2>5, <2>6, <2>7, Now, StepOf DEF UserOK
<1> QED BY <1>2, <1>6, <1>7

(* What is announced is so.                                                *)
LEMMA AnnouncedIs ==
  ASSUME Inv, NEW u \in Users, at[u].pc = "announce", NEW m,
         m.text = Closing[at[u].flow],
         m.phone = IF at[u].flow = "move" THEN at[u].new ELSE at[u].phone,
         m.plate = at[u].plate, m.car = at[u].car
  PROVE  /\ \E d \in Rows : d.wha = u /\ TrueOf(d, m)
         /\ m.text = "moved" => Carded(m.phone)
         /\ at[u].flow # "move" => Profile(u) \in DOMAIN park /\ Profiled(u, Profile(u))
<1>1. /\ at[u].stage = "waiting" /\ at[u].phone \in Phones /\ Owner[at[u].phone] = u
      /\ at[u].flow \in {"register", "change", "move"}
      /\ at[u].flow = "move" => at[u].new \in Phones /\ Owner[at[u].new] = u
      /\ DOMAIN park = 1..Len(park) /\ Len(park) \in Nat
  BY Now DEF ControlOK, Documents, Settling, Inv, TablesOK, ParkOK
<1>2. \A d \in Rows : /\ d.wha = Owner[d.phone] /\ (d.profile # None => d.card # "none")
                       /\ d \in DriverRow
  BY RowFacts, Now DEF RowOfOwner
<1>3. at[u].flow # "move" =>
        /\ Driver(u) \in Rows /\ Driver(u).phone = at[u].phone /\ Driver(u).wha = u
        /\ MineOf(u) = {Driver(u)} /\ Driver(u).car = at[u].car
  BY Driven, Now DEF Driving, Settled, Settling, RowOK
<1>4. CASE at[u].flow = "register"
  <2>1. /\ at[u].profile \in DOMAIN park /\ Driver(u).profile = at[u].profile
        /\ park[at[u].profile].phone = at[u].phone /\ park[at[u].profile].plate = at[u].plate
    BY <1>4, Driven, Now DEF Driving, Settled, Settling, Saved, NewOK, YangoOK
  <2>2. Driver(u).profile # None
    BY <1>1, <2>1 DEF None
  <2>3. park[at[u].profile] = [phone |-> m.phone, plate |-> m.plate]
    <3>1. park[at[u].profile] \in Entry
      BY <2>1, EntryIs
    <3> QED BY <1>4, <2>1, <3>1 DEF Entry
  <2>4. m.text = "welcome" /\ m.phone = at[u].phone
    BY <1>4 DEF Closing
  <2>5. TrueOf(Driver(u), m)
    BY <1>2, <1>3, <1>4, <2>1, <2>2, <2>3, <2>4 DEF TrueOf
  <2> QED BY <1>3, <1>4, <2>1, <2>2, <2>4, <2>5 DEF Profile, Profiled
<1>5. CASE at[u].flow = "change"
  <2>1. Driver(u).profile # None /\ park[Driver(u).profile].plate = at[u].plate
    BY <1>3, <1>5, Now DEF Settled, Settling, YangoOK
  <2>2. m.text = "changed" /\ m.phone = at[u].phone
    BY <1>5 DEF Closing
  <2>3. TrueOf(Driver(u), m)
    BY <1>2, <1>3, <1>5, <2>1, <2>2 DEF TrueOf
  <2>4. Driver(u).profile \in DOMAIN park
    BY <1>1, <1>2, <1>3, <1>5, <2>1 DEF DriverRow, None
  <2> QED BY <1>3, <1>5, <2>1, <2>2, <2>3, <2>4 DEF Profile, Profiled
<1>6. CASE at[u].flow = "move"
  <2>1. Known(at[u].new) /\ Carded(at[u].new)
    BY <1>6, Now DEF YangoOK, Moved, Settling
  <2>2. m.text = "moved" /\ m.phone = at[u].new
    BY <1>6 DEF Closing
  <2>3. PICK d \in Rows : /\ d.phone = at[u].new /\ d.profile # None
                          /\ park[d.profile].phone = at[u].new
    BY <2>1 DEF Known
  <2>4. d.wha = u /\ TrueOf(d, m)
    BY <1>1, <1>2, <1>6, <2>2, <2>3 DEF TrueOf
  <2> QED BY <1>6, <2>1, <2>2, <2>4
<1> QED BY <1>1, <1>4, <1>5, <1>6

LEMMA AnnounceStep ==
  ASSUME Inv, NEW u \in Users, Announce(u)
  PROVE  Inv'
<1>1. /\ at[u].pc = "announce" /\ at[u].stage = "waiting" /\ at[u].mode = "UPDATE"
      /\ drivers' = drivers /\ cars' = cars /\ lastCar' = lastCar /\ park' = park
      /\ at[u].flow \in {"register", "change", "move"} /\ at[u] \in Conversation
      /\ at[u].phone \in Phones
      /\ at[u].flow = "move" => at[u].new \in Phones
      /\ Goto(u, "told")
  BY Now DEF Announce, At, ControlOK, Undoing, Conversation, Settling, Documents, tables
<1>a. PICK text : text = Closing[at[u].flow]
  OBVIOUS
<1>b. PICK phone : phone = IF at[u].flow = "move" THEN at[u].new ELSE at[u].phone
  OBVIOUS
<1>c. PICK m : m = [text |-> text, phone |-> phone, plate |-> at[u].plate, car |-> at[u].car]
  OBVIOUS
<1>2. told' = [told EXCEPT ![u] = m]
  BY <1>a, <1>b, <1>c DEF Announce, Tell
<1>3. text \in Closings /\ phone \in Phones
  BY <1>1, <1>a, <1>b DEF Closing, Closings
<1>4. /\ m \in Message /\ m.text = text /\ m.phone = phone /\ m.plate = at[u].plate
      /\ m.car = at[u].car
  BY <1>1, <1>3, <1>c DEF Conversation, Message, Closings
<1>5. /\ \E d \in Rows : d.wha = u /\ TrueOf(d, m)
      /\ m.text = "moved" => Carded(m.phone)
      /\ at[u].flow # "move" => Profile(u) \in DOMAIN park /\ Profiled(u, Profile(u))
  BY <1>1, <1>4, <1>a, <1>b, AnnouncedIs
<1>6. confirmed' = IF at[u].flow = "move" THEN confirmed ELSE confirmed \cup {Profile(u)}
  BY DEF Announce
<1>7. /\ TablesOf(u) /\ DriversOK' /\ Rows' = Rows /\ Holders' = Holders /\ Last' = Last
  <2>1. \A p \in confirmed' : p \in confirmed \/ Profiled(u, p)
    BY <1>5, <1>6
  <2> QED BY <1>1, <2>1, SamePark, SameDrivers
<1>8. TablesOK'
  <2>1. ConfirmedOK'
    <3>1. ASSUME at[u].flow # "move"
          PROVE  \E d \in Rows : d.profile = Profile(u)
      BY <1>1, <1>5, <3>1 DEF Profiled, Pending
    <3> QED BY <1>1, <1>5, <1>6, <1>7, <3>1, Now DEF ConfirmedOK
  <2> QED BY <1>1, <1>7, <2>1, SamePark, FewerCars DEF TablesOK
<1>9. PICK conv \in Conversation :
        /\ at' = [at EXCEPT ![u] = conv]
        /\ conv.stage = "waiting" /\ conv.flow = at[u].flow /\ conv.mode = "UPDATE"
        /\ conv.phone = at[u].phone /\ conv.new = at[u].new /\ conv.plate = at[u].plate
        /\ conv.car = at[u].car /\ conv.profile = at[u].profile /\ conv.pc = "told"
  BY <1>1, GotoIs DEF Labels, Working
<1>10. SetsTo(u, conv, m)
  BY <1>2, <1>9 DEF SetsTo
<1>11. /\ at'[u] = conv /\ told'[u] = m
       /\ Conversation' = Conversation /\ Message' = Message
  BY <1>1, <1>10, SetIs, SameTypes
<1>12. ControlOK(u)'
  BY <1>1, <1>4, <1>9, <1>11, Now DEF ControlOK, Documents, Uploads, Jobs, Moves, Settling
<1>13. RowOK(u)'
  BY <1>1, <1>7, <1>9, <1>11, Now
  DEF RowOK, MineOf, Uploads, Jobs, Moves, Settling, Driving, Settled
<1>14. NewOK(u)'
  BY <1>1, <1>7, <1>9, <1>11, Now
  DEF NewOK, Registering, Created, Saved, Settling, Jobs, Undoing
<1>15. YangoOK(u)'
  BY <1>1, <1>7, <1>9, <1>11, Now
  DEF YangoOK, MineOf, Known, Carded, Pending, Saved, Settled, Moved, Settling
<1>16. ClosingOK(u)'
  <2>1. PICK d \in Rows : d.wha = u /\ TrueOf(d, m)
    BY <1>5
  <2>2. d \in Rows' /\ TrueOf(d, m)'
    BY <1>1, <1>7, <2>1 DEF TrueOf
  <2>3. m.text = "moved" => Carded(m.phone)'
    BY <1>5, <1>7 DEF Carded
  <2> QED BY <1>9, <1>11, <2>1, <2>2, <2>3 DEF ClosingOK, TrueOf
<1> QED BY <1>4, <1>7, <1>8, <1>9, <1>10, <1>11, <1>12, <1>13, <1>14, <1>15, <1>16, StepOf
        DEF UserOK

LEMMA ConcludeStep ==
  ASSUME Inv, NEW u \in Users, Conclude(u)
  PROVE  Inv'
<1>1. /\ at[u].stage = "waiting" /\ at[u].mode = "UPDATE" /\ Goto(u, "end") /\ told' = told
      /\ UNCHANGED <<tables, park, confirmed>>
  BY Now DEF Conclude, At, ControlOK, Undoing, Conversation, Settling
<1>2. PICK conv \in Conversation :
        /\ SetsTo(u, conv, told[u])
        /\ conv.stage = "waiting" /\ conv.flow = at[u].flow /\ conv.mode = "UPDATE"
        /\ conv.phone = at[u].phone /\ conv.new = at[u].new /\ conv.pc = "end"
  BY <1>1, Goes DEF Labels
<1> QED BY <1>1, <1>2, WorkerOver

LEMMA AbortThrowsStep ==
  ASSUME Inv, NEW u \in Users, AbortThrows(u)
  PROVE  Inv'
<1>1. /\ at[u].stage = "waiting" /\ Set(u, Idle(at[u])) /\ told' = told
      /\ UNCHANGED <<tables, park, confirmed>>
  BY Now DEF AbortThrows, Working, ControlOK, Jobs, Moves, Settling
<1> DEFINE conv == Idle(at[u])
<1>2. SetsTo(u, conv, told[u])
  BY <1>1, SetOnly
<1>3. /\ conv \in Conversation /\ conv.stage = at[u].stage /\ conv.flow = at[u].flow
      /\ conv.phone = at[u].phone /\ conv.new = at[u].new /\ conv.pc = "await"
      /\ conv.mode = "UPDATE"
  BY IdleFacts
<1> HIDE DEF conv
<1> QED BY <1>1, <1>2, <1>3, WorkerOver

(* The catch of a worker, wherever it was.                                 *)
LEMMA WorkThrowsStep ==
  ASSUME Inv, NEW u \in Users, WorkThrows(u)
  PROVE  Inv'
<1>1. /\ at[u].pc \in Jobs \cup Moves \cup Settling /\ Fail(u)
      /\ drivers' = drivers /\ cars' = cars /\ lastCar' = lastCar /\ park' = park
      /\ confirmed' = IF at[u].flow = "register" THEN confirmed \ {at[u].profile}
                      ELSE confirmed
  BY DEF WorkThrows, Working, Jobs, Moves, Settling, tables
<1>2. /\ TablesOf(u) /\ DriversOK' /\ Rows' = Rows /\ Holders' = Holders /\ Last' = Last
  BY <1>1, SamePark, SameDrivers
<1>3. TablesOK'
  <2>1. ConfirmedOK'
    BY <1>1, <1>2, Now DEF ConfirmedOK
  <2> QED BY <1>1, <1>2, <2>1, SamePark, FewerCars DEF TablesOK
<1>4. at[u].flow = "register" => u \in Holders /\ Last[u].profile \notin confirmed'
  <2>1. at[u].flow = "register" => at[u].pc \in Jobs \/ Saved(u)
    BY <1>1, Now DEF ControlOK, Saved, Moves
  <2>2. at[u].flow = "register" /\ at[u].pc \in Jobs =>
          u \in Holders /\ Last[u].profile \notin confirmed
    BY Unannounced
  <2>3. Saved(u) => u \in Holders /\ Last[u].profile = at[u].profile
    BY Now DEF NewOK
  <2> QED BY <1>1, <2>1, <2>2, <2>3
<1> QED BY <1>1, <1>2, <1>3, <1>4, FailStep

LEMMA SaveNumberStep ==
  ASSUME Inv, NEW u \in Users, SaveNumber(u)
  PROVE  Inv'
<1>1. /\ at[u].pc = "move" /\ at[u].stage = "waiting"
      /\ at[u].mode = "UPDATE" /\ cars' = cars /\ lastCar' = lastCar /\ park' = park
      /\ confirmed' = confirmed /\ told' = told /\ at[u].flow = "move"
      /\ at[u].new \in Phones /\ Owner[at[u].new] = u
      /\ \A e \in Rows : e.phone # at[u].new
  BY Now DEF SaveNumber, At, ControlOK, Undoing, Conversation, Moves, RowOK
<1> DEFINE i == Mine(u)
           d == Driver(u)
           row == [d EXCEPT !.phone = at[u].new]
<1>2. /\ i \in DOMAIN drivers /\ drivers[i] = d /\ MineOf(u) = {d}
      /\ d \in Rows /\ d.wha = u /\ d \in DriverRow
  BY <1>1, Driven DEF Driving
<1>3. d.profile # None /\ park[d.profile].phone = at[u].new
  BY <1>1, <1>2, Now DEF YangoOK
<1>4. drivers' = [drivers EXCEPT ![i] = row]
  BY <1>2 DEF SaveNumber
<1>5. PICK conv \in Conversation :
        /\ SetsTo(u, conv, told[u])
        /\ conv.stage = "waiting" /\ conv.flow = "move" /\ conv.mode = "UPDATE"
        /\ conv.phone = at[u].phone /\ conv.new = at[u].new /\ conv.pc = "licence"
  BY <1>1, Goes DEF SaveNumber, Labels, Working
<1> HIDE DEF i, d
<1>6. /\ row \in DriverRow /\ row.wha = u /\ row.phone = at[u].new /\ row.licence = d.licence
      /\ row.card = d.card /\ row.profile = d.profile /\ row.car = d.car
  BY <1>1, <1>2 DEF DriverRow
<1> HIDE DEF row
<1>7. RowOfOwner(row) /\ ApartFrom(row, Rows \ {drivers[i]})
  BY <1>1, <1>2, <1>6, RowFacts, Now DEF RowOfOwner, ApartFrom, Apart
<1>8. Profiled(u, row.profile) /\ \A p \in confirmed' : p \in confirmed \/ Profiled(u, p)
  BY <1>1, <1>2, <1>3, <1>6 DEF Profiled
<1>9. i \in DOMAIN drivers /\ drivers[i].wha = u
  BY <1>2
<1>10. /\ TablesOf(u) /\ DriversOK'
       /\ Rows' = (Rows \ {drivers[i]}) \cup {row}
  BY <1>1, <1>4, <1>6, <1>7, <1>8, <1>9, RowStep
<1>11. ConfirmedOK'
  BY <1>1, <1>2, <1>6, <1>10, Now DEF ConfirmedOK
<1>12. TablesOK'
  BY <1>1, <1>10, <1>11, SamePark, FewerCars DEF TablesOK
<1>13. /\ at'[u] = conv /\ told'[u] = told[u]
       /\ Conversation' = Conversation /\ Message' = Message
  BY <1>1, <1>5, SetIs, SameTypes
<1>14. ControlOK(u)'
  BY <1>1, <1>5, <1>13, Now DEF ControlOK, Documents, Uploads, Jobs, Moves, Settling
<1>15. RowOK(u)' /\ NewOK(u)'
  BY <1>5, <1>13
  DEF RowOK, Uploads, Jobs, Moves, Settling, Driving, Settled, NewOK, Registering, Created,
      Saved, Undoing
<1>16. YangoOK(u)'
  <2>1. \E e \in Rows' : e.phone = conv.new /\ e.profile # None /\ park'[e.profile].phone = conv.new
    BY <1>1, <1>3, <1>5, <1>6, <1>10
  <2> QED BY <1>5, <1>13, <2>1
          DEF YangoOK, Known, Pending, Saved, Settled, Moved, Settling
<1>17. ClosingOK(u)'
  BY <1>1, <1>13, OpenTold DEF ClosingOK
<1> QED BY <1>5, <1>10, <1>12, <1>13, <1>14, <1>15, <1>16, <1>17, Now, StepOf DEF UserOK

LEMMA SaveLicenceStep ==
  ASSUME Inv, NEW u \in Users, SaveLicence(u)
  PROVE  Inv'
<1>1. /\ at[u].pc = "licence" /\ at[u].stage = "waiting"
      /\ at[u].mode = "UPDATE" /\ cars' = cars /\ lastCar' = lastCar /\ park' = park
      /\ confirmed' = confirmed /\ at[u].flow = "move"
      /\ at[u].new \in Phones /\ Owner[at[u].new] = u
      /\ at[u].phone \in Phones /\ Owner[at[u].phone] = u
  BY Now DEF SaveLicence, At, ControlOK, Undoing, Conversation, Moves, Documents
<1>2. \/ Fail(u) /\ drivers' = drivers
      \/ /\ ByCard(at[u].new) = {}
         /\ \E i \in ByCard(at[u].phone) : drivers' = [drivers EXCEPT ![i].card = at[u].new]
         /\ Goto(u, "announce") /\ told' = told
  BY DEF SaveLicence
<1>3. CASE Fail(u) /\ drivers' = drivers
  BY <1>1, <1>3, FailQuietly DEF Moves, tables
<1>4. CASE /\ ByCard(at[u].new) = {}
           /\ \E i \in ByCard(at[u].phone) : drivers' = [drivers EXCEPT ![i].card = at[u].new]
           /\ Goto(u, "announce") /\ told' = told
  <2>1. PICK i \in ByCard(at[u].phone) : drivers' = [drivers EXCEPT ![i].card = at[u].new]
    BY <1>4
  <2> DEFINE d == drivers[i]
             row == [d EXCEPT !.card = at[u].new]
  <2>2. i \in DOMAIN drivers /\ d \in Rows /\ d.card = at[u].phone
    BY DEF ByCard, Rows, RowsOf
  <2>3. d \in DriverRow /\ RowOfOwner(d)
    BY <2>2, RowFacts, Now
  <2>4. d.card # "none" /\ d.wha = u
    BY <1>1, <2>2, <2>3, PhonesAssumption DEF RowOfOwner
  <2>5. drivers' = [drivers EXCEPT ![i] = row]
    BY <2>1
  <2> HIDE DEF d
  <2>6. /\ row \in DriverRow /\ row.wha = u /\ row.phone = d.phone /\ row.licence = d.licence
        /\ row.card = at[u].new /\ row.profile = d.profile /\ row.car = d.car
    BY <1>1, <2>3, <2>4 DEF DriverRow
  <2> HIDE DEF row
  <2>7. RowOfOwner(row)
    BY <1>1, <2>3, <2>4, <2>6, PhonesAssumption DEF RowOfOwner
  <2>8. ASSUME NEW e \in Rows \ {drivers[i]}
        PROVE  Apart(row, e)
    <3>1. Apart(d, e)
      BY <2>2, RowFacts, Now DEF d
    <3>2. e.card # at[u].new
      BY <1>4, Lookups
    <3> QED BY <2>6, <3>1, <3>2 DEF Apart
  <2>9. ApartFrom(row, Rows \ {drivers[i]})
    BY <2>8 DEF ApartFrom
  <2>10. i \in DOMAIN drivers /\ drivers[i].wha = u /\ drivers[i] = d
         /\ (row.profile = None \/ Profiled(u, row.profile))
         /\ (\A p \in confirmed' : p \in confirmed \/ Profiled(u, p))
    BY <1>1, <2>2, <2>4, <2>6 DEF Profiled, d
  <2>11. /\ TablesOf(u) /\ DriversOK'
         /\ Rows' = (Rows \ {drivers[i]}) \cup {row}
    BY <1>1, <2>5, <2>6, <2>7, <2>9, <2>10, RowStep
  <2>12. ConfirmedOK'
    BY <1>1, <2>6, <2>10, <2>11, Now DEF ConfirmedOK
  <2>13. TablesOK'
    BY <1>1, <2>11, <2>12, SamePark, FewerCars DEF TablesOK
  <2>14. PICK conv \in Conversation :
          /\ SetsTo(u, conv, told[u])
          /\ conv.stage = "waiting" /\ conv.flow = "move" /\ conv.mode = "UPDATE"
          /\ conv.phone = at[u].phone /\ conv.new = at[u].new /\ conv.pc = "announce"
    BY <1>1, <1>4, Goes DEF Labels, Working
  <2>15. /\ at'[u] = conv /\ told'[u] = told[u]
         /\ Conversation' = Conversation /\ Message' = Message
    BY <1>1, <2>14, SetIs, SameTypes
  <2>16. ControlOK(u)'
    BY <1>1, <2>14, <2>15, Now DEF ControlOK, Documents, Uploads, Jobs, Moves, Settling
  <2>17. RowOK(u)' /\ NewOK(u)'
    BY <2>14, <2>15
    DEF RowOK, Uploads, Jobs, Moves, Settling, Driving, Settled, NewOK, Registering, Created,
        Saved, Undoing
  <2>18. YangoOK(u)'
    <3>1. PICK e \in Rows : /\ e.phone = at[u].new /\ e.profile # None
                            /\ park[e.profile].phone = at[u].new
      BY <1>1, Now DEF YangoOK, Moved, Known
    <3>2. \E f \in Rows' : /\ f.phone = conv.new /\ f.profile # None
                            /\ park'[f.profile].phone = conv.new
      <4>1. CASE e = d
        BY <1>1, <2>6, <2>11, <2>14, <3>1, <4>1
      <4>2. CASE e # d
        BY <1>1, <2>10, <2>11, <2>14, <3>1, <4>2
      <4> QED BY <4>1, <4>2
    <3>3. \E f \in Rows' : f.card = conv.new
      BY <2>6, <2>11, <2>14
    <3> QED BY <2>14, <2>15, <3>2, <3>3
            DEF YangoOK, Known, Carded, Pending, Saved, Settled, Moved, Settling
  <2>19. ClosingOK(u)'
    BY <1>1, <2>15, OpenTold DEF ClosingOK
  <2> QED BY <2>11, <2>13, <2>14, <2>15, <2>16, <2>17, <2>18, <2>19, Now, StepOf DEF UserOK
<1> QED BY <1>2, <1>3, <1>4

(***************************************************************************)
(* The process dies, or nothing happens.                                   *)
(***************************************************************************)
LEMMA CrashStep ==
  ASSUME Inv, Crash
  PROVE  Inv'
<1>1. UNCHANGED <<tables, park, confirmed>> /\ told' = told
  BY DEF Crash
<1>2. ASSUME NEW u \in Users
      PROVE  /\ at'[u] \in Conversation /\ at'[u].stage = at[u].stage
             /\ at'[u].flow = at[u].flow /\ at'[u].phone = at[u].phone
             /\ at'[u].pc = "await" /\ at'[u].mode = "UPDATE" /\ at'[u].new = at[u].new
  <2>1. CASE At(u, "await")
    BY <2>1, Now DEF Crash, At, ControlOK, Undoing, Conversation
  <2>2. CASE ~At(u, "await")
    <3>1. at'[u] = Idle(at[u])
      BY <2>2 DEF Crash
    <3> QED BY <3>1, IdleFacts
  <2> QED BY <2>1, <2>2
<1>3. ASSUME NEW u \in Users
      PROVE  /\ TablesOK' /\ Rows' = Rows /\ Holders' = Holders /\ Last' = Last /\ park' = park
             /\ Conversation' = Conversation /\ Message' = Message /\ confirmed' = confirmed
  BY <1>1, QuietTables
<1>4. Conversation' = Conversation /\ Message' = Message /\ TablesOK'
  BY <1>1, QuietTables DEF Crash
<1>5. ShapeOK'
  BY <1>1, <1>2, <1>4 DEF ShapeOK, Inv, Crash
<1>6. ASSUME NEW u \in Users
      PROVE  UserOK(u)'
  <2>1. ControlOK(u)'
    BY <1>1, <1>2, <1>4, Now DEF ControlOK, Documents, Uploads, Jobs, Moves, Settling
  <2>2. RowOK(u)' /\ YangoOK(u)'
    BY <1>2 DEF RowOK, YangoOK, Pending, Uploads, Jobs, Moves, Settling, Driving, Settled, Saved,
                Moved
  <2>3. NewOK(u)'
    BY <1>2, <1>3, Now DEF NewOK, Registering, Created, Undoing, Jobs, Saved, Settling
  <2>4. ClosingOK(u)'
    <3>1. ASSUME told[u].text \in Closings
          PROVE  /\ at[u].stage \in {"none", "waiting"}
                 /\ \E d \in Rows' : d.wha = u /\ TrueOf(d, told[u])'
                 /\ told[u].text = "moved" => Carded(told[u].phone)'
      <4>1. PICK d \in Rows : d.wha = u /\ TrueOf(d, told[u])
        BY <3>1, Now DEF ClosingOK
      <4>2. TrueOf(d, told[u])'
        BY <1>1, <1>3, <4>1 DEF TrueOf
      <4>3. at[u].stage \in {"none", "waiting"}
        BY <3>1, Now DEF ClosingOK
      <4>4. told[u].text = "moved" => Carded(told[u].phone)'
        BY <1>1, <1>3, <3>1, Now DEF ClosingOK, Carded
      <4> QED BY <1>3, <4>1, <4>2, <4>3, <4>4
    <3> QED BY <1>1, <1>2, <3>1 DEF ClosingOK, TrueOf
  <2> QED BY <2>1, <2>2, <2>3, <2>4 DEF UserOK
<1> QED BY <1>4, <1>5, <1>6 DEF Inv

LEMMA StutterStep ==
  ASSUME Inv, UNCHANGED vars
  PROVE  Inv'
<1>1. UNCHANGED <<tables, park, confirmed>> /\ at' = at /\ told' = told /\ park' = park
  BY DEF vars, tables
<1>2. /\ drivers' = drivers /\ cars' = cars /\ lastCar' = lastCar /\ confirmed' = confirmed
  BY DEF vars
<1>3. DriverRow' = DriverRow /\ CarRow' = CarRow /\ Conversation' = Conversation
      /\ Message' = Message
  BY <1>1, <1>2, SameTypes
<1>4. Rows' = Rows /\ Holders' = Holders /\ Last' = Last
  BY <1>2 DEF Rows, Holders, Last
<1>5. TablesOK'
  BY <1>1, <1>2, <1>3, <1>4
  DEF Inv, TablesOK, DriversOK, CarsOK, ParkOK, ConfirmedOK
<1>6. ShapeOK'
  BY <1>1, <1>3 DEF Inv, ShapeOK
<1>7. ASSUME NEW u \in Users
      PROVE  UserOK(u)'
  <2>1. ControlOK(u)'
    BY <1>1, <1>3, Now DEF ControlOK
  <2>2. RowOK(u)'
    BY <1>1, <1>4, Now DEF RowOK, MineOf, Driving, Settled, Settling, Uploads, Jobs, Moves
  <2>3. NewOK(u)'
    BY <1>1, <1>2, <1>4, Now DEF NewOK, Registering, Created, Saved, Settling, Jobs
  <2>4. YangoOK(u)'
    BY <1>1, <1>4, Now DEF YangoOK, MineOf, Pending, Saved, Settled, Moved, Settling, Known, Carded
  <2>5. ClosingOK(u)'
    BY <1>1, <1>4, Now DEF ClosingOK, TrueOf, Carded
  <2> QED BY <2>1, <2>2, <2>3, <2>4, <2>5 DEF UserOK
<1> QED BY <1>5, <1>6, <1>7 DEF Inv

(***************************************************************************)
(* The beginning.                                                          *)
(***************************************************************************)
LEMMA TablesInit ==
  ASSUME Init
  PROVE  TablesOK
<1>1. CASE drivers = << >> /\ cars = {} /\ lastCar = 0 /\ park = << >> /\ confirmed = {}
  <2>1. DriversOK
    BY <1>1 DEF DriversOK, TableOK
  <2>2. CarsOK /\ ParkOK /\ ConfirmedOK
    BY <1>1 DEF CarsOK, ParkOK, ConfirmedOK
  <2> QED BY <2>1, <2>2 DEF TablesOK
<1>2. ASSUME NEW p \in Phones, NEW l \in Licences, NEW plate \in Plates \cup {"none"},
             lastCar = IF plate = "none" THEN 0 ELSE 1,
             cars = {[id |-> k, plate |-> plate, yango |-> TRUE] : k \in 1..lastCar},
             drivers = <<[wha |-> Owner[p], phone |-> p, licence |-> l, card |-> p,
                          profile |-> 1, car |-> lastCar, past |-> << >>]>>,
             park = <<[phone |-> p, plate |-> plate]>>,
             confirmed = {1}
      PROVE  TablesOK
  <2> DEFINE row == [wha |-> Owner[p], phone |-> p, licence |-> l, card |-> p,
                     profile |-> 1, car |-> lastCar, past |-> << >>]
  <2>1. lastCar \in Nat /\ Len(park) = 1 /\ DOMAIN park = {1}
    BY <1>2
  <2>2. row \in DriverRow /\ RowOfOwner(row) /\ row.profile = 1
    <3>1. << >> \in Seq(CarIds \ {None}) /\ lastCar \in CarIds /\ 1 \in 0..Len(park)
      BY <2>1 DEF CarIds
    <3>2. Owner[p] \in Users
      BY OwnerAssumption
    <3>3. row \in DriverRow
      BY <3>1, <3>2 DEF DriverRow
    <3>4. /\ row.wha = Owner[p] /\ row.phone = p /\ row.card = p /\ row.profile = 1
      OBVIOUS
    <3> HIDE DEF row
    <3> QED BY <3>3, <3>4, PhonesAssumption DEF RowOfOwner
  <2>3. drivers = <<row>>
    BY <1>2
  <2> HIDE DEF row
  <2>4. drivers \in Seq(DriverRow) /\ DOMAIN drivers = {1} /\ drivers[1] = row
    BY <2>2, <2>3
  <2>5. DriversOK
    BY <2>2, <2>4 DEF DriversOK, TableOK
  <2>6. CarsOK
    <3>1. CASE plate = "none"
      BY <1>2, <3>1 DEF CarsOK
    <3>2. CASE plate # "none"
      <4>1. cars = {[id |-> 1, plate |-> plate, yango |-> TRUE]} /\ lastCar = 1
        BY <1>2, <3>2
      <4> QED BY <3>2, <4>1 DEF CarsOK, CarRow, CarIds, None
    <3> QED BY <3>1, <3>2
  <2>7. ParkOK
    BY <1>2 DEF ParkOK
  <2>8. row \in Rows
    BY <2>4 DEF Rows, RowsOf
  <2>9. ConfirmedOK
    BY <1>2, <2>1, <2>2, <2>8 DEF ConfirmedOK
  <2> QED BY <2>5, <2>6, <2>7, <2>9 DEF TablesOK
<1> QED BY <1>1, <1>2 DEF Init

LEMMA InitInv == Init => Inv
<1> SUFFICES ASSUME Init
             PROVE  Inv
  OBVIOUS
<1>1. TablesOK
  BY TablesInit
<1>2. None \in CarIds /\ None \in 0..Len(park)
  BY <1>1 DEF TablesOK, CarsOK, ParkOK, CarIds, None
<1>3. /\ Nobody \in Conversation /\ Nobody.stage = "none" /\ Nobody.pc = "await"
      /\ Nobody.mode = "UPDATE" /\ Nobody.flow = "none"
      /\ Silence \in Message /\ Silence.text = "none"
  BY <1>2 DEF Nobody, Silence, Conversation, Message, Stages, Labels, Working
<1>4. \A u \in Users : at[u] = Nobody /\ told[u] = Silence
  BY DEF Init
<1>5. ShapeOK
  BY <1>3 DEF Init, ShapeOK
<1>6. ASSUME NEW u \in Users
      PROVE  UserOK(u)
  BY <1>3, <1>4 DEF UserOK, ControlOK, RowOK, NewOK, YangoOK, ClosingOK, Registering, Created,
                    Pending, Documents, Uploads, Jobs, Moves, Settling, Undoing, Closings, Driving,
                    Settled, Saved, Moved
<1> QED BY <1>1, <1>5, <1>6 DEF Inv

LEMMA NextInv == Inv /\ [Next]_vars => Inv'
<1> SUFFICES ASSUME Inv, [Next]_vars
             PROVE  Inv'
  OBVIOUS
<1>1. CASE UNCHANGED vars
  BY <1>1, StutterStep
<1>2. CASE Crash
  BY <1>2, CrashStep
<1>3. ASSUME NEW u \in Users,
             \/ Start(u) \/ GiveNumber(u) \/ Leave(u) \/ GiveUp(u) \/ Judge(u) \/ Forget(u)
             \/ UndoThrows(u) \/ End(u)
      PROVE  Inv'
  BY <1>3, StartStep, NumberStep, GiveUpStep, UndoStep
<1>4. ASSUME NEW u \in Users,
             \/ ReadFront(u) \/ ReadBack(u) \/ ReadPlate(u) \/ CreateCar(u) \/ Close(u)
             \/ Associate(u) \/ UploadThrows(u) \/ Undo(u) \/ Advance(u)
      PROVE  Inv'
  BY <1>4, FrontStep, BackStep, PlateStep, CreateStep, CloseStep, AssociateStep,
     UploadThrowsStep, UnloadStep, AdvanceStep
<1>5. ASSUME NEW u \in Users,
             \/ TakeJob(u) \/ CreateVehicle(u) \/ CreateProfile(u) \/ Bind(u) \/ Save(u)
             \/ SaveCar(u) \/ MoveNumber(u) \/ SaveNumber(u) \/ SaveLicence(u)
      PROVE  Inv'
  BY <1>5, TakeStep, VehicleStep, ProfileStep, BindStep, SaveStep, CarSaveStep, MoveStep,
     SaveNumberStep, SaveLicenceStep
<1>6. ASSUME NEW u \in Users, Announce(u) \/ Conclude(u) \/ WorkThrows(u) \/ AbortThrows(u)
      PROVE  Inv'
  BY <1>6, AnnounceStep, ConcludeStep, WorkThrowsStep, AbortThrowsStep
<1> QED BY <1>1, <1>2, <1>3, <1>4, <1>5, <1>6 DEF Next

LEMMA Invariant == Spec => []Inv
BY InitInv, NextInv, PTL DEF Spec

(***************************************************************************)
(* The theorems.                                                           *)
(***************************************************************************)
LEMMA SubjectIs ==
  ASSUME Inv, NEW u \in Users, told[u].text \in Closings
  PROVE  \E i \in Subject(u) : TrueOf(drivers[i], told[u])
<1>1. PICK d \in Rows : d.wha = u /\ TrueOf(d, told[u])
  BY Now DEF ClosingOK
<1>2. PICK i \in DOMAIN drivers : d = drivers[i]
  BY DEF Rows, RowsOf
<1> QED BY <1>1, <1>2 DEF Subject, ByPhone, TrueOf

(* A phone, a licence, a profile, a plate and an id have one row, of the   *)
(* user who holds the phone, however the uploads and the jobs of different *)
(* users interleave, and whatever calls fail.                              *)
THEOREM TypeCorrect == Spec => []TypeOK
<1>1. Inv => TypeOK
  <2> SUFFICES ASSUME Inv
               PROVE  TypeOK
    OBVIOUS
  <2>1. DriversOK /\ CarsOK /\ ConfirmedOK /\ park \in Seq(Entry)
    BY DEF Inv, TablesOK, ParkOK, Entry
  <2>2. /\ drivers \in Seq(DriverRow)
        /\ \A i, j \in DOMAIN drivers : i # j => Apart(drivers[i], drivers[j])
        /\ \A i \in DOMAIN drivers : RowOfOwner(drivers[i])
    BY <2>1 DEF DriversOK, TableOK
  <2>3. \A k \in DOMAIN park : park[k] \in Entry
    BY <2>1
  <2>4. \A u \in Users : at[u].stage \in Stages /\ at[u].pc \in Labels
    BY Now DEF Conversation
  <2>5. \A u \in Users : told[u].text \in {"none", "retry", "welcome", "changed", "moved"}
    BY Now DEF Message
  <2> QED BY <2>1, <2>2, <2>3, <2>4, <2>5
          DEF TypeOK, Apart, RowOfOwner, CarsOK, ConfirmedOK, Entry
<1> QED BY <1>1, Invariant, PTL

(* "Votre inscription chez MBP est validée" is true when it is said, and   *)
(* stays true until the user starts something new.                         *)
THEOREM WelcomeTrue == Spec => []WelcomeIsTrue
<1>1. Inv => WelcomeIsTrue
  BY SubjectIs DEF WelcomeIsTrue, Closings, TrueOf, AtYango
<1> QED BY <1>1, Invariant, PTL

(* The car of which a driver is told that it is theirs is the one Yango    *)
(* has bound to their profile, and the one of their open association.      *)
THEOREM ChangedTrue == Spec => []ChangedIsTrue
<1>1. Inv => ChangedIsTrue
  BY SubjectIs DEF ChangedIsTrue, Closings, TrueOf, AtYango
<1> QED BY <1>1, Invariant, PTL

(* A number of which a driver is told that it was updated is that of their *)
(* row, of a licence row of theirs and of their profile at Yango, wherever *)
(* between the three writes a call throws.                                 *)
THEOREM MovedTrue == Spec => []MovedIsTrue
<1>1. Inv => MovedIsTrue
  <2> SUFFICES ASSUME Inv, NEW u \in Users, told[u].text = "moved"
               PROVE  /\ \E i \in Subject(u) : AtYango(i).phone = told[u].phone
                      /\ \E i \in ByCard(told[u].phone) : drivers[i].wha = u
    BY DEF MovedIsTrue
  <2>0. told[u].text \in Closings /\ ClosingOK(u)
    BY Now DEF Closings
  <2>1. \E i \in Subject(u) : AtYango(i).phone = told[u].phone
    BY <2>0, SubjectIs DEF TrueOf, AtYango
  <2>2. PICK d \in Rows : d.wha = u /\ d.phone = told[u].phone
    BY <2>0 DEF ClosingOK, TrueOf
  <2>3. PICK e \in Rows : e.card = told[u].phone
    BY <2>0 DEF ClosingOK, Carded
  <2>4. e.wha = u
    <3>1. d.phone \in Phones /\ Owner[d.phone] = u
      BY <2>2, RowFacts, Now DEF RowOfOwner, DriverRow
    <3> QED BY <2>2, <2>3, <3>1, RowFacts, Now, PhonesAssumption DEF RowOfOwner
  <2>5. PICK i \in DOMAIN drivers : drivers[i] = e
    BY DEF Rows, RowsOf
  <2> QED BY <2>1, <2>3, <2>4, <2>5 DEF ByCard
<1> QED BY <1>1, Invariant, PTL

(* No undoing takes the row of a driver who was told to be in, but that of *)
(* the worker which told them so, failed afterwards, and told them that.   *)
THEOREM ConfirmedKept == Spec => []ConfirmedIsKept
<1>1. Inv => ConfirmedIsKept
  <2> SUFFICES ASSUME Inv, NEW p \in confirmed
               PROVE  \E i \in DOMAIN drivers :
                        drivers[i].profile = p /\ drivers[i].card # "none"
    BY DEF ConfirmedIsKept
  <2>1. PICK d \in Rows : d.profile = p
    BY DEF Inv, TablesOK, ConfirmedOK
  <2>2. p # None
    BY DEF Inv, TablesOK, ConfirmedOK, ParkOK, None
  <2>3. d.card # "none"
    BY <2>1, <2>2, RowFacts DEF RowOfOwner, Inv, TablesOK
  <2> QED BY <2>1, <2>3 DEF Rows, RowsOf
<1> QED BY <1>1, Invariant, PTL
==============================================================================
