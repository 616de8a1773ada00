------------------------ MODULE DRIDrawables_proofs ------------------------
(* Theorems about DRIDrawables: types, the table of drawables, the         *)
(* exclusion by the drawable lock, and what clients render with.           *)
EXTENDS DRIDrawables, FiniteSetTheorems, WellFoundedInduction, TLAPS

-----------------------------------------------------------------------------
(* Types, in parts that the actions change one at a time.                  *)
DriType == /\ win \in [Windows -> Window]
           /\ table \in [Entries -> Windows \cup {None}]
           /\ stamp \in [Entries -> Stamps] /\ next \in Stamps

ClientType == pc \in [Clients -> Places] /\ info \in [Clients -> Info]

ServerType == /\ setup \in Setups /\ spin \in {0, 1} /\ phase \in Phases
              /\ change \subseteq Windows /\ doomed \in Windows \cup {None}

LEMMA Types == TypeOK <=> ServerType /\ Lock!TypeOK /\ DriType /\ ClientType
BY DEF TypeOK, ServerType, DriType, ClientType

LEMMA SetupFacts ==
  ASSUME setup \in Setups
  PROVE  /\ TableSize \in Nat \ {0} /\ \A c \in Clients : Target(c) \in Windows
         /\ None \notin Windows /\ None \notin Proc /\ Server \notin Clients
BY DRIAssumption DEF Setup, TableSize, Target, Proc

LEMMA PlusType ==
  ASSUME NEW s \in Int, NEW n \in Int
  PROVE  Plus(s, n) \in Stamps
BY DRIAssumption, SMTT(30) DEF Plus, Stamps

(* A set of natural numbers has a least element.                           *)
LEMMA LeastOf ==
  ASSUME NEW S \in SUBSET Nat, S # {}
  PROVE  \E x \in S : \A y \in S : x <= y
<1>1. PICK R : IsWellFoundedOn(R, Nat) /\ \A x, y \in Nat : <<x, y>> \in R <=> x < y
  <2>1. \A x, y \in Nat : <<x, y>> \in OpToRel(<, Nat) <=> x < y
    BY DEF OpToRel
  <2> QED BY <2>1, NatLessThanWellFounded, Zenon
<1>2. PICK x \in S : \A y \in S : ~ (<<y, x>> \in R)
  <2>1. IsWellFoundedOn(R, Nat) /\ S \subseteq Nat
    BY <1>1
  <2> QED BY <2>1, WFMin, Zenon
<1>3. \A y \in S : ~(y < x)
  BY <1>1, <1>2
<1> QED BY <1>2, <1>3

LEMMA EntryForIn ==
  ASSUME setup \in Setups, DriType
  PROVE  EntryFor \in Entries /\ (table[EntryFor] # None => \A i \in Entries : table[i] # None)
<1>0. TableSize \in Nat \ {0} /\ Entries = 0 .. TableSize - 1
  BY SetupFacts DEF Entries
<1> DEFINE free == {i \in Entries : table[i] = None}
<1>1. CASE free # {}
  <2>1. free \in SUBSET Nat
    BY <1>0
  <2> HIDE DEF free
  <2>2. PICK x \in free : \A y \in free : x <= y
    BY <1>1, <2>1, LeastOf
  <2> USE DEF free
  <2>3. x \in Entries /\ table[x] = None /\ \A j \in 0 .. x - 1 : table[j] # None
    BY <1>0, <2>2
  <2> QED BY <1>1, <2>3, Zenon DEF EntryFor
<1>2. CASE free = {}
  <2> DEFINE used == {stamp[i] : i \in Entries}
  <2>1. used \in SUBSET Nat /\ used # {}
    BY <1>0, DRIAssumption DEF DriType, Stamps
  <2>2. PICK m \in used : \A n \in used : m <= n
    <3> HIDE DEF used
    <3> QED BY <2>1, LeastOf
  <2>3. PICK i \in Entries : m = stamp[i]
    BY <2>2
  <2>4. \A j \in Entries : stamp[i] <= stamp[j]
    BY <2>2, <2>3
  <2> QED BY <1>2, <2>3, <2>4, Zenon DEF EntryFor
<1> QED BY <1>1, <1>2

-----------------------------------------------------------------------------
(* The strengthening.  Users counts who may still call DRIDestroyDrawable. *)
Users(w) == {c \in Clients : Target(c) = w /\ pc[c] \notin {"out", "dead"}}

RefsInv ==
  /\ \A w \in Windows : win[w].there /\ w # doomed => Cardinality(Users(w)) <= win[w].refs
  /\ doomed # None => phase \in {"spinning", "locking", "changing"}

NoPrivate == \A w \in Windows : win[w].refs = 0 => win[w].index = -1

Changing == {"locking", "changing", "unlocking"}

SpinInv ==
  ~Fails("stall") =>
    /\ \A c \in Clients : pc[c] \in Holding => spin = 1 /\ phase \notin Changing
    /\ \A c, d \in Clients : pc[c] \in Holding /\ pc[d] \in Holding => c = d
    /\ phase \in Changing => spin = 1

TableInv == NoPrivate /\ TableConsistent

IInv == TypeOK /\ RefsInv /\ TableInv /\ SpinInv

(* The loading of a table entry and the release of one.                    *)
LEMMA LoadEffect ==
  ASSUME setup \in Setups, DriType, TableInv,
         NEW w \in Windows, win[w].index = -1, win[w].refs > 0, Load(w)
  PROVE  /\ win' \in [Windows -> Window] /\ table' \in [Entries -> Windows \cup {None}]
         /\ stamp' \in [Entries -> Stamps] /\ next' \in Stamps
         /\ \A v \in Windows : win'[v].refs = win[v].refs /\ win'[v].there = win[v].there
         /\ win'[w].index \in Entries
         /\ \A v \in Windows : win'[v].refs = 0 => win'[v].index = -1
         /\ \A i \in Entries : table'[i] # None => win'[table'[i]].refs > 0 /\ win'[table'[i]].index = i
         /\ \A v \in Windows : win'[v].index # -1 => table'[win'[v].index] = v
<1> DEFINE i == EntryFor
<1>1. i \in Entries
  BY EntryForIn
<1> HIDE DEF i
<1>2. /\ win' = [v \in Windows |-> IF v = w THEN [win[v] EXCEPT !.index = i]
                                   ELSE IF v = table[i] THEN [win[v] EXCEPT !.index = -1]
                                   ELSE win[v]]
      /\ table' = [table EXCEPT ![i] = w]
  BY DEF Load, i
<1>3. /\ \A v \in Windows : /\ win[v] \in Window
                            /\ [win[v] EXCEPT !.index = i] \in Window
                            /\ [win[v] EXCEPT !.index = -1] \in Window
  BY <1>1 DEF DriType, Window
<1>4. win' \in [Windows -> Window] /\ table' \in [Entries -> Windows \cup {None}]
  BY <1>1, <1>2, <1>3 DEF DriType
<1>5. stamp' \in [Entries -> Stamps] /\ next' \in Stamps
  <2>1. next \in Int /\ TableSize \in Nat /\ \A j \in Entries : j \in Int
    BY SetupFacts, DRIAssumption DEF DriType, Stamps, Entries
  <2>2. \A n \in Int : Plus(next, n) \in Stamps /\ Plus(next, n) \in Int
    <3>1. \A n \in Int : Plus(next, n) \in Stamps
      BY <2>1, PlusType
    <3>2. Stamps \subseteq Int
      BY DEF Stamps
    <3> QED BY <3>1, <3>2
  <2>3. \A m \in Int : ClipNotifyAllDrawables(stamp, m) \in [Entries -> Stamps]
    BY <2>1, PlusType DEF ClipNotifyAllDrawables, DriType
  <2>4. 1 + TableSize \in Int
    BY <2>1
  <2>5. CASE table[i] # None /\ stamp[i] > Plus(next, 1)
    BY <2>2, <2>3, <2>4, <2>5 DEF Load, i
  <2>6. CASE ~(table[i] # None /\ stamp[i] > Plus(next, 1))
    <3>1. stamp' = [stamp EXCEPT ![i] = next] /\ next' = Plus(next, 1)
      BY <2>6 DEF Load, i
    <3> QED BY <3>1, <1>1, <2>2 DEF DriType
  <2> QED BY <2>5, <2>6
<1>6. \A v \in Windows : win'[v].refs = win[v].refs /\ win'[v].there = win[v].there
  BY <1>2, <1>3 DEF DriType, Window
<1>7. /\ win'[w].index = i
      /\ \A v \in Windows \ {w} : win'[v].index = IF v = table[i] THEN -1 ELSE win[v].index
  BY <1>2, <1>3 DEF DriType, Window
<1>8. \A v \in Windows : win'[v].refs = 0 => win'[v].index = -1
  BY <1>6, <1>7 DEF TableInv, NoPrivate
<1>9. i # -1 /\ \A j \in Entries : j # -1
  BY <1>1, SetupFacts DEF Entries
<1>10. \A j \in Entries : table'[j] # None => win'[table'[j]].refs > 0 /\ win'[table'[j]].index = j
  <2> SUFFICES ASSUME NEW j \in Entries, table'[j] # None
               PROVE  win'[table'[j]].refs > 0 /\ win'[table'[j]].index = j
    OBVIOUS
  <2>1. CASE j = i
    BY <2>1, <1>1, <1>2, <1>6, <1>7 DEF DriType
  <2>2. CASE j # i
    <3>1. table'[j] = table[j] /\ table[j] \in Windows
      BY <2>2, <1>1, <1>2 DEF DriType
    <3>2. win[table[j]].refs > 0 /\ win[table[j]].index = j
      BY <3>1 DEF TableInv, TableConsistent
    <3>3. table[j] # w /\ table[j] # table[i]
      BY <3>1, <3>2, <2>2, <1>1, <1>9 DEF TableInv, TableConsistent
    <3> QED BY <3>1, <3>2, <3>3, <1>6, <1>7
  <2> QED BY <2>1, <2>2
<1>11. \A v \in Windows : win'[v].index # -1 => table'[win'[v].index] = v
  <2> SUFFICES ASSUME NEW v \in Windows, win'[v].index # -1
               PROVE  table'[win'[v].index] = v
    OBVIOUS
  <2>1. CASE v = w
    BY <2>1, <1>1, <1>2, <1>7 DEF DriType
  <2>2. CASE v # w
    <3>1. v # table[i] /\ win'[v].index = win[v].index
      BY <2>2, <1>7
    <3>2. table[win[v].index] = v /\ win[v].index \in Entries
      BY <3>1, <1>3 DEF TableInv, TableConsistent, Window
    <3>3. win[v].index # i
      BY <3>1, <3>2
    <3> QED BY <3>1, <3>2, <3>3, <1>1, <1>2 DEF DriType
  <2> QED BY <2>1, <2>2
<1> QED BY <1>1, <1>4, <1>5, <1>6, <1>7, <1>8, <1>10, <1>11

LEMMA PrivDeleteEffect ==
  ASSUME setup \in Setups, DriType, TableInv, NEW w \in Windows, PrivDelete(w)
  PROVE  /\ win' \in [Windows -> Window] /\ table' \in [Entries -> Windows \cup {None}]
         /\ stamp' \in [Entries -> Stamps] /\ next' \in Stamps
         /\ \A v \in Windows : win'[v].there = win[v].there /\ (v # w => win'[v].refs = win[v].refs)
         /\ \A v \in Windows : win'[v].refs = 0 => win'[v].index = -1
         /\ \A i \in Entries : table'[i] # None => win'[table'[i]].refs > 0 /\ win'[table'[i]].index = i
         /\ \A v \in Windows : win'[v].index # -1 => table'[win'[v].index] = v
<1>1. /\ win' = [win EXCEPT ![w].refs = 0, ![w].index = -1]
      /\ table' = [i \in Entries |-> IF i = win[w].index THEN None ELSE table[i]]
  BY DEF PrivDelete
<1>2. win' \in [Windows -> Window] /\ table' \in [Entries -> Windows \cup {None}]
  BY <1>1 DEF DriType, Window
<1>3. stamp' \in [Entries -> Stamps] /\ next' \in Stamps
  <2>1. next \in Int /\ TableSize \in Int /\ \A j \in Entries : j \in Int
    BY SetupFacts, DRIAssumption DEF DriType, Stamps, Entries
  <2>2. Plus(next, TableSize) \in Stamps
    BY <2>1, PlusType
  <2>3. ClipNotifyAllDrawables(stamp, next) \in [Entries -> Stamps]
    BY <2>1, PlusType DEF ClipNotifyAllDrawables, DriType
  <2> QED BY <2>2, <2>3 DEF PrivDelete, DriType
<1>4. /\ win'[w].refs = 0 /\ win'[w].index = -1 /\ win'[w].there = win[w].there
      /\ \A v \in Windows \ {w} : win'[v] = win[v]
  BY <1>1 DEF DriType, Window
<1>5. \A v \in Windows : win'[v].refs = 0 => win'[v].index = -1
  BY <1>4 DEF TableInv, NoPrivate
<1>6. \A i \in Entries : table'[i] # None => win'[table'[i]].refs > 0 /\ win'[table'[i]].index = i
  <2> SUFFICES ASSUME NEW i \in Entries, table'[i] # None
               PROVE  win'[table'[i]].refs > 0 /\ win'[table'[i]].index = i
    OBVIOUS
  <2>1. i # win[w].index /\ table'[i] = table[i] /\ table[i] \in Windows
    BY <1>1 DEF DriType
  <2>2. win[table[i]].refs > 0 /\ win[table[i]].index = i
    BY <2>1 DEF TableInv, TableConsistent
  <2>3. table[i] # w
    BY <2>1, <2>2
  <2> QED BY <2>1, <2>2, <2>3, <1>4
<1>7. \A v \in Windows : win'[v].index # -1 => table'[win'[v].index] = v
  <2> SUFFICES ASSUME NEW v \in Windows, win'[v].index # -1
               PROVE  table'[win'[v].index] = v
    OBVIOUS
  <2>1. v # w /\ win'[v].index = win[v].index
    BY <1>4
  <2>2. table[win[v].index] = v /\ win[v].index \in Entries
    BY <2>1 DEF TableInv, TableConsistent, DriType, Window
  <2>3. win[v].index # win[w].index
    BY <2>1, <2>2 DEF TableInv, TableConsistent, DriType, Window
  <2> QED BY <2>1, <2>2, <2>3, <1>1
<1> QED BY <1>2, <1>3, <1>4, <1>5, <1>6, <1>7

-----------------------------------------------------------------------------
(* Who may call DRIDestroyDrawable.                                        *)
LEMMA UsersFinite ==
  ASSUME NEW w
  PROVE  IsFiniteSet(Users(w)) /\ Cardinality(Users(w)) \in Nat
<1>1. Users(w) \in SUBSET Clients
  BY DEF Users
<1>2. IsFiniteSet(Clients)
  BY DRIAssumption
<1>3. IsFiniteSet(Users(w))
  BY <1>1, <1>2, FS_Subset
<1> QED BY <1>3, FS_CardinalityType

LEMMA FewerUsers ==
  ASSUME NEW w, Users(w)' \subseteq Users(w)
  PROVE  Cardinality(Users(w)') <= Cardinality(Users(w)) /\ Cardinality(Users(w)') \in Nat
<1>1. IsFiniteSet(Users(w))
  BY UsersFinite
<1>2. IsFiniteSet(Users(w)') /\ Cardinality(Users(w)') <= Cardinality(Users(w))
  BY <1>1, FS_Subset
<1> QED BY <1>2, FS_CardinalityType

(* A step of one client, within or out of its use of the window.           *)
LEMMA StepUsers ==
  ASSUME setup' = setup, ClientType, NEW c \in Clients, NEW p \in Places, Goes(c, p),
         pc[c] \notin {"out", "dead"} \/ p \in {"out", "dead"}
  PROVE  \A w : Users(w)' \subseteq Users(w)
BY DEF Users, Target, Goes, ClientType

LEMMA InitIInv == Init => IInv
<1> SUFFICES ASSUME Init PROVE IInv
  OBVIOUS
<1>0. /\ TableSize \in Nat \ {0} /\ \A c \in Clients : Target(c) \in Windows
      /\ None \notin Windows /\ None \notin Proc /\ Server \notin Clients
  BY SetupFacts DEF Init
<1>1. TypeOK
  <2>1. ServerType /\ Lock!TypeOK
    BY DEF Init, ServerType, Phases, Lock!TypeOK
  <2>2. 0 \in Entries /\ 0 \in Stamps /\ Start \in Stamps
    BY <1>0, DRIAssumption DEF Entries, Stamps
  <2>3. DriType
    BY <2>2 DEF Init, DriType, Window
  <2>4. ClientType
    BY <2>2 DEF Init, ClientType, Places, Info
  <2> QED BY <2>1, <2>3, <2>4, Types
<1>2. TableInv
  BY DEF Init, TableInv, NoPrivate, TableConsistent
<1>3. SpinInv
  BY DEF Init, SpinInv, Holding, Changing
<1>4. RefsInv
  <2>1. \A w \in Windows : Users(w) = {}
    BY DEF Init, Users
  <2>2. \A w \in Windows : Cardinality(Users(w)) = 0
    BY <2>1, FS_EmptySet, Zenon
  <2>3. \A w \in Windows : win[w].refs = 0
    BY DEF Init
  <2>4. doomed = None
    BY DEF Init
  <2> QED BY <2>2, <2>3, <2>4 DEF RefsInv
<1> QED BY <1>1, <1>2, <1>3, <1>4 DEF IInv

-----------------------------------------------------------------------------
(* Steps of the clients.                                                   *)
LEMMA TableUnchanged ==
  ASSUME TableInv, UNCHANGED <<setup, dri>>
  PROVE  TableInv'
BY DEF TableInv, NoPrivate, TableConsistent, dri, Entries, TableSize

LEMMA DriUnchanged ==
  ASSUME DriType, UNCHANGED <<setup, dri>>
  PROVE  DriType'
BY DEF DriType, dri, Entries, TableSize, Window

(* The table of drawables is another, the clients of a window are not.     *)
LEMMA RefsKept ==
  ASSUME IInv, DriType', UNCHANGED <<setup, doomed>>,
         doomed # None => phase' \in {"spinning", "locking", "changing"},
         \A w \in Windows : win'[w].refs = win[w].refs /\ win'[w].there = win[w].there,
         \A w : Users(w)' \subseteq Users(w)
  PROVE  RefsInv'
<1>1. ASSUME NEW w \in Windows, win'[w].there, w # doomed
      PROVE  Cardinality(Users(w)') <= win'[w].refs
  <2>1. Cardinality(Users(w)) <= win[w].refs
    BY <1>1 DEF IInv, RefsInv
  <2>2. Cardinality(Users(w)') <= Cardinality(Users(w)) /\ Cardinality(Users(w)') \in Nat
    BY FewerUsers
  <2>3. Cardinality(Users(w)) \in Nat
    BY UsersFinite
  <2>4. win[w].refs \in Nat
    BY DEF IInv, TypeOK, Window
  <2> QED BY <2>1, <2>2, <2>3, <2>4
<1> QED BY <1>1 DEF RefsInv

(* A client that moves on without a change of table or windows.            *)
LEMMA ClientStep ==
  ASSUME IInv, UNCHANGED <<setup, phase, change, doomed, dri>>, spin' \in {0, 1},
         Lock!TypeOK', info' \in [Clients -> Info],
         NEW c \in Clients, NEW p \in Places, Goes(c, p),
         pc[c] \notin {"out", "dead"} \/ p \in {"out", "dead"},
         SpinInv'
  PROVE  IInv'
<1>1. ServerType /\ DriType /\ ClientType /\ TableInv
  BY Types DEF IInv
<1>2. ServerType'
  BY <1>1 DEF ServerType
<1>3. DriType' /\ TableInv'
  BY <1>1, DriUnchanged, TableUnchanged
<1>4. ClientType'
  <2>1. pc' \in [Clients -> Places]
    BY <1>1 DEF Goes, ClientType
  <2>2. Info' = Info
    BY DEF Info, Entries, TableSize, Stamps
  <2> QED BY <2>1, <2>2 DEF ClientType
<1>5. TypeOK'
  BY <1>2, <1>3, <1>4 DEF TypeOK, ServerType, DriType, ClientType
<1>6. RefsInv'
  <2>1. \A w : Users(w)' \subseteq Users(w)
    BY <1>1, StepUsers
  <2>2. doomed # None => phase' \in {"spinning", "locking", "changing"}
    BY DEF IInv, RefsInv
  <2> QED BY <1>3, <2>1, <2>2, RefsKept DEF dri
<1> QED BY <1>3, <1>5, <1>6 DEF IInv

(* Neither more clients with the lock, nor another who has it.             *)
LEMMA SpinKept ==
  ASSUME SpinInv, UNCHANGED <<setup, spin>>,
         \A d \in Clients : pc'[d] \in Holding => pc[d] \in Holding,
         phase' \in Changing => phase \in Changing
  PROVE  SpinInv'
BY DEF SpinInv, Fails, Holding, Changing

LEMMA LockSteps ==
  ASSUME Lock!TypeOK, NEW p \in Proc,
         Lock!Acquire(p) \/ Lock!Release(p) \/ Lock!Die(p) \/ Lock!Reclaim(p)
  PROVE  Lock!TypeOK'
BY DEF Lock!TypeOK, Lock!Acquire, Lock!Release, Lock!Die, Lock!Reclaim

LEMMA LockUnchanged ==
  ASSUME Lock!TypeOK, UNCHANGED lock
  PROVE  Lock!TypeOK'
BY DEF Lock!TypeOK, lock

LEMMA SpinLockStep ==
  ASSUME IInv, UNCHANGED setup, NEW c \in Clients, SpinLock(c)
  PROVE  IInv'
<1> DEFINE p == IF pc[c] = "spin" THEN "held" ELSE "heldAgain"
<1>1. Goes(c, p) /\ pc[c] \in {"spin", "spinAgain"} /\ p \in {"held", "heldAgain"}
  BY DEF SpinLock
<1> HIDE DEF p
<1>2. ClientType /\ Lock!TypeOK
  BY Types DEF IInv
<1>3. SpinInv'
  <2>1. pc' = [pc EXCEPT ![c] = p] /\ spin = 0 /\ spin' = 1 /\ phase' = phase
    BY <1>1 DEF Goes, SpinLock
  <2>2. pc \in [Clients -> Places] /\ SpinInv /\ Fails("stall")' = Fails("stall")
    BY <1>2 DEF IInv, ClientType, Fails
  <2>3. ~Fails("stall") => \A d \in Clients : pc[d] \notin Holding
    BY <2>1, <2>2 DEF SpinInv
  <2>4. ~Fails("stall") => phase \notin Changing
    BY <2>1, <2>2 DEF SpinInv
  <2> QED BY <2>1, <2>2, <2>3, <2>4 DEF SpinInv
<1>4. p \in Places /\ pc[c] \notin {"out", "dead"}
  BY <1>1 DEF Places
<1>5. /\ UNCHANGED <<phase, change, doomed, dri>> /\ spin' \in {0, 1}
      /\ Lock!TypeOK' /\ info' \in [Clients -> Info]
  BY <1>2, LockUnchanged DEF SpinLock, ClientType
<1> QED BY <1>1, <1>3, <1>4, <1>5, ClientStep

LEMMA UnlockTestStep ==
  ASSUME IInv, UNCHANGED setup, NEW c \in Clients, SpinUnlockTest(c)
  PROVE  IInv'
<1>1. PICK p \in {"freeing", "freeingAgain", "ask", "lock"} :
        Goes(c, p) /\ (p \in {"freeing", "freeingAgain"} => spin = 1)
  BY DEF SpinUnlockTest, After
<1>2. pc[c] \in {"held", "heldAgain"} /\ UNCHANGED <<lock, spin, phase, change, doomed, dri>>
  BY DEF SpinUnlockTest
<1>3. ClientType /\ Lock!TypeOK /\ spin \in {0, 1}
  BY Types DEF IInv, ServerType
<1>4. info' \in [Clients -> Info]
  <2>1. info[c] \in Info /\ [info[c] EXCEPT !.entry = info[c].index] \in Info
    BY <1>3 DEF ClientType, Info
  <2>2. info' = info \/ info' = [info EXCEPT ![c] = [info[c] EXCEPT !.entry = info[c].index]]
    BY DEF SpinUnlockTest
  <2> QED BY <1>3, <2>1, <2>2 DEF ClientType
<1>5. \A d \in Clients : pc'[d] \in Holding => pc[d] \in Holding
  BY <1>1, <1>2, <1>3 DEF Goes, ClientType, Holding
<1>6. SpinInv'
  BY <1>2, <1>5, SpinKept DEF IInv
<1>7. Lock!TypeOK'
  BY <1>2, <1>3, LockUnchanged
<1>8. p \in Places
  BY DEF Places
<1> QED BY <1>1, <1>2, <1>3, <1>4, <1>6, <1>7, <1>8, ClientStep

LEMMA UnlockSwapStep ==
  ASSUME IInv, UNCHANGED setup, NEW c \in Clients, SpinUnlockSwap(c)
  PROVE  IInv'
<1> DEFINE p == After(pc[c])
<1>1. /\ Goes(c, p) /\ p \in {"ask", "lock"} /\ pc[c] \in {"freeing", "freeingAgain"}
      /\ spin' = 0 /\ UNCHANGED <<lock, phase, change, doomed, dri, info>>
  BY DEF SpinUnlockSwap, After
<1> HIDE DEF p
<1>2. ClientType /\ Lock!TypeOK
  BY Types DEF IInv
<1>3. SpinInv'
  <2>1. pc' = [pc EXCEPT ![c] = p] /\ pc \in [Clients -> Places]
    BY <1>1, <1>2 DEF Goes, ClientType
  <2>2. SpinInv /\ Fails("stall")' = Fails("stall") /\ pc[c] \in Holding
    BY <1>1 DEF IInv, Fails, Holding
  <2>3. ~Fails("stall") => /\ \A d \in Clients : pc[d] \in Holding => d = c
                           /\ phase \notin Changing
    BY <2>2 DEF SpinInv
  <2>4. ~Fails("stall") => \A d \in Clients : pc'[d] \notin Holding
    BY <1>1, <2>1, <2>3 DEF Holding
  <2> QED BY <1>1, <2>2, <2>3, <2>4 DEF SpinInv
<1>4. p \in Places /\ Lock!TypeOK' /\ info' \in [Clients -> Info]
  BY <1>1, <1>2, LockUnchanged DEF Places, ClientType
<1> QED BY <1>1, <1>3, <1>4, ClientStep

(* The steps of a client that have to do with the hardware lock.           *)
LEMMA HardwareStep ==
  ASSUME IInv, UNCHANGED setup, NEW c \in Clients,
         LockHardware(c) \/ Valid(c) \/ Invalid(c) \/ UnlockHardware(c) \/ Refused(c) \/ Dies(c)
  PROVE  IInv'
<1>1. ClientType /\ Lock!TypeOK /\ spin \in {0, 1} /\ c \in Proc
  BY Types DEF IInv, ServerType, Proc
<1>2. Lock!TypeOK'
  BY <1>1, LockSteps, LockUnchanged DEF LockHardware, Valid, Invalid, UnlockHardware, Refused, Dies
<1>3. UNCHANGED <<spin, phase, change, doomed, dri, info>>
  BY DEF LockHardware, Valid, Invalid, UnlockHardware, Refused, Dies
<1>4. PICK p \in {"check", "render", "spin", "idle", "dead"} :
        Goes(c, p) /\ (p = "dead" \/ pc[c] \in {"idle", "lock", "check", "render"})
  BY DEF LockHardware, Valid, Invalid, UnlockHardware, Refused, Dies
<1>5. \A d \in Clients : pc'[d] \in Holding => pc[d] \in Holding
  BY <1>1, <1>4 DEF Goes, ClientType, Holding
<1>6. SpinInv'
  BY <1>3, <1>5, SpinKept DEF IInv
<1>7. p \in Places /\ (pc[c] \notin {"out", "dead"} \/ p \in {"out", "dead"})
  BY <1>4 DEF Places
<1>8. info' \in [Clients -> Info]
  BY <1>1, <1>3 DEF ClientType
<1> QED BY <1>1, <1>2, <1>3, <1>4, <1>6, <1>7, <1>8, ClientStep

-----------------------------------------------------------------------------
(* Requests, with the table.                                               *)
LEMMA CreateStep ==
  ASSUME IInv, UNCHANGED setup, NEW c \in Clients, CreateDrawable(c)
  PROVE  IInv'
<1>w. PICK w \in Windows : w = Target(c)
  BY Types, SetupFacts DEF IInv, ServerType
<1>0. /\ ServerType /\ Lock!TypeOK /\ DriType /\ ClientType /\ w \in Windows
      /\ TableSize \in Nat \ {0} /\ None \notin Windows
  BY Types, SetupFacts DEF IInv, ServerType
<1>1. /\ pc[c] = "out" /\ Goes(c, "spin") /\ win[w].there /\ phase = "awake"
      /\ win' = [win EXCEPT ![w].refs = @ + 1,
                            ![w].index = IF win[w].refs = 0 THEN -1 ELSE @]
      /\ UNCHANGED <<lock, spin, phase, change, doomed, table, info>>
  BY <1>w DEF CreateDrawable
<1>2. /\ win'[w].refs = win[w].refs + 1 /\ win'[w].there = win[w].there
      /\ win'[w].index = win[w].index
      /\ \A v \in Windows \ {w} : win'[v] = win[v]
      /\ win' \in [Windows -> Window]
  <2>1. win[w].refs = 0 => win[w].index = -1
    BY <1>0 DEF IInv, TableInv, NoPrivate
  <2>2. \A v \in Windows : /\ win[v] \in Window
                           /\ [win[v] EXCEPT !.refs = win[v].refs + 1, !.index = -1] \in Window
                           /\ [win[v] EXCEPT !.refs = win[v].refs + 1, !.index = win[v].index] \in Window
    <3> SUFFICES ASSUME NEW v \in Windows
                 PROVE  /\ win[v] \in Window
                        /\ [win[v] EXCEPT !.refs = win[v].refs + 1, !.index = -1] \in Window
                        /\ [win[v] EXCEPT !.refs = win[v].refs + 1, !.index = win[v].index] \in Window
      OBVIOUS
    <3>1. win[v] \in Window
      BY <1>0 DEF DriType
    <3>2. win[v].refs + 1 \in Nat /\ win[v].index \in Entries \cup {-1}
      BY <3>1 DEF Window
    <3>3. \A x \in Window, n \in Nat, i \in Entries \cup {-1} :
            [x EXCEPT !.refs = n, !.index = i] \in Window
      <4>1. \A x \in Window, n \in Nat : [x EXCEPT !.refs = n] \in Window
        BY DEF Window
      <4>2. \A x \in Window, i \in Entries \cup {-1} : [x EXCEPT !.index = i] \in Window
        BY DEF Window
      <4> QED BY <4>1, <4>2, Zenon
    <3> QED BY <3>1, <3>2, <3>3
  <2>3. win' \in [Windows -> Window]
    BY <1>0, <1>1, <2>2 DEF DriType
  <2>4. \A v \in Windows \ {w} : win'[v] = win[v]
    BY <1>0, <1>1 DEF DriType
  <2>5. win'[w].refs = win[w].refs + 1 /\ win'[w].there = win[w].there
    BY <1>0, <1>1, <2>2 DEF DriType, Window
  <2>6. win'[w].index = win[w].index
    BY <1>0, <1>1, <2>1, <2>2 DEF DriType, Window
  <2> QED BY <2>3, <2>4, <2>5, <2>6
<1>3. stamp' \in [Entries -> Stamps] /\ next' \in Stamps
  <2>1. next \in Int /\ TableSize \in Int /\ \A j \in Entries : j \in Int
    BY <1>0, DRIAssumption DEF DriType, Stamps, Entries
  <2>2. Plus(next, TableSize) \in Stamps
    BY <2>1, PlusType
  <2>3. ClipNotifyAllDrawables(stamp, next) \in [Entries -> Stamps]
    BY <1>0, <2>1, PlusType DEF ClipNotifyAllDrawables, DriType
  <2> QED BY <1>0, <2>2, <2>3 DEF CreateDrawable, DriType
<1>4. Entries' = Entries /\ Window' = Window /\ Info' = Info /\ Users(w)' = Users(w) \cup {c}
  BY <1>w, <1>0, <1>1 DEF Entries, TableSize, Window, Info, Stamps, Users, Target, Goes, ClientType
<1>5. TypeOK'
  <2>1. DriType'
    BY <1>0, <1>1, <1>2, <1>3, <1>4 DEF DriType
  <2>2. ClientType'
    BY <1>0, <1>1, <1>4 DEF ClientType, Goes, Places
  <2>3. ServerType' /\ Lock!TypeOK'
    BY <1>0, <1>1, LockUnchanged DEF ServerType
  <2> QED BY <2>1, <2>2, <2>3 DEF TypeOK, ServerType, DriType, ClientType
<1>6. TableInv'
  <2>1. NoPrivate'
    BY <1>0, <1>2 DEF IInv, TableInv, NoPrivate, DriType, Window
  <2>2. \A v \in Windows : win'[v].index = win[v].index /\ win'[v].refs >= win[v].refs
                           /\ win[v].refs \in Nat /\ win'[v].refs \in Nat
    BY <1>0, <1>2 DEF DriType, Window
  <2>3. TableConsistent
    BY DEF IInv, TableInv
  <2>4. \A i \in Entries : table[i] # None => win'[table[i]].refs > 0 /\ win'[table[i]].index = i
    <3> SUFFICES ASSUME NEW i \in Entries, table[i] # None
                 PROVE  win'[table[i]].refs > 0 /\ win'[table[i]].index = i
      OBVIOUS
    <3>1. table[i] \in Windows
      BY <1>0 DEF DriType
    <3> QED BY <2>2, <2>3, <3>1 DEF TableConsistent
  <2>5. \A v \in Windows : win'[v].index # -1 => table[win'[v].index] = v
    BY <2>2, <2>3 DEF TableConsistent
  <2>6. TableConsistent'
    BY <1>1, <1>4, <2>4, <2>5 DEF TableConsistent
  <2> QED BY <2>1, <2>6 DEF TableInv
<1>7. RefsInv'
  <2>1. w # doomed => Cardinality(Users(w)') <= win'[w].refs
    <3>1. w # doomed => Cardinality(Users(w)) <= win[w].refs
      BY <1>0, <1>1 DEF IInv, RefsInv
    <3>2. IsFiniteSet(Users(w)) /\ Cardinality(Users(w)) \in Nat
      BY UsersFinite
    <3>3. /\ Cardinality(Users(w) \cup {c}) <= Cardinality(Users(w)) + 1
          /\ Cardinality(Users(w) \cup {c}) \in Nat
      <4>1. IsFiniteSet(Users(w) \cup {c})
        BY <3>2, FS_AddElement
      <4>2. Cardinality(Users(w) \cup {c}) \in Nat
        BY <4>1, FS_CardinalityType
      <4>3. \/ Cardinality(Users(w) \cup {c}) = Cardinality(Users(w))
            \/ Cardinality(Users(w) \cup {c}) = Cardinality(Users(w)) + 1
        BY <3>2, FS_AddElement
      <4> HIDE DEF Users
      <4> QED BY <3>2, <4>2, <4>3
    <3>4. win[w].refs \in Nat /\ win'[w].refs = win[w].refs + 1
      BY <1>0, <1>2 DEF DriType, Window
    <3>5. Users(w)' = Users(w) \cup {c}
      BY <1>4
    <3> QED BY <3>1, <3>2, <3>3, <3>4, <3>5
  <2>2. \A v \in Windows : v # w => Users(v)' = Users(v) /\ win'[v] = win[v]
    <3>1. \A d \in Clients : d # c => pc'[d] = pc[d]
      BY <1>0, <1>1 DEF Goes, ClientType
    <3>2. setup' = setup
      OBVIOUS
    <3>3. \A v \in Windows : v # w => Users(v)' = Users(v)
      BY <1>w, <3>1, <3>2 DEF Users, Target
    <3>4. \A v \in Windows : v # w => win'[v] = win[v]
      BY <1>0, <1>2 DEF DriType
    <3> QED BY <3>3, <3>4
  <2>3. \A v \in Windows : win'[v].there /\ v # w /\ v # doomed => Cardinality(Users(v)') <= win'[v].refs
    BY <2>2 DEF IInv, RefsInv
  <2> QED BY <1>1, <2>1, <2>3 DEF IInv, RefsInv
<1>8. SpinInv'
  <2>1. \A d \in Clients : pc'[d] \in Holding => pc[d] \in Holding
    BY <1>0, <1>1 DEF Goes, ClientType, Holding
  <2> QED BY <1>1, <2>1, SpinKept DEF IInv
<1> QED BY <1>5, <1>6, <1>7, <1>8 DEF IInv

LEMMA DestroyStep ==
  ASSUME IInv, UNCHANGED setup, NEW c \in Clients, DestroyDrawable(c)
  PROVE  IInv'
<1>w. PICK w \in Windows : w = Target(c)
  BY Types, SetupFacts DEF IInv, ServerType
<1>0. /\ ServerType /\ Lock!TypeOK /\ DriType /\ ClientType /\ w \in Windows
      /\ TableSize \in Nat \ {0} /\ None \notin Windows /\ setup \in Setups /\ TableInv
  BY Types, SetupFacts DEF IInv, ServerType
<1>1. /\ pc[c] = "idle" /\ Goes(c, "out") /\ phase = "awake"
      /\ info' = [info EXCEPT ![c].entry = -1]
      /\ UNCHANGED <<lock, spin, phase, change, doomed>>
  BY DEF DestroyDrawable
<1>2. Entries' = Entries /\ Window' = Window /\ Info' = Info /\ Users(w)' = Users(w) \ {c}
  BY <1>w, <1>0, <1>1 DEF Entries, TableSize, Window, Info, Stamps, Users, Target, Goes, ClientType
<1>3. doomed = None /\ c \in Users(w)
  BY <1>w, <1>0, <1>1 DEF IInv, RefsInv, Users
<1>4. \A v \in Windows : v # w => Users(v)' = Users(v)
  BY <1>w, <1>0, <1>1 DEF Users, Target, Goes, ClientType
<1>5. win[w].there => /\ Cardinality(Users(w)) <= win[w].refs /\ Cardinality(Users(w)) \in Nat \ {0}
                      /\ Cardinality(Users(w)') = Cardinality(Users(w)) - 1
  <2>1. IsFiniteSet(Users(w)) /\ Cardinality(Users(w)) \in Nat
    BY UsersFinite
  <2>2. Cardinality(Users(w)) # 0
    BY <1>3, <2>1, FS_EmptySet
  <2>3. Cardinality(Users(w) \ {c}) = Cardinality(Users(w)) - 1
    BY <1>3, <2>1, FS_RemoveElement
  <2>4. win[w].there => Cardinality(Users(w)) <= win[w].refs
    BY <1>0, <1>3 DEF IInv, RefsInv
  <2> QED BY <1>2, <2>1, <2>2, <2>3, <2>4
<1>6. ClientType' /\ ServerType' /\ Lock!TypeOK'
  <2>1. \A d \in Clients : [info[d] EXCEPT !.entry = -1] \in Info
    BY <1>0 DEF ClientType, Info
  <2>2. ClientType'
    BY <1>0, <1>1, <1>2, <2>1 DEF ClientType, Goes, Places
  <2> QED BY <1>0, <1>1, <2>2, LockUnchanged DEF ServerType
<1>7. SpinInv'
  <2>1. \A d \in Clients : pc'[d] \in Holding => pc[d] \in Holding
    BY <1>0, <1>1 DEF Goes, ClientType, Holding
  <2> QED BY <1>1, <2>1, SpinKept DEF IInv
<1>8. CASE win[w].refs = 1
  <2>1. PrivDelete(w)
    BY <1>w, <1>8 DEF DestroyDrawable
  <2>2. /\ win' \in [Windows -> Window] /\ table' \in [Entries -> Windows \cup {None}]
        /\ stamp' \in [Entries -> Stamps] /\ next' \in Stamps
        /\ \A v \in Windows : win'[v].there = win[v].there /\ (v # w => win'[v].refs = win[v].refs)
        /\ \A v \in Windows : win'[v].refs = 0 => win'[v].index = -1
        /\ \A i \in Entries : table'[i] # None => win'[table'[i]].refs > 0 /\ win'[table'[i]].index = i
        /\ \A v \in Windows : win'[v].index # -1 => table'[win'[v].index] = v
    BY <1>0, <2>1, PrivDeleteEffect
  <2>3. DriType' /\ TableInv'
    BY <1>2, <2>2 DEF DriType, TableInv, NoPrivate, TableConsistent
  <2>4. RefsInv'
    <3>1. win'[w].refs \in Nat
      BY <1>0, <2>2 DEF Window
    <3>2. win[w].there => Cardinality(Users(w)') <= win'[w].refs
      BY <1>5, <1>8, <3>1
    <3>3. \A v \in Windows : win'[v].there /\ v # w => Cardinality(Users(v)') <= win'[v].refs
      BY <1>0, <1>3, <1>4, <2>2 DEF IInv, RefsInv
    <3> QED BY <1>1, <1>3, <2>2, <3>2, <3>3 DEF RefsInv
  <2> QED BY <1>6, <1>7, <2>3, <2>4 DEF IInv, TypeOK, ServerType, DriType, ClientType
<1>9. CASE win[w].refs # 1
  <2>1. /\ win' = [win EXCEPT ![w].refs = IF win[w].there THEN @ - 1 ELSE @]
        /\ UNCHANGED <<table, stamp, next>>
    BY <1>w, <1>9 DEF DestroyDrawable
  <2>2. /\ win' \in [Windows -> Window]
        /\ win'[w].refs = (IF win[w].there THEN win[w].refs - 1 ELSE win[w].refs)
        /\ win'[w].there = win[w].there /\ win'[w].index = win[w].index
        /\ \A v \in Windows \ {w} : win'[v] = win[v]
        /\ win'[w].refs = 0 <=> win[w].refs = 0
    BY <1>0, <1>5, <1>9, <2>1 DEF DriType, Window
  <2>3. DriType'
    BY <1>0, <1>2, <2>1, <2>2 DEF DriType
  <2>4. NoPrivate'
    BY <1>0, <2>2 DEF TableInv, NoPrivate
  <2>5. TableConsistent'
    <3>1. \A v \in Windows : /\ win'[v].index = win[v].index /\ win'[v].refs \in Nat /\ win[v].refs \in Nat
                             /\ win'[v].refs = 0 <=> win[v].refs = 0
      BY <1>0, <2>2 DEF DriType, Window
    <3>2. \A v \in Windows : win[v].refs > 0 <=> win'[v].refs > 0
      BY <3>1
    <3>3. \A i \in Entries : table[i] # None => win'[table[i]].refs > 0 /\ win'[table[i]].index = i
      <4> SUFFICES ASSUME NEW i \in Entries, table[i] # None
                   PROVE  win'[table[i]].refs > 0 /\ win'[table[i]].index = i
        OBVIOUS
      <4>1. table[i] \in Windows
        BY <1>0 DEF DriType
      <4> QED BY <1>0, <3>1, <3>2, <4>1 DEF TableInv, TableConsistent
    <3>4. \A v \in Windows : win'[v].index # -1 => table[win'[v].index] = v
      BY <1>0, <3>1 DEF TableInv, TableConsistent
    <3> QED BY <1>2, <2>1, <3>3, <3>4 DEF TableConsistent
  <2>6. RefsInv'
    <3>1. win[w].there => Cardinality(Users(w)') <= win'[w].refs
      BY <1>0, <1>5, <2>2 DEF DriType, Window
    <3>2. \A v \in Windows : win'[v].there /\ v # w => Cardinality(Users(v)') <= win'[v].refs
      BY <1>0, <1>3, <1>4, <2>2 DEF IInv, RefsInv
    <3> QED BY <1>1, <1>3, <2>2, <3>1, <3>2 DEF RefsInv
  <2> QED BY <1>6, <1>7, <2>3, <2>4, <2>5, <2>6 DEF IInv, TypeOK, ServerType, DriType, ClientType, TableInv
<1> QED BY <1>8, <1>9

LEMMA InfoStep ==
  ASSUME IInv, UNCHANGED setup, NEW c \in Clients, GetDrawableInfo(c)
  PROVE  IInv'
<1>w. PICK w \in Windows : w = Target(c)
  BY Types, SetupFacts DEF IInv, ServerType
<1>0. /\ ServerType /\ Lock!TypeOK /\ DriType /\ ClientType /\ setup \in Setups /\ TableInv
      /\ None \notin Windows
  BY Types, SetupFacts DEF IInv, ServerType
<1>1. /\ pc[c] = "ask" /\ Goes(c, "spinAgain") /\ win[w].refs > 0
      /\ UNCHANGED <<lock, spin, phase, change, doomed>>
      /\ \/ win[w].index = -1 /\ Load(w)
         \/ win[w].index # -1 /\ UNCHANGED dri
      /\ info' = [info EXCEPT ![c].index = win'[w].index, ![c].stamp = stamp'[win'[w].index],
                              ![c].rects = "current", ![c].single = (nrWindows = 1)]
  BY <1>w DEF GetDrawableInfo
<1>2. Entries' = Entries /\ Window' = Window /\ Info' = Info
  BY DEF Entries, TableSize, Window, Info, Stamps
<1>3. /\ DriType' /\ TableInv' /\ win'[w].index \in Entries
      /\ \A v \in Windows : win'[v].refs = win[v].refs /\ win'[v].there = win[v].there
  <2>1. CASE win[w].index = -1 /\ Load(w)
    <3>1. /\ win' \in [Windows -> Window] /\ table' \in [Entries -> Windows \cup {None}]
          /\ stamp' \in [Entries -> Stamps] /\ next' \in Stamps
          /\ \A v \in Windows : win'[v].refs = win[v].refs /\ win'[v].there = win[v].there
          /\ win'[w].index \in Entries
          /\ \A v \in Windows : win'[v].refs = 0 => win'[v].index = -1
          /\ \A i \in Entries : table'[i] # None => win'[table'[i]].refs > 0 /\ win'[table'[i]].index = i
          /\ \A v \in Windows : win'[v].index # -1 => table'[win'[v].index] = v
      BY <2>1, <1>0, <1>1, LoadEffect
    <3>2. DriType' /\ TableInv'
      BY <1>2, <3>1 DEF DriType, TableInv, NoPrivate, TableConsistent
    <3> QED BY <3>1, <3>2
  <2>2. CASE win[w].index # -1 /\ UNCHANGED dri
    <3>1. DriType' /\ TableInv'
      BY <2>2, <1>0, DriUnchanged, TableUnchanged
    <3>2. win' = win
      BY <2>2 DEF dri
    <3>3. win[w].index \in Entries
      BY <2>2, <1>0 DEF DriType, Window
    <3> QED BY <3>1, <3>2, <3>3
  <2> QED BY <2>1, <2>2, <1>1
<1>4. ClientType'
  <2>1. stamp'[win'[w].index] \in Stamps
    BY <1>2, <1>3 DEF DriType, Stamps
  <2>2. \A x \in Info, i \in Entries, n \in Stamps, r \in {"old", "current"}, b \in BOOLEAN :
          [x EXCEPT !.index = i, !.stamp = n, !.rects = r, !.single = b] \in Info
    BY DEF Info
  <2>3. info \in [Clients -> Info] /\ info[c] \in Info
    BY <1>0 DEF ClientType
  <2> DEFINE x == [info[c] EXCEPT !.index = win'[w].index, !.stamp = stamp'[win'[w].index],
                                  !.rects = "current", !.single = (nrWindows = 1)]
  <2>4. x \in Info
    BY <1>3, <2>1, <2>2, <2>3
  <2>5. info' = [info EXCEPT ![c] = x]
    BY <1>1, Zenon
  <2> HIDE DEF x
  <2>6. info' \in [Clients -> Info]
    BY <2>3, <2>4, <2>5
  <2>7. pc' \in [Clients -> Places]
    BY <1>0, <1>1 DEF ClientType, Goes, Places
  <2> QED BY <1>2, <2>6, <2>7 DEF ClientType
<1>5. RefsInv'
  <2>1. "spinAgain" \in Places /\ pc[c] \notin {"out", "dead"}
    BY <1>1 DEF Places
  <2>2. \A v : Users(v)' \subseteq Users(v)
    BY <1>0, <1>1, <2>1, StepUsers
  <2>3. doomed # None => phase' \in {"spinning", "locking", "changing"}
    BY <1>1 DEF IInv, RefsInv
  <2> QED BY <1>1, <1>3, <2>2, <2>3, RefsKept
<1>6. SpinInv'
  <2>1. \A d \in Clients : pc'[d] \in Holding => pc[d] \in Holding
    BY <1>0, <1>1 DEF Goes, ClientType, Holding
  <2> QED BY <1>1, <2>1, SpinKept DEF IInv
<1>7. ServerType' /\ Lock!TypeOK'
  BY <1>0, <1>1, LockUnchanged DEF ServerType
<1> QED BY <1>3, <1>4, <1>5, <1>6, <1>7 DEF IInv, TypeOK, ServerType, DriType, ClientType

-----------------------------------------------------------------------------
(* Steps of the server that leave the table and the clients as they are.   *)
LEMMA ServerStep ==
  ASSUME IInv, UNCHANGED <<setup, dri, pc, info, doomed>>, Lock!TypeOK',
         spin' \in {0, 1}, phase' \in Phases, change' \subseteq Windows,
         doomed # None => phase' \in {"spinning", "locking", "changing"},
         SpinInv'
  PROVE  IInv'
<1>1. ServerType /\ DriType /\ ClientType /\ TableInv
  BY Types DEF IInv
<1>2. DriType' /\ TableInv'
  BY <1>1, DriUnchanged, TableUnchanged
<1>3. ClientType' /\ ServerType'
  <2>1. Info' = Info
    BY DEF Info, Entries, TableSize, Stamps
  <2> QED BY <1>1, <2>1 DEF ClientType, ServerType
<1>4. RefsInv'
  <2>1. \A w : Users(w)' \subseteq Users(w)
    BY DEF Users, Target
  <2> QED BY <1>2, <2>1, RefsKept DEF dri
<1> QED BY <1>2, <1>3, <1>4 DEF IInv, TypeOK, ServerType, DriType, ClientType

LEMMA ReclaimStep ==
  ASSUME IInv, UNCHANGED setup, Reclaim
  PROVE  IInv'
<1>1. PICK c \in Clients : Lock!Reclaim(c)
  BY DEF Reclaim
<1>2. ServerType /\ Lock!TypeOK /\ c \in Proc /\ Lock!TypeOK'
  BY <1>1, Types, LockSteps DEF IInv, Proc
<1>3. UNCHANGED <<spin, phase, change, doomed, dri, pc, info>>
  BY DEF Reclaim
<1>4. SpinInv'
  BY <1>3, SpinKept DEF IInv
<1>5. doomed # None => phase' \in {"spinning", "locking", "changing"}
  BY <1>3 DEF IInv, RefsInv
<1> QED BY <1>2, <1>3, <1>4, <1>5, ServerStep DEF ServerType

LEMMA PhaseStep ==
  ASSUME IInv, UNCHANGED setup,
         WakeupHandler \/ BlockHandler \/ Restructure \/ SpinLockServer \/ Timeout
           \/ Relock \/ SpinUnlockServer
  PROVE  IInv'
<1>1. ServerType /\ Lock!TypeOK /\ Server \in Proc /\ ClientType
  BY Types DEF IInv, Proc
<1>2. Lock!TypeOK'
  BY <1>1, LockSteps, LockUnchanged DEF WakeupHandler, BlockHandler, Restructure, ValidateTree,
       SpinLockServer, Timeout, Relock, SpinUnlockServer
<1>3. UNCHANGED <<doomed, dri, pc, info>>
  BY DEF WakeupHandler, BlockHandler, Restructure, SpinLockServer, Timeout, Relock, SpinUnlockServer
<1>4. spin' \in {0, 1} /\ phase' \in Phases /\ change' \subseteq Windows
  <2>1. CASE Restructure
    BY <1>1, <2>1 DEF Restructure, ValidateTree, ServerType, Phases
  <2>2. CASE WakeupHandler \/ BlockHandler \/ SpinLockServer \/ Timeout \/ Relock \/ SpinUnlockServer
    BY <1>1, <2>2 DEF WakeupHandler, BlockHandler, SpinLockServer, Timeout, Relock,
         SpinUnlockServer, ServerType, Phases
  <2> QED BY <2>1, <2>2
<1>5. doomed # None => phase' \in {"spinning", "locking", "changing"}
  BY DEF IInv, RefsInv, WakeupHandler, BlockHandler, Restructure, ValidateTree,
       SpinLockServer, Timeout, Relock, SpinUnlockServer
<1>6. SpinInv'
  <2>0. SpinInv /\ Fails("stall")' = Fails("stall")
    BY DEF IInv, Fails
  <2>1. CASE WakeupHandler \/ BlockHandler \/ Restructure \/ Relock
    <3>1. spin' = spin /\ pc' = pc
      BY <2>1 DEF WakeupHandler, BlockHandler, Restructure, Relock
    <3>2. phase' \in Changing => phase \in Changing
      BY <2>1 DEF WakeupHandler, BlockHandler, Restructure, ValidateTree, Relock, Changing
    <3> QED BY <2>0, <3>1, <3>2, SpinKept
  <2>2. CASE SpinLockServer
    <3>1. spin = 0 /\ spin' = 1 /\ pc' = pc
      BY <2>2 DEF SpinLockServer
    <3>2. ~Fails("stall") => \A d \in Clients : pc[d] \notin Holding
      BY <2>0, <3>1 DEF SpinInv
    <3> QED BY <2>0, <3>1, <3>2 DEF SpinInv
  <2>3. CASE Timeout
    BY <2>0, <2>3 DEF Timeout, SpinInv
  <2>4. CASE SpinUnlockServer
    <3>1. phase \in Changing /\ phase' \notin Changing /\ pc' = pc
      BY <2>4 DEF SpinUnlockServer, Changing
    <3>2. ~Fails("stall") => \A d \in Clients : pc[d] \notin Holding
      BY <2>0, <3>1 DEF SpinInv
    <3> QED BY <2>0, <3>1, <3>2 DEF SpinInv
  <2> QED BY <2>1, <2>2, <2>3, <2>4
<1> QED BY <1>2, <1>3, <1>4, <1>5, <1>6, ServerStep

(* A window changes: new stamps, the table stays.                          *)
LEMMA ClipNotifyStep ==
  ASSUME IInv, UNCHANGED setup, NEW w \in Windows, ClipNotify(w)
  PROVE  IInv'
<1>0. ServerType /\ Lock!TypeOK /\ DriType /\ ClientType /\ TableInv
  BY Types DEF IInv
<1>1. /\ UNCHANGED <<lock, spin, phase, doomed, win, table, pc>> /\ change' = change \ {w}
      /\ phase = "changing"
  BY DEF ClipNotify
<1>2. Entries' = Entries /\ Window' = Window /\ Info' = Info
  BY DEF Entries, TableSize, Window, Info, Stamps
<1>3. stamp' \in [Entries -> Stamps] /\ next' \in Stamps
  <2>1. next \in Int
    BY <1>0 DEF DriType, Stamps
  <2>2. Plus(next, 1) \in Stamps
    BY <2>1, PlusType
  <2> QED BY <1>0, <2>2 DEF ClipNotify, DriType
<1>4. info' \in [Clients -> Info]
  <2>1. \A x \in Info : [x EXCEPT !.rects = "old"] \in Info
    BY DEF Info
  <2>2. \A c \in Clients : info[c] \in Info
    BY <1>0 DEF ClientType
  <2>3. info' = [c \in Clients |-> IF Target(c) = w THEN [info[c] EXCEPT !.rects = "old"] ELSE info[c]]
    BY DEF ClipNotify
  <2> QED BY <2>1, <2>2, <2>3
<1>5. DriType' /\ ClientType' /\ ServerType' /\ Lock!TypeOK'
  BY <1>0, <1>1, <1>2, <1>3, <1>4, LockUnchanged DEF DriType, ClientType, ServerType
<1>6. TableInv'
  BY <1>0, <1>1, <1>2 DEF TableInv, NoPrivate, TableConsistent
<1>7. RefsInv'
  <2>1. \A v : Users(v)' \subseteq Users(v)
    BY <1>1 DEF Users, Target
  <2> QED BY <1>1, <1>5, <2>1, RefsKept
<1>8. SpinInv'
  BY <1>1, SpinKept DEF IInv
<1> QED BY <1>5, <1>6, <1>7, <1>8 DEF IInv, TypeOK, ServerType, DriType, ClientType

LEMMA PostStep ==
  ASSUME IInv, UNCHANGED setup, PostValidateTree
  PROVE  IInv'
<1>0. ServerType /\ Lock!TypeOK /\ DriType /\ ClientType /\ TableInv
  BY Types DEF IInv
<1>1. /\ UNCHANGED <<lock, spin, change, table, stamp, next, pc, info>>
      /\ phase = "changing" /\ phase' = (IF spin = 1 THEN "unlocking" ELSE "awake")
      /\ doomed' = None
      /\ win' = [w \in Windows |-> IF w = doomed THEN [win[w] EXCEPT !.there = FALSE] ELSE win[w]]
  BY DEF PostValidateTree
<1>2. Entries' = Entries /\ Window' = Window /\ Info' = Info
  BY DEF Entries, TableSize, Window, Info, Stamps
<1>3. \A w \in Windows : /\ win'[w] \in Window
                         /\ win'[w].refs = win[w].refs /\ win'[w].index = win[w].index
                         /\ win'[w].there => win[w].there /\ w # doomed
  <2>1. \A x \in Window : LET y == [x EXCEPT !.there = FALSE]
                          IN  y \in Window /\ y.refs = x.refs /\ y.index = x.index /\ y.there = FALSE
    BY DEF Window
  <2> QED BY <1>0, <1>1, <2>1 DEF DriType
<1>4. DriType' /\ ClientType' /\ ServerType' /\ Lock!TypeOK'
  BY <1>0, <1>1, <1>2, <1>3, LockUnchanged DEF DriType, ClientType, ServerType, Phases
<1>5. TableInv'
  <2>1. \A i \in Entries : table[i] # None => table[i] \in Windows
    BY <1>0 DEF DriType
  <2> QED BY <1>0, <1>1, <1>2, <1>3, <2>1 DEF TableInv, NoPrivate, TableConsistent
<1>6. RefsInv'
  <2>1. \A v : Users(v)' = Users(v)
    BY <1>1 DEF Users, Target
  <2>2. \A w \in Windows : win'[w].there => Cardinality(Users(w)') <= win'[w].refs
    BY <1>3, <2>1 DEF IInv, RefsInv
  <2> QED BY <1>1, <2>2 DEF RefsInv
<1>7. SpinInv'
  <2>1. phase \in Changing
    BY <1>1 DEF Changing
  <2>2. spin' = spin /\ pc' = pc
    BY <1>1
  <2> QED BY <2>1, <2>2, SpinKept DEF IInv
<1> QED BY <1>4, <1>5, <1>6, <1>7 DEF IInv, TypeOK, ServerType, DriType, ClientType

LEMMA DestroyWindowStep ==
  ASSUME IInv, UNCHANGED setup, NEW w \in Windows, DestroyWindow(w)
  PROVE  IInv'
<1>0. ServerType /\ Lock!TypeOK /\ DriType /\ ClientType /\ TableInv /\ Server \in Proc
  BY Types DEF IInv, Proc
<1>1. PICK ws \in SUBSET Windows : ValidateTree(ws)
  BY DEF DestroyWindow
<1>2. /\ phase = "awake" /\ phase' = "spinning" /\ Lock!Release(Server) /\ change' = ws
      /\ doomed' = w /\ UNCHANGED <<spin, pc, info>> /\ win[w].there
      /\ (win[w].refs > 0 /\ PrivDelete(w)) \/ UNCHANGED dri
  BY <1>1 DEF DestroyWindow, ValidateTree
<1>3. Entries' = Entries /\ Window' = Window /\ Info' = Info
  BY DEF Entries, TableSize, Window, Info, Stamps
<1>4. Lock!TypeOK' /\ ClientType' /\ ServerType'
  BY <1>0, <1>1, <1>2, <1>3, LockSteps DEF ClientType, ServerType, Phases
<1>5. /\ DriType' /\ TableInv'
      /\ \A v \in Windows : win'[v].there = win[v].there /\ (v # w => win'[v].refs = win[v].refs)
  <2>1. CASE PrivDelete(w)
    <3>1. /\ win' \in [Windows -> Window] /\ table' \in [Entries -> Windows \cup {None}]
          /\ stamp' \in [Entries -> Stamps] /\ next' \in Stamps
          /\ \A v \in Windows : win'[v].there = win[v].there /\ (v # w => win'[v].refs = win[v].refs)
          /\ \A v \in Windows : win'[v].refs = 0 => win'[v].index = -1
          /\ \A i \in Entries : table'[i] # None => win'[table'[i]].refs > 0 /\ win'[table'[i]].index = i
          /\ \A v \in Windows : win'[v].index # -1 => table'[win'[v].index] = v
      BY <1>0, <2>1, PrivDeleteEffect DEF ServerType
    <3> QED BY <1>3, <3>1 DEF DriType, TableInv, NoPrivate, TableConsistent
  <2>2. CASE UNCHANGED dri
    <3>1. DriType' /\ TableInv'
      BY <2>2, <1>0, DriUnchanged, TableUnchanged
    <3> QED BY <2>2, <3>1 DEF dri
  <2> QED BY <1>2, <2>1, <2>2
<1>6. RefsInv'
  <2>1. doomed = None
    BY <1>2 DEF IInv, RefsInv
  <2>2. \A v : Users(v)' = Users(v)
    BY <1>2 DEF Users, Target
  <2>3. None \notin Windows
    BY <1>0, SetupFacts DEF ServerType
  <2>4. \A v \in Windows : win'[v].there /\ v # w => Cardinality(Users(v)') <= win'[v].refs
    BY <1>5, <2>1, <2>2, <2>3 DEF IInv, RefsInv
  <2> QED BY <1>2, <2>4 DEF RefsInv
<1>7. SpinInv'
  <2>1. phase' \notin Changing
    BY <1>2 DEF Changing
  <2> QED BY <1>2, <2>1, SpinKept DEF IInv
<1> QED BY <1>4, <1>5, <1>6, <1>7 DEF IInv, TypeOK, ServerType, DriType, ClientType

-----------------------------------------------------------------------------

LEMMA Stutter ==
  ASSUME IInv, UNCHANGED vars
  PROVE  IInv'
<1>1. UNCHANGED <<setup, dri, pc, info, doomed, lock, spin, phase, change>>
  BY DEF vars, state
<1>2. Lock!TypeOK' /\ SpinInv' /\ ServerType
  BY <1>1, Types, LockUnchanged, SpinKept DEF IInv
<1>3. doomed # None => phase' \in {"spinning", "locking", "changing"}
  BY <1>1 DEF IInv, RefsInv
<1> QED BY <1>1, <1>2, <1>3, ServerStep DEF ServerType

LEMMA Steps == IInv /\ [Next]_vars => IInv'
<1> SUFFICES ASSUME IInv, [Next]_vars PROVE IInv'
  OBVIOUS
<1>1. CASE UNCHANGED vars
  BY <1>1, Stutter
<1>2. CASE Next
  <2>0. UNCHANGED setup
    BY <1>2 DEF Next
  <2>1. ASSUME NEW c \in Clients,
               Moves(c) \/ LockHardware(c) \/ CreateDrawable(c) \/ DestroyDrawable(c) \/ Dies(c)
        PROVE  IInv'
    <3>1. CASE SpinLock(c)
      BY <2>0, <3>1, SpinLockStep
    <3>2. CASE SpinUnlockTest(c)
      BY <2>0, <3>2, UnlockTestStep
    <3>3. CASE SpinUnlockSwap(c)
      BY <2>0, <3>3, UnlockSwapStep
    <3>4. CASE LockHardware(c) \/ Valid(c) \/ Invalid(c) \/ UnlockHardware(c) \/ Refused(c) \/ Dies(c)
      BY <2>0, <3>4, HardwareStep
    <3>5. CASE GetDrawableInfo(c)
      BY <2>0, <3>5, InfoStep
    <3>6. CASE CreateDrawable(c)
      BY <2>0, <3>6, CreateStep
    <3>7. CASE DestroyDrawable(c)
      BY <2>0, <3>7, DestroyStep
    <3> QED BY <2>1, <3>1, <3>2, <3>3, <3>4, <3>5, <3>6, <3>7 DEF Moves
  <2>2. CASE Reclaim
    BY <2>0, <2>2, ReclaimStep
  <2>3. CASE ServerMoves \/ Restructure
    <3>1. CASE WakeupHandler \/ BlockHandler \/ Restructure \/ SpinLockServer \/ Timeout
                 \/ Relock \/ SpinUnlockServer
      BY <2>0, <3>1, PhaseStep
    <3>2. CASE \E w \in Windows : ClipNotify(w)
      BY <2>0, <3>2, ClipNotifyStep
    <3>3. CASE PostValidateTree
      BY <2>0, <3>3, PostStep
    <3> QED BY <2>3, <3>1, <3>2, <3>3 DEF ServerMoves
  <2>4. CASE \E w \in Windows : DestroyWindow(w)
    BY <2>0, <2>4, DestroyWindowStep
  <2> QED BY <1>2, <2>1, <2>2, <2>3, <2>4 DEF Next
<1> QED BY <1>1, <1>2

(* Types: an index of a window is an entry of the table or -1, also when   *)
(* entries change hands; a count of references is never negative.          *)
THEOREM Typed == Spec => []TypeOK
<1>1. IInv => TypeOK
  BY DEF IInv
<1> QED BY <1>1, InitIInv, Steps, PTL DEF Spec

(* The table of drawables and the indices of the windows refer to each     *)
(* other, for every size of the table and every number of windows.         *)
THEOREM TableStaysConsistent == Spec => []TableConsistent
<1>1. IInv => TableConsistent
  BY DEF IInv, TableInv
<1> QED BY <1>1, InitIInv, Steps, PTL DEF Spec

(* The drawable lock excludes, among any number of clients that may die at *)
(* any time but are not stopped while they hold it.                        *)
THEOREM DrawableLockIsExclusive == Spec => []DrawableLockExcludes
<1>1. IInv => DrawableLockExcludes
  <2> SUFFICES ASSUME IInv, ~Fails("stall")
               PROVE  Cardinality({c \in Clients : pc[c] \in Holding}
                         \cup (IF phase \in Changing THEN {Server} ELSE {})) <= 1
    BY DEF DrawableLockExcludes, Changing
  <2> DEFINE users == {c \in Clients : pc[c] \in Holding}
             holders == users \cup (IF phase \in Changing THEN {Server} ELSE {})
  <2>1. /\ \A c \in Clients : pc[c] \in Holding => phase \notin Changing
        /\ \A c, d \in Clients : pc[c] \in Holding /\ pc[d] \in Holding => c = d
    BY DEF IInv, SpinInv
  <2>2. holders = {} \/ \E x : holders = {x}
    <3>1. CASE phase \in Changing
      BY <2>1, <3>1
    <3>2. CASE phase \notin Changing /\ users = {}
      BY <3>2
    <3>3. CASE phase \notin Changing /\ users # {}
      <4>1. PICK c \in users : TRUE
        BY <3>3
      <4>2. users = {c}
        BY <2>1, <4>1
      <4>3. holders = {c}
        BY <3>3, <4>2
      <4> QED BY <4>3
    <3> QED BY <3>1, <3>2, <3>3
  <2> HIDE DEF users, holders
  <2>3. Cardinality(holders) = 0 \/ Cardinality(holders) = 1
    BY <2>2, FS_EmptySet, FS_Singleton, Zenon
  <2> QED BY <2>3 DEF holders, users
<1> QED BY <1>1, InitIInv, Steps, PTL DEF Spec

-----------------------------------------------------------------------------
(* Rendering.  The stamp that a client was given is older than any that is *)
(* still to be issued, so that it is found in the entry only if no clip    *)
(* list, no private and no entry has changed since.                        *)
(* The ages of stamps: Used is that of the next one.                       *)
Age(s) == (s - Start) % Modulus

LEMMA ModIs ==
  ASSUME NEW x \in Int
  PROVE  /\ x \in 0 .. Modulus - 1 => x % Modulus = x
         /\ x \in Modulus .. 2 * Modulus - 1 => x % Modulus = x - Modulus
         /\ x \in -Modulus .. -1 => x % Modulus = x + Modulus
<1>1. Modulus \in Nat \ {0}
  BY DRIAssumption
<1>2. x % Modulus \in 0 .. Modulus - 1 /\ x = Modulus * (x \div Modulus) + (x % Modulus) /\ x \div Modulus \in Int
  BY <1>1, SMTT(30)
<1> QED BY <1>1, <1>2, SMTT(30)

(* With n more stamps there is no wrap-around: the n-th has its own age.   *)
LEMMA AgeOfPlus ==
  ASSUME next \in Stamps, NEW n \in Nat, Used + n < Modulus
  PROVE  /\ Used \in Nat /\ Plus(next, n) \in Stamps
         /\ Age(Plus(next, n)) = Used + n
<1>1. Modulus \in Nat \ {0} /\ Start \in 0 .. Modulus - 1 /\ next \in 0 .. Modulus - 1
  BY DRIAssumption DEF Stamps
<1> DEFINE u == IF next >= Start THEN next - Start ELSE next - Start + Modulus
           p == IF next + n < Modulus THEN next + n ELSE next + n - Modulus
<1>2. Used = u
  <2>1. next - Start \in Int /\ next - Start \in -Modulus .. Modulus - 1
    BY <1>1
  <2> QED BY <1>1, <2>1, ModIs DEF Used
<1>3. n < Modulus /\ u + n < Modulus
  BY <1>1, <1>2
<1>4. Plus(next, n) = p
  <2>1. next + n \in 0 .. 2 * Modulus - 1 /\ next + n \in Int
    BY <1>1, <1>3
  <2> QED BY <1>1, <2>1, ModIs DEF Plus
<1>5. p \in 0 .. Modulus - 1
  BY <1>1, <1>3
<1>6. Age(p) = u + n
  <2>1. p - Start \in Int /\ p - Start \in -Modulus .. Modulus - 1
    BY <1>1, <1>5
  <2>2. Age(p) = IF p >= Start THEN p - Start ELSE p - Start + Modulus
    BY <1>1, <1>5, <2>1, ModIs DEF Age
  <2> QED BY <1>1, <1>3, <1>5, <2>2
<1> QED BY <1>1, <1>2, <1>4, <1>5, <1>6 DEF Stamps

LEMMA PlusPlus ==
  ASSUME next \in Stamps, NEW m \in Nat, NEW n \in Nat, m + n < Modulus
  PROVE  Plus(Plus(next, m), n) = Plus(next, m + n)
<1>1. Modulus \in Nat \ {0} /\ next \in 0 .. Modulus - 1
  BY DRIAssumption DEF Stamps
<1> DEFINE p == IF next + m < Modulus THEN next + m ELSE next + m - Modulus
           q == IF next + m + n < Modulus THEN next + m + n ELSE next + m + n - Modulus
<1>2. Plus(next, m) = p
  <2>1. next + m \in 0 .. 2 * Modulus - 1 /\ next + m \in Int
    BY <1>1
  <2> QED BY <1>1, <2>1, ModIs DEF Plus
<1>3. Plus(next, m + n) = q
  <2>1. next + (m + n) \in 0 .. 2 * Modulus - 1 /\ next + (m + n) \in Int
    BY <1>1
  <2> QED BY <1>1, <2>1, ModIs DEF Plus
<1>4. (p + n) % Modulus = q
  <2>1. p + n \in 0 .. 2 * Modulus - 1 /\ p + n \in Int
    BY <1>1
  <2> QED BY <1>1, <2>1, ModIs
<1> QED BY <1>2, <1>3, <1>4 DEF Plus

(* A step issues k stamps, for the entries in R.                           *)
Renews(R, k) ==
  /\ next' = Plus(next, k)
  /\ \A i \in Entries \ R : stamp'[i] = stamp[i]
  /\ \A i \in R : \E n \in Nat : n < k /\ stamp'[i] = Plus(next, n)

LEMMA Renewal ==
  ASSUME next \in Stamps, NEW k \in Nat, Used + k < Modulus, NEW R, Renews(R, k)
  PROVE  /\ Used \in Nat /\ Used' = Used + k
         /\ \A i \in R : Age(stamp'[i]) >= Used /\ Age(stamp'[i]) < Used'
<1>1. Used \in Nat
  BY AgeOfPlus
<1>2. \A n \in Nat : n <= k => Age(Plus(next, n)) = Used + n
  <2>1. \A n \in Nat : n <= k => Used + n < Modulus
    BY <1>1, DRIAssumption
  <2> QED BY <2>1, AgeOfPlus
<1>3. Used' = Used + k
  BY <1>2 DEF Renews, Used, Age
<1> QED BY <1>1, <1>2, <1>3 DEF Renews

(* The bounds leave room for what a step may issue.                        *)
LEMMA Room ==
  ASSUME setup \in Setups
  PROVE  /\ TableSize \in Nat \ {0} /\ Cardinality(Windows) \in Nat /\ MaxStamps \in Nat
         /\ MaxStamps + TableSize < Modulus
         /\ Reserve + TableSize + 1 < Modulus
         /\ MaxStamps + TableSize + Cardinality(Windows) < Modulus
<1> DEFINE n == TableSize
           k == Cardinality(Windows)
<1>1. n \in Nat \ {0} /\ MaxStamps \in Nat /\ Modulus \in Nat
  BY SetupFacts, DRIAssumption
<1>2. k \in Nat
  BY DRIAssumption, FS_CardinalityType
<1>3. MaxStamps + (n + 1) * (k + 1) < Modulus
  BY DRIAssumption DEF TableSize
<1>4. Reserve = MaxStamps + (n + 1) * k
  BY DEF Reserve
<1> HIDE DEF n, k
<1>5. (n + 1) * k \in Nat /\ (n + 1) * (k + 1) = (n + 1) * k + n + 1 /\ (n + 1) * k >= k
  BY <1>1, <1>2, SMTT(30)
<1>6. n \in Nat \ {0} /\ k \in Nat /\ MaxStamps \in Nat /\ MaxStamps + n < Modulus /\ Reserve + n + 1 < Modulus
        /\ MaxStamps + n + k < Modulus
  BY <1>1, <1>2, <1>3, <1>4, <1>5
<1> QED BY <1>6 DEF n, k

(* A client that has an answer of the server, about the window as it may   *)
(* no longer be; and what it says is so.                                   *)
Informed(c) == pc[c] \in {"spinAgain", "heldAgain", "freeingAgain", "lock", "idle", "check", "render"}

Current(c) == /\ win[Target(c)].index = info[c].index /\ info[c].rects = "current"
              /\ info[c].single => nrWindows = 1

\* Who works on the hardware has the lock.
HardwareInv ==
  /\ inside \subseteq {owner}
  /\ \A c \in Clients : pc[c] \in {"check", "render"} => c \in inside
  /\ phase \in {"awake", "changing", "unlocking"} => Server \in inside

\* pStamp points to the entry of the answer.
EntryInv ==
  \A c \in Clients : Informed(c) /\ pc[c] \notin {"spinAgain", "heldAgain"} => info[c].entry = info[c].index

\* The stamps that are known, and those of entries in use, were issued.
IssuedInv ==
  /\ \A i \in Entries : table[i] # None => Age(stamp[i]) < Used
  /\ \A c \in Clients : Informed(c) => Age(info[c].stamp) < Used

\* The stamps for the clip lists that are still to change are there.
ChangeInv ==
  phase \in {"spinning", "locking", "changing"} =>
    Used + Cardinality(change) <= MaxStamps + TableSize + Cardinality(Windows)

\* A stamp that is found where it was tells the truth about the window.
StampInv ==
  \A c \in Clients :
    /\ Informed(c) /\ win[Target(c)].refs > 0 /\ stamp[info[c].index] = info[c].stamp => Current(c)
    /\ pc[c] = "render" => stamp[info[c].index] = info[c].stamp

RInv == HardwareInv /\ EntryInv /\ IssuedInv /\ ChangeInv /\ StampInv

Facts == /\ ServerType /\ Lock!TypeOK /\ DriType /\ ClientType /\ setup \in Setups
         /\ Server \notin Clients /\ None \notin Proc /\ None \notin Windows
         /\ TableSize \in Nat \ {0} /\ \A c \in Clients : Target(c) \in Windows /\ c \in Proc

LEMMA TypeFacts == IInv => Facts
BY Types, SetupFacts DEF IInv, ServerType, Proc, Facts

LEMMA InitRInv == Init => RInv
<1> SUFFICES ASSUME Init PROVE RInv
  OBVIOUS
<1>1. HardwareInv /\ EntryInv /\ IssuedInv /\ ChangeInv /\ StampInv
  BY DEF Init, HardwareInv, EntryInv, IssuedInv, ChangeInv, StampInv, Informed
<1> QED BY <1>1 DEF RInv

-----------------------------------------------------------------------------
(* The hardware lock: a client renders while the server does not work.     *)
LEMMA NextHardware ==
  ASSUME Facts, HardwareInv, Next
  PROVE  HardwareInv'
<1>0. /\ pc \in [Clients -> Places] /\ Server \notin Clients /\ None \notin Proc
      /\ inside \subseteq Proc /\ \A c \in Clients : c \in Proc
  BY DEF Facts, ClientType, Lock!TypeOK
<1>1. ASSUME NEW c \in Clients,
             SpinLock(c) \/ SpinUnlockTest(c) \/ SpinUnlockSwap(c) \/ GetDrawableInfo(c)
               \/ CreateDrawable(c) \/ DestroyDrawable(c)
      PROVE  HardwareInv'
  <2>1. PICK p \in Places \ {"check", "render"} : Goes(c, p)
    BY <1>1 DEF SpinLock, SpinUnlockTest, SpinUnlockSwap, GetDrawableInfo, CreateDrawable,
         DestroyDrawable, After, Places
  <2>2. UNCHANGED <<owner, inside, alive, phase>>
    BY <1>1 DEF SpinLock, SpinUnlockTest, SpinUnlockSwap, GetDrawableInfo, CreateDrawable,
         DestroyDrawable, lock
  <2> QED BY <1>0, <2>1, <2>2 DEF Goes, HardwareInv
<1>2. ASSUME NEW c \in Clients,
             LockHardware(c) \/ Valid(c) \/ Invalid(c) \/ UnlockHardware(c) \/ Refused(c) \/ Dies(c)
      PROVE  HardwareInv'
  <2>1. phase' = phase
    BY <1>2 DEF LockHardware, Valid, Invalid, UnlockHardware, Refused, Dies
  <2>2. CASE LockHardware(c)
    BY <1>0, <2>1, <2>2 DEF LockHardware, Goes, HardwareInv, Lock!Acquire
  <2>3. CASE Valid(c)
    BY <1>0, <2>1, <2>3 DEF Valid, Goes, HardwareInv, lock
  <2>4. CASE Invalid(c) \/ UnlockHardware(c)
    BY <1>0, <2>1, <2>4 DEF Invalid, UnlockHardware, Goes, HardwareInv, Lock!Release
  <2>5. CASE Refused(c) \/ Dies(c)
    BY <1>0, <2>1, <2>5 DEF Refused, Dies, Goes, HardwareInv, Lock!Die
  <2> QED BY <1>2, <2>2, <2>3, <2>4, <2>5
<1>3. CASE Reclaim
  <2>1. PICK c \in Clients : Lock!Reclaim(c)
    BY <1>3 DEF Reclaim
  <2>2. c \notin inside
    BY <2>1 DEF Lock!Reclaim, Lock!TypeOK, Facts
  <2>3. UNCHANGED <<pc, phase>>
    BY <1>3 DEF Reclaim
  <2> QED BY <1>0, <2>1, <2>2, <2>3 DEF HardwareInv, Lock!Reclaim
<1>4. CASE WakeupHandler \/ Relock
  BY <1>0, <1>4 DEF WakeupHandler, Relock, HardwareInv, Lock!Acquire
<1>5. CASE BlockHandler \/ Restructure \/ \E w \in Windows : DestroyWindow(w)
  <2>1. Lock!Release(Server) /\ phase' \in {"asleep", "spinning"} /\ UNCHANGED pc
    BY <1>5 DEF BlockHandler, Restructure, DestroyWindow, ValidateTree
  <2> QED BY <1>0, <2>1 DEF HardwareInv, Lock!Release
<1>6. CASE \/ SpinLockServer \/ Timeout \/ PostValidateTree \/ SpinUnlockServer
           \/ \E w \in Windows : ClipNotify(w)
  <2>1. UNCHANGED <<owner, inside, alive, pc>>
    BY <1>6 DEF SpinLockServer, Timeout, ClipNotify, PostValidateTree, SpinUnlockServer, lock
  <2>2. phase' \in {"awake", "changing", "unlocking"} => phase \in {"awake", "changing", "unlocking"}
    BY <1>6 DEF SpinLockServer, Timeout, ClipNotify, PostValidateTree, SpinUnlockServer
  <2> QED BY <2>1, <2>2 DEF HardwareInv
<1> QED BY <1>1, <1>2, <1>3, <1>4, <1>5, <1>6 DEF Next, Moves, ServerMoves

(* A client takes the stamp of the entry it was told.                      *)
LEMMA NextEntry ==
  ASSUME Facts, EntryInv, Next
  PROVE  EntryInv'
<1>0. pc \in [Clients -> Places] /\ info \in [Clients -> Info]
  BY DEF Facts, ClientType
<1>1. ASSUME NEW c \in Clients,
             SpinLock(c) \/ SpinUnlockSwap(c) \/ CreateDrawable(c) \/ LockHardware(c)
               \/ Valid(c) \/ Invalid(c) \/ UnlockHardware(c) \/ Refused(c) \/ Dies(c)
      PROVE  EntryInv'
  <2>1. PICK p \in Places : Goes(c, p) /\ (\/ p \in {"out", "spin", "held", "ask", "dead", "heldAgain"}
                                           \/ pc[c] \in {"freeingAgain", "lock", "idle", "check", "render"})
    BY <1>1 DEF SpinLock, SpinUnlockSwap, CreateDrawable, LockHardware, Valid, Invalid,
         UnlockHardware, Refused, Dies, After, Places
  <2>2. info' = info
    BY <1>1 DEF SpinLock, SpinUnlockSwap, CreateDrawable, LockHardware, Valid, Invalid,
         UnlockHardware, Refused, Dies
  <2> QED BY <1>0, <2>1, <2>2 DEF Goes, EntryInv, Informed
<1>2. ASSUME NEW c \in Clients, SpinUnlockTest(c)
      PROVE  EntryInv'
  <2>1. CASE pc[c] = "held"
    <3>1. PICK p \in {"freeing", "ask"} : Goes(c, p)
      BY <1>2, <2>1 DEF SpinUnlockTest, After
    <3>2. info' = info
      BY <1>2, <2>1 DEF SpinUnlockTest
    <3> QED BY <1>0, <3>1, <3>2 DEF Goes, EntryInv, Informed
  <2>2. CASE pc[c] = "heldAgain"
    <3>1. PICK p \in {"freeingAgain", "lock"} : Goes(c, p)
      BY <1>2, <2>2 DEF SpinUnlockTest, After
    <3>2. info' = [info EXCEPT ![c].entry = info[c].index]
      BY <1>2, <2>2 DEF SpinUnlockTest
    <3>3. /\ info'[c].entry = info'[c].index
          /\ \A d \in Clients \ {c} : info'[d] = info[d] /\ pc'[d] = pc[d]
      BY <1>0, <3>1, <3>2 DEF Info, Goes
    <3> QED BY <3>3 DEF EntryInv, Informed
  <2> QED BY <1>2, <2>1, <2>2 DEF SpinUnlockTest
<1>3. ASSUME NEW c \in Clients, GetDrawableInfo(c) \/ DestroyDrawable(c)
      PROVE  EntryInv'
  <2>1. PICK p \in {"spinAgain", "out"} : Goes(c, p)
    BY <1>3 DEF GetDrawableInfo, DestroyDrawable
  <2>2. \A d \in Clients \ {c} : info'[d] = info[d] /\ pc'[d] = pc[d]
    BY <1>0, <1>3, <2>1 DEF GetDrawableInfo, DestroyDrawable, Goes
  <2>3. pc'[c] = p
    BY <1>0, <2>1 DEF Goes
  <2> QED BY <2>1, <2>2, <2>3 DEF EntryInv, Informed
<1>4. ASSUME NEW w \in Windows, ClipNotify(w)
      PROVE  EntryInv'
  <2>1. \A d \in Clients : info'[d].entry = info[d].entry /\ info'[d].index = info[d].index
    BY <1>0, <1>4 DEF ClipNotify, Info
  <2>2. pc' = pc
    BY <1>4 DEF ClipNotify
  <2> QED BY <2>1, <2>2 DEF EntryInv, Informed
<1>5. ASSUME UNCHANGED <<pc, info>>
      PROVE  EntryInv'
  BY <1>5 DEF EntryInv, Informed
<1>6. ASSUME \/ Reclaim \/ WakeupHandler \/ BlockHandler \/ SpinLockServer \/ Timeout \/ Relock
             \/ PostValidateTree \/ SpinUnlockServer \/ Restructure
             \/ \E w \in Windows : DestroyWindow(w)
      PROVE  UNCHANGED <<pc, info>>
  BY <1>6 DEF Reclaim, WakeupHandler, BlockHandler, SpinLockServer, Timeout, Relock,
       PostValidateTree, SpinUnlockServer, Restructure, DestroyWindow
<1> QED BY <1>1, <1>2, <1>3, <1>4, <1>5, <1>6 DEF Next, Moves, ServerMoves

-----------------------------------------------------------------------------
(* Stamps: what a client knows stays true until its entry is renewed.      *)
LEMMA StampStep ==
  ASSUME Facts, Facts', RInv, UNCHANGED setup,
         NEW R \in SUBSET Entries, NEW k \in Nat, Used + k < Modulus, Renews(R, k),
         \A i \in Entries \ R : table'[i] # None => table[i] # None,
         \A d \in Clients : pc'[d] # "render",
         \A d \in Clients : Informed(d)' =>
           \/ /\ Informed(d) /\ info'[d].stamp = info[d].stamp /\ info'[d].index = info[d].index
              /\ win'[Target(d)].refs > 0 => win[Target(d)].refs > 0
              /\ info[d].index \notin R /\ Current(d) /\ win[Target(d)].refs > 0
                   /\ win'[Target(d)].refs > 0 => Current(d)'
           \/ Age(info'[d].stamp) < Used' /\ Current(d)'
  PROVE  IssuedInv' /\ StampInv'
<1>0. /\ next \in Stamps /\ Used \in Nat /\ Used' = Used + k
      /\ \A i \in R : Age(stamp'[i]) >= Used /\ Age(stamp'[i]) < Used'
      /\ \A i \in Entries \ R : stamp'[i] = stamp[i]
      /\ Entries' = Entries
  BY Renewal DEF Facts, DriType, Renews, Entries, TableSize
<1>1. \A s \in Stamps : Age(s) \in Nat
  BY DRIAssumption, SMTT(30) DEF Age, Stamps
<1>2. \A i \in Entries : Age(stamp[i]) \in Nat
  BY <1>1 DEF Facts, DriType
<1>3. \A d \in Clients : info[d].index \in Entries /\ Age(info[d].stamp) \in Nat
  BY <1>1 DEF Facts, ClientType, Info
<1>4. /\ \A i \in Entries : table[i] # None => Age(stamp[i]) < Used
      /\ \A d \in Clients : Informed(d) => Age(info[d].stamp) < Used
  BY DEF RInv, IssuedInv
<1>5. \A i \in Entries : table'[i] # None => Age(stamp'[i]) < Used'
  BY <1>0, <1>2, <1>4
<1>6. \A d \in Clients : Informed(d)' => Age(info'[d].stamp) < Used'
  BY <1>0, <1>3, <1>4
<1>7. IssuedInv'
  <2>1. \A s : Age(s)' = Age(s)
    BY DEF Age
  <2> QED BY <1>0, <1>5, <1>6, <2>1 DEF IssuedInv, Age
<1>8. ASSUME NEW d \in Clients, Informed(d)', win'[Target(d)].refs > 0,
             stamp'[info'[d].index] = info'[d].stamp
      PROVE  Current(d)'
  <2>1. CASE /\ Informed(d) /\ info'[d].stamp = info[d].stamp /\ info'[d].index = info[d].index
             /\ win'[Target(d)].refs > 0 => win[Target(d)].refs > 0
             /\ info[d].index \notin R /\ Current(d) /\ win[Target(d)].refs > 0
                  /\ win'[Target(d)].refs > 0 => Current(d)'
    <3>1. Age(info[d].stamp) < Used /\ Age(info[d].stamp) \in Nat /\ info[d].index \in Entries
      BY <1>3, <1>4, <2>1
    <3>2. stamp'[info[d].index] = info[d].stamp
      BY <1>8, <2>1
    <3>3. info[d].index \notin R
      BY <1>0, <3>1, <3>2
    <3>4. stamp[info[d].index] = info[d].stamp /\ win[Target(d)].refs > 0
      BY <1>0, <1>8, <2>1, <3>1, <3>2, <3>3
    <3>5. Current(d)
      BY <2>1, <3>4 DEF RInv, StampInv
    <3> QED BY <1>8, <2>1, <3>3, <3>4, <3>5
  <2>2. CASE Current(d)'
    BY <2>2
  <2> QED BY <1>8, <2>1, <2>2
<1>9. \A d \in Clients : Target(d)' = Target(d)
  BY DEF Target
<1>10. StampInv'
  BY <1>8, <1>9 DEF StampInv
<1> QED BY <1>7, <1>10

(* Whether a window is the only one with a private.                        *)
LEMMA SamePrivates ==
  ASSUME \A v \in Windows : win'[v].refs > 0 <=> win[v].refs > 0
  PROVE  nrWindows' = nrWindows
<1>1. {v \in Windows : win'[v].refs > 0} = {v \in Windows : win[v].refs > 0}
  OBVIOUS
<1> QED BY <1>1 DEF nrWindows

LEMMA TwoPrivates ==
  ASSUME NEW v \in Windows, NEW w \in Windows, v # w, win[v].refs > 0, win[w].refs > 0
  PROVE  nrWindows # 1
<1> DEFINE S == {u \in Windows : win[u].refs > 0}
<1>1. v \in S /\ w \in S
  OBVIOUS
<1>2. IsFiniteSet(S)
  BY DRIAssumption, FS_Subset
<1> HIDE DEF S
<1>3. Cardinality(S \ {v}) = Cardinality(S) - 1 /\ IsFiniteSet(S \ {v})
  BY <1>1, <1>2, FS_RemoveElement
<1>4. w \in S \ {v}
  BY <1>1
<1>5. Cardinality(S \ {v}) # 0
  BY <1>3, <1>4, FS_EmptySet
<1>6. Cardinality(S) \in Nat
  BY <1>2, FS_CardinalityType
<1> QED BY <1>3, <1>5, <1>6 DEF S, nrWindows

LEMMA NoneRenewed == Facts /\ UNCHANGED <<stamp, next>> => Renews({}, 0)
<1> SUFFICES ASSUME Facts, UNCHANGED <<stamp, next>> PROVE Renews({}, 0)
  OBVIOUS
<1>1. next \in 0 .. Modulus - 1 /\ next + 0 = next
  BY DEF Facts, DriType, Stamps
<1>2. Plus(next, 0) = next
  BY <1>1, ModIs, DRIAssumption DEF Plus
<1> QED BY <1>2 DEF Renews

LEMMA AllRenewed ==
  ASSUME Facts, stamp' = ClipNotifyAllDrawables(stamp, next), next' = Plus(next, TableSize)
  PROVE  Renews(Entries, TableSize)
<1>1. DOMAIN stamp = Entries /\ Entries = 0 .. TableSize - 1 /\ TableSize \in Nat
  BY DEF Facts, DriType, Entries
<1>2. \A i \in Entries : stamp'[i] = Plus(next, i) /\ i \in Nat /\ i < TableSize
  BY <1>1 DEF ClipNotifyAllDrawables
<1> QED BY <1>2 DEF Renews

(* Every window with a user has a private.                                 *)
LEMMA UserHasPrivate ==
  ASSUME IInv, Facts, NEW c \in Clients, pc[c] \notin {"out", "dead"},
         win[Target(c)].there, doomed = None
  PROVE  win[Target(c)].refs > 0
<1>1. c \in Users(Target(c)) /\ Target(c) \in Windows /\ None \notin Windows
  BY DEF Users, Facts
<1>2. Cardinality(Users(Target(c))) <= win[Target(c)].refs
  BY <1>1 DEF IInv, RefsInv
<1>3. Cardinality(Users(Target(c))) # 0 /\ Cardinality(Users(Target(c))) \in Nat
  BY <1>1, UsersFinite, FS_EmptySet
<1>4. win[Target(c)].refs \in Nat
  BY <1>1 DEF Facts, DriType, Window
<1> QED BY <1>2, <1>3, <1>4

LEMMA NoneRenders ==
  ASSUME Facts, RInv, phase \in {"awake", "changing", "unlocking"}
  PROVE  \A d \in Clients : pc[d] \notin {"check", "render"}
<1>1. Server \in inside /\ inside \subseteq {owner} /\ Server \notin Clients
  BY DEF RInv, HardwareInv, Facts
<1> QED BY <1>1 DEF RInv, HardwareInv

LEMMA CreateStamps ==
  ASSUME IInv, Facts, Facts', RInv, UNCHANGED setup, NEW c \in Clients, CreateDrawable(c)
  PROVE  IssuedInv' /\ StampInv'
<1>w. PICK w \in Windows : w = Target(c)
  BY DEF Facts
<1>0. /\ win \in [Windows -> Window] /\ pc \in [Clients -> Places]
      /\ \A d \in Clients : Target(d) \in Windows /\ Target(d)' = Target(d)
  BY DEF Facts, DriType, ClientType, Target
<1>1. /\ phase = "awake" /\ Goes(c, "spin") /\ win[w].there /\ Used < MaxStamps
      /\ win' = [win EXCEPT ![w].refs = @ + 1,
                            ![w].index = IF win[w].refs = 0 THEN -1 ELSE @]
      /\ UNCHANGED <<table, info>>
  BY <1>w DEF CreateDrawable, MayChange
<1>2. /\ \A v \in Windows : v # w => win'[v] = win[v]
      /\ win[w].refs \in Nat /\ win'[w].refs = win[w].refs + 1
      /\ win[w].refs > 0 => win'[w].index = win[w].index
  BY <1>0, <1>1 DEF Window
<1>3. \A d \in Clients : Informed(d)' => d # c /\ Informed(d)
  BY <1>0, <1>1 DEF Informed, Goes
<1>4. \A d \in Clients : pc'[d] # "render"
  BY <1>0, <1>1, NoneRenders DEF Goes
<1>5. doomed = None
  BY <1>1 DEF IInv, RefsInv
<1>6. \A d \in Clients : Informed(d)' => (win'[Target(d)].refs > 0 => win[Target(d)].refs > 0)
  <2> SUFFICES ASSUME NEW d \in Clients, Informed(d)', win'[Target(d)].refs > 0
               PROVE  win[Target(d)].refs > 0
    OBVIOUS
  <2>1. pc[d] \notin {"out", "dead"}
    BY <1>3 DEF Informed
  <2>2. CASE Target(d) = w
    BY <1>1, <1>5, <2>1, <2>2, UserHasPrivate
  <2>3. CASE Target(d) # w
    BY <1>0, <1>2, <2>3
  <2> QED BY <2>2, <2>3
<1>7. CASE win[w].refs = 0 /\ nrWindows = 1
  <2>1. Renews(Entries, TableSize)
    BY <1>w, <1>7, AllRenewed DEF CreateDrawable
  <2>2. Used + TableSize < Modulus /\ TableSize \in Nat
    <3>1. next \in Stamps /\ setup \in Setups /\ Modulus \in Nat
      BY DRIAssumption DEF Facts, DriType
    <3>2. Used \in Nat
      BY DRIAssumption, SMTT(30) DEF Facts, DriType, Used, Stamps
    <3> QED BY <1>1, <3>1, <3>2, Room
  <2>3. \A d \in Clients : info[d].index \in Entries
    BY DEF Facts, ClientType, Info
  <2> QED BY <1>1, <1>3, <1>4, <1>6, <2>1, <2>2, <2>3, StampStep
<1>8. CASE ~(win[w].refs = 0 /\ nrWindows = 1)
  <2>1. Renews({}, 0)
    BY <1>w, <1>8, NoneRenewed DEF CreateDrawable
  <2>2. Used + 0 < Modulus
    BY DRIAssumption, SMTT(30) DEF Facts, DriType, Used, Stamps
  <2>3. ASSUME NEW d \in Clients, Informed(d), Current(d), win[Target(d)].refs > 0
        PROVE  Current(d)'
    <3>1. win'[Target(d)].index = win[Target(d)].index
      BY <1>0, <1>2, <2>3
    <3>2. ASSUME info[d].single PROVE nrWindows' = 1
      <4>1. nrWindows = 1 /\ win[w].refs > 0
        BY <1>2, <1>8, <2>3, <3>2 DEF Current
      <4>2. \A v \in Windows : win'[v].refs > 0 <=> win[v].refs > 0
        BY <1>2, <4>1
      <4> QED BY <4>1, <4>2, SamePrivates
    <3>3. info'[d] = info[d] /\ Target(d)' = Target(d)
      BY <1>0, <1>1
    <3> QED BY <2>3, <3>1, <3>2, <3>3 DEF Current
  <2> QED BY <1>1, <1>3, <1>4, <1>6, <2>1, <2>2, <2>3, StampStep
<1> QED BY <1>7, <1>8

(* A window ceases to be a drawable.                                       *)
LEMMA DeleteStamps ==
  ASSUME IInv, Facts, Facts', RInv, UNCHANGED setup, NEW w \in Windows, win[w].refs > 0, PrivDelete(w),
         Used < MaxStamps, phase = "awake",
         \A d \in Clients : /\ pc'[d] \in {pc[d], "out"}
                            /\ info'[d] = info[d] \/ pc'[d] = "out"
  PROVE  /\ IssuedInv' /\ StampInv'
         /\ Used' <= Used + TableSize /\ Used' \in Nat /\ Used \in Nat
<1>0. /\ win \in [Windows -> Window] /\ \A d \in Clients : Target(d) \in Windows /\ Target(d)' = Target(d)
      /\ next \in Stamps /\ TableSize \in Nat /\ Used \in Nat /\ Used + TableSize < Modulus /\ Used + 0 < Modulus
  <2>1. next \in Stamps /\ setup \in Setups /\ Modulus \in Nat
    BY DRIAssumption DEF Facts, DriType
  <2>2. Used \in Nat /\ Used + 0 < Modulus
    BY DRIAssumption, SMTT(30) DEF Facts, DriType, Used, Stamps
  <2>3. Used + TableSize < Modulus /\ TableSize \in Nat
    BY <2>1, <2>2, Room
  <2> QED BY <2>1, <2>2, <2>3 DEF Facts, DriType, Target
<1>1. /\ win' = [win EXCEPT ![w].refs = 0, ![w].index = -1]
      /\ \A i \in Entries : table'[i] # None => table[i] # None
  BY DEF PrivDelete
<1>2. win'[w].refs = 0 /\ \A v \in Windows : v # w => win'[v] = win[v]
  BY <1>0, <1>1 DEF Window
<1>3. \A d \in Clients : pc'[d] # "render"
  BY NoneRenders
<1>4. \A d \in Clients : Informed(d)' => Informed(d) /\ info'[d] = info[d]
  BY DEF Informed
<1>5. \A d \in Clients : win'[Target(d)].refs > 0 => win[Target(d)].refs > 0
  BY <1>0, <1>2
<1>6. ASSUME NEW d \in Clients, Informed(d)', Current(d), win[Target(d)].refs > 0, win'[Target(d)].refs > 0
      PROVE  Current(d)'
  <2>1. Target(d) # w /\ info'[d] = info[d] /\ win'[Target(d)] = win[Target(d)]
    BY <1>0, <1>2, <1>4, <1>6
  <2>2. nrWindows # 1
    BY <1>0, <1>6, <2>1, TwoPrivates
  <2> QED BY <1>0, <1>6, <2>1, <2>2 DEF Current
<1>7. PICK R \in SUBSET Entries, k \in {0, TableSize} : Renews(R, k)
  <2>1. CASE nrWindows = 2
    <3>1. Renews(Entries, TableSize)
      BY <2>1, AllRenewed DEF PrivDelete
    <3> QED BY <3>1
  <2>2. CASE nrWindows # 2
    <3>1. Renews({}, 0)
      BY <2>2, NoneRenewed DEF PrivDelete
    <3> QED BY <3>1
  <2> QED BY <2>1, <2>2
<1>8. k \in Nat /\ Used + k < Modulus
  BY <1>0
<1>9. Used' = Used + k
  BY <1>0, <1>7, <1>8, Renewal
<1>10. IssuedInv' /\ StampInv'
  BY <1>1, <1>3, <1>4, <1>5, <1>6, <1>7, <1>8, StampStep
<1> QED BY <1>0, <1>7, <1>9, <1>10

LEMMA DestroyStamps ==
  ASSUME IInv, Facts, Facts', RInv, UNCHANGED setup, NEW c \in Clients, DestroyDrawable(c)
  PROVE  IssuedInv' /\ StampInv'
<1>w. PICK w \in Windows : w = Target(c)
  BY DEF Facts
<1>0. /\ win \in [Windows -> Window] /\ pc \in [Clients -> Places] /\ info \in [Clients -> Info]
      /\ \A d \in Clients : Target(d) \in Windows /\ Target(d)' = Target(d)
  BY DEF Facts, DriType, ClientType, Target
<1>1. /\ phase = "awake" /\ pc[c] = "idle" /\ Goes(c, "out") /\ Used < MaxStamps
      /\ info' = [info EXCEPT ![c].entry = -1]
  BY DEF DestroyDrawable, MayChange
<1>2. \A d \in Clients : /\ pc'[d] \in {pc[d], "out"}
                         /\ info'[d] = info[d] \/ pc'[d] = "out"
  BY <1>0, <1>1 DEF Goes
<1>3. CASE win[w].refs = 1
  <2>1. PrivDelete(w)
    BY <1>w, <1>3 DEF DestroyDrawable
  <2> QED BY <1>1, <1>2, <1>3, <2>1, DeleteStamps
<1>4. CASE win[w].refs # 1
  <2>1. /\ win' = [win EXCEPT ![w].refs = IF win[w].there THEN @ - 1 ELSE @]
        /\ UNCHANGED <<table, stamp, next>>
    BY <1>w, <1>4 DEF DestroyDrawable
  <2>2. win[w].there => win[w].refs > 0
    <3>1. doomed = None
      BY <1>1 DEF IInv, RefsInv
    <3> QED BY <1>w, <1>1, <3>1, UserHasPrivate
  <2>3. \A v \in Windows : /\ win'[v].index = win[v].index
                           /\ win'[v].refs > 0 <=> win[v].refs > 0
    <3>1. \A v \in Windows : v # w => win'[v] = win[v]
      BY <1>0, <2>1
    <3>2. win'[w].index = win[w].index /\ win[w].refs \in Nat
          /\ win'[w].refs = IF win[w].there THEN win[w].refs - 1 ELSE win[w].refs
      BY <1>0, <2>1 DEF Window
    <3> QED BY <1>4, <2>2, <3>1, <3>2
  <2>4. Renews({}, 0) /\ Used + 0 < Modulus
    <3>1. Used + 0 < Modulus
      BY DRIAssumption, SMTT(30) DEF Facts, DriType, Used, Stamps
    <3> QED BY <2>1, <3>1, NoneRenewed
  <2>5. nrWindows' = nrWindows
    BY <2>3, SamePrivates
  <2>6. \A d \in Clients : Informed(d)' => Informed(d) /\ info'[d] = info[d]
    BY <1>2 DEF Informed
  <2>7. \A d \in Clients : Informed(d)' /\ Current(d) => Current(d)'
    BY <1>0, <2>3, <2>5, <2>6 DEF Current
  <2>8. \A d \in Clients : pc'[d] # "render"
    BY <1>1, <1>2, NoneRenders
  <2>9. \A d \in Clients : win'[Target(d)].refs > 0 => win[Target(d)].refs > 0
    BY <1>0, <2>3
  <2> QED BY <2>1, <2>4, <2>6, <2>7, <2>8, <2>9, StampStep
<1> QED BY <1>3, <1>4

(* The loading issues a stamp for the entry, or one for every entry.       *)
LEMMA LoadRenews ==
  ASSUME Facts, NEW w, Load(w), Used <= Reserve
  PROVE  /\ EntryFor \in Entries
         /\ \E R \in SUBSET Entries, k \in Nat : Used + k < Modulus /\ Renews(R, k) /\ EntryFor \in R
<1> DEFINE i == EntryFor
<1>1. i \in Entries
  BY EntryForIn DEF Facts
<1>2. TableSize \in Nat /\ Entries = 0 .. TableSize - 1 /\ next \in Stamps /\ DOMAIN stamp = Entries
      /\ stamp \in [Entries -> Stamps]
  BY DEF Facts, Entries, DriType
<1>3. Used \in Nat /\ Used + TableSize + 1 < Modulus /\ Modulus \in Nat
  <2>1. Used \in Nat /\ Modulus \in Nat
    BY <1>2, DRIAssumption, SMTT(30) DEF Used, Stamps
  <2>2. TableSize \in Nat \ {0} /\ Reserve + TableSize + 1 < Modulus /\ Cardinality(Windows) \in Nat
        /\ MaxStamps \in Nat
    BY Room DEF Facts
  <2>3. Reserve \in Int
    BY <2>2, SMTT(30) DEF Reserve
  <2> QED BY <2>1, <2>2, <2>3
<1>4. CASE table[i] # None /\ stamp[i] > Plus(next, 1)
  <2>1. stamp' = ClipNotifyAllDrawables(stamp, Plus(next, 1)) /\ next' = Plus(next, 1 + TableSize)
    BY <1>4 DEF Load
  <2>2. \A j \in Entries : j \in Nat /\ 1 + j < 1 + TableSize /\ 1 + j < Modulus
    BY <1>2, <1>3
  <2>3. \A j \in Entries : stamp'[j] = Plus(next, 1 + j)
    BY <1>2, <2>1, <2>2, PlusPlus DEF ClipNotifyAllDrawables
  <2>4. Renews(Entries, 1 + TableSize)
    BY <2>1, <2>2, <2>3 DEF Renews
  <2>5. 1 + TableSize \in Nat /\ Used + (1 + TableSize) < Modulus
    BY <1>2, <1>3
  <2> QED BY <1>1, <2>4, <2>5
<1>5. CASE ~(table[i] # None /\ stamp[i] > Plus(next, 1))
  <2>1. stamp' = [stamp EXCEPT ![i] = next] /\ next' = Plus(next, 1)
    BY <1>5 DEF Load
  <2>2. Plus(next, 0) = next
    BY <1>2, ModIs, DRIAssumption DEF Plus, Stamps
  <2>3. Renews({i}, 1)
    <3>1. stamp'[i] = Plus(next, 0) /\ \A j \in Entries \ {i} : stamp'[j] = stamp[j]
      BY <1>1, <1>2, <2>1, <2>2
    <3> QED BY <2>1, <3>1 DEF Renews
  <2>4. Used + 1 < Modulus
    BY <1>2, <1>3
  <2> QED BY <1>1, <2>3, <2>4
<1> QED BY <1>1, <1>4, <1>5

LEMMA InfoStamps ==
  ASSUME IInv, Facts, Facts', RInv, UNCHANGED setup, NEW c \in Clients, GetDrawableInfo(c)
  PROVE  IssuedInv' /\ StampInv'
<1>w. PICK w \in Windows : w = Target(c)
  BY DEF Facts
<1>0. /\ win \in [Windows -> Window] /\ pc \in [Clients -> Places] /\ info \in [Clients -> Info]
      /\ \A d \in Clients : Target(d) \in Windows /\ Target(d)' = Target(d)
      /\ None \notin Windows /\ Entries' = Entries /\ -1 \notin Entries
  BY DEF Facts, DriType, ClientType, Target, Entries, TableSize
<1>1. /\ phase = "awake" /\ win[w].refs > 0 /\ Goes(c, "spinAgain")
      /\ info' = [info EXCEPT ![c].index = win'[w].index, ![c].stamp = stamp'[win'[w].index],
                              ![c].rects = "current", ![c].single = (nrWindows = 1)]
  BY <1>w DEF GetDrawableInfo
<1>2. /\ info'[c].index = win'[w].index /\ info'[c].stamp = stamp'[win'[w].index]
      /\ info'[c].rects = "current" /\ info'[c].single = (nrWindows = 1)
      /\ \A d \in Clients : d # c => info'[d] = info[d] /\ pc'[d] = pc[d]
      /\ pc'[c] = "spinAgain"
  BY <1>0, <1>1 DEF Info, Goes
<1>3. \A d \in Clients : pc'[d] # "render"
  BY <1>1, <1>2, NoneRenders
<1>4. \A d \in Clients : d # c /\ Informed(d)' => Informed(d)
  BY <1>2 DEF Informed
<1>5. CASE win[w].index = -1
  <2>1. Load(w) /\ Used <= Reserve
    BY <1>w, <1>5 DEF GetDrawableInfo
  <2> DEFINE i == EntryFor
  <2>2. i \in Entries
    BY <2>1, LoadRenews
  <2>3. PICK R \in SUBSET Entries, k \in Nat : Used + k < Modulus /\ Renews(R, k) /\ i \in R
    BY <2>1, LoadRenews
  <2>4. /\ win' = [v \in Windows |-> IF v = w THEN [win[v] EXCEPT !.index = i]
                                     ELSE IF v = table[i] THEN [win[v] EXCEPT !.index = -1]
                                     ELSE win[v]]
        /\ table' = [table EXCEPT ![i] = w]
    BY <2>1 DEF Load
  <2> HIDE DEF i
  <2>5. /\ win'[w].index = i
        /\ \A v \in Windows : win'[v].refs = win[v].refs
        /\ \A v \in Windows : v # w /\ v # table[i] => win'[v] = win[v]
    BY <1>0, <2>4 DEF Window
  <2>6. nrWindows' = nrWindows
    BY <2>5, SamePrivates
  <2>7. \A j \in Entries \ R : table'[j] # None => table[j] # None
    BY <2>2, <2>3, <2>4 DEF Facts, DriType
  <2>8. Age(info'[c].stamp) < Used' /\ Current(c)'
    <3>1. Age(stamp'[i]) < Used'
      BY <2>3, Renewal DEF Facts, DriType
    <3>2. win'[Target(c)'].index = info'[c].index
      BY <1>w, <1>0, <1>2
    <3> QED BY <1>2, <2>5, <2>6, <3>1, <3>2 DEF Current
  <2>9. ASSUME NEW d \in Clients, d # c, Informed(d), Current(d), info[d].index \notin R,
               win[Target(d)].refs > 0
        PROVE  Current(d)'
    <3>1. info[d].index \in Entries /\ win[Target(d)].index = info[d].index
      BY <1>0, <2>9 DEF Info, Current
    <3>2. Target(d) # w
      BY <1>0, <1>5, <3>1
    <3>3. Target(d) # table[i]
      <4>1. table[i] \in Windows => win[table[i]].index = i
        BY <1>0, <2>2 DEF IInv, TableInv, TableConsistent
      <4> QED BY <1>0, <2>3, <2>9, <3>1, <4>1
    <3>4. win'[Target(d)] = win[Target(d)] /\ info'[d] = info[d]
      BY <1>0, <1>2, <2>5, <2>9, <3>2, <3>3
    <3> QED BY <1>0, <2>6, <2>9, <3>4 DEF Current
  <2>10. \A d \in Clients : Informed(d)' =>
           \/ /\ Informed(d) /\ info'[d].stamp = info[d].stamp /\ info'[d].index = info[d].index
              /\ win'[Target(d)].refs > 0 => win[Target(d)].refs > 0
              /\ info[d].index \notin R /\ Current(d) /\ win[Target(d)].refs > 0
                   /\ win'[Target(d)].refs > 0 => Current(d)'
           \/ Age(info'[d].stamp) < Used' /\ Current(d)'
    <3> SUFFICES ASSUME NEW d \in Clients, Informed(d)', d # c
                 PROVE  /\ Informed(d) /\ info'[d].stamp = info[d].stamp /\ info'[d].index = info[d].index
                        /\ win'[Target(d)].refs > 0 => win[Target(d)].refs > 0
                        /\ info[d].index \notin R /\ Current(d) /\ win[Target(d)].refs > 0
                             /\ win'[Target(d)].refs > 0 => Current(d)'
      BY <2>8
    <3>1. Informed(d) /\ info'[d] = info[d]
      BY <1>2, <1>4
    <3>2. win'[Target(d)].refs = win[Target(d)].refs
      BY <1>0, <2>5
    <3> QED BY <2>9, <3>1, <3>2
  <2> QED BY <1>3, <2>3, <2>7, <2>10, StampStep
<1>6. CASE win[w].index # -1
  <2>1. UNCHANGED <<win, table, stamp, next>>
    BY <1>w, <1>6 DEF GetDrawableInfo, dri
  <2>2. Renews({}, 0) /\ Used + 0 < Modulus
    <3>1. Used + 0 < Modulus
      BY DRIAssumption, SMTT(30) DEF Facts, DriType, Used, Stamps
    <3> QED BY <2>1, <3>1, NoneRenewed
  <2>3. nrWindows' = nrWindows
    BY <2>1, SamePrivates
  <2>4. Age(info'[c].stamp) < Used' /\ Current(c)'
    <3>1. win[w].index \in Entries /\ table[win[w].index] = w
      BY <1>0, <1>6 DEF Window, IInv, TableInv, TableConsistent
    <3>2. Age(stamp[win[w].index]) < Used
      BY <1>0, <3>1 DEF RInv, IssuedInv
    <3>3. Used' = Used
      BY <2>1 DEF Used
    <3>4. win'[Target(c)'].index = info'[c].index
      BY <1>w, <1>0, <1>2
    <3> QED BY <1>2, <2>1, <2>3, <3>2, <3>3, <3>4 DEF Current
  <2>5. \A d \in Clients : d # c /\ Informed(d)' =>
           /\ Informed(d) /\ info'[d] = info[d]
           /\ win'[Target(d)].refs > 0 => win[Target(d)].refs > 0
           /\ Current(d) => Current(d)'
    BY <1>0, <1>2, <1>4, <2>1, <2>3 DEF Current
  <2>6. \A d \in Clients : Informed(d)' =>
           \/ /\ Informed(d) /\ info'[d].stamp = info[d].stamp /\ info'[d].index = info[d].index
              /\ win'[Target(d)].refs > 0 => win[Target(d)].refs > 0
              /\ info[d].index \notin {} /\ Current(d) /\ win[Target(d)].refs > 0
                   /\ win'[Target(d)].refs > 0 => Current(d)'
           \/ Age(info'[d].stamp) < Used' /\ Current(d)'
    <3> SUFFICES ASSUME NEW d \in Clients, Informed(d)', d # c
                 PROVE  /\ Informed(d) /\ info'[d].stamp = info[d].stamp /\ info'[d].index = info[d].index
                        /\ win'[Target(d)].refs > 0 => win[Target(d)].refs > 0
                        /\ Current(d) => Current(d)'
      BY <2>4
    <3> QED BY <2>5
  <2> QED BY <1>3, <2>1, <2>2, <2>6, StampStep
<1> QED BY <1>5, <1>6

LEMMA UsedIn == Facts => Used \in Nat /\ Used + 0 < Modulus
BY DRIAssumption, SMTT(30) DEF Facts, DriType, Used, Stamps

(* The clip list of a window changes, and its stamp with it.               *)
LEMMA ClipStamps ==
  ASSUME IInv, Facts, Facts', RInv, UNCHANGED setup, NEW w \in Windows, ClipNotify(w)
  PROVE  IssuedInv' /\ StampInv' /\ ChangeInv'
<1>0. /\ \A d \in Clients : Target(d) \in Windows /\ Target(d)' = Target(d) /\ info[d] \in Info
      /\ Used \in Nat /\ TableSize' = TableSize
  BY UsedIn DEF Facts, Target, ClientType, TableSize
<1>1. /\ phase = "changing" /\ w \in change /\ change' = change \ {w}
      /\ info' = [d \in Clients |-> IF Target(d) = w THEN [info[d] EXCEPT !.rects = "old"] ELSE info[d]]
      /\ UNCHANGED <<phase, win, table, pc>>
  BY DEF ClipNotify
<1>2. /\ \A d \in Clients : info'[d].stamp = info[d].stamp /\ info'[d].index = info[d].index
      /\ \A d \in Clients : Target(d) # w => info'[d] = info[d]
  BY <1>0, <1>1 DEF Info
<1>3. \A d \in Clients : pc'[d] # "render"
  BY <1>1, NoneRenders
<1>4. \A d \in Clients : Informed(d)' => Informed(d)
  BY <1>1 DEF Informed
<1>5. /\ Cardinality(change) \in Nat /\ Cardinality(change') = Cardinality(change) - 1
      /\ Cardinality(change') \in Nat
  <2>1. IsFiniteSet(change)
    BY FS_Subset, DRIAssumption DEF Facts, ServerType
  <2>2. Cardinality(change \ {w}) = Cardinality(change) - 1 /\ IsFiniteSet(change \ {w})
    BY <1>1, <2>1, FS_RemoveElement
  <2> QED BY <1>1, <2>1, <2>2, FS_CardinalityType
<1>6. /\ TableSize \in Nat /\ Cardinality(Windows) \in Nat /\ MaxStamps \in Nat /\ Modulus \in Nat
      /\ MaxStamps + TableSize + Cardinality(Windows) < Modulus
  BY Room, DRIAssumption DEF Facts
<1>7. Used + Cardinality(change) <= MaxStamps + TableSize + Cardinality(Windows)
  BY <1>1 DEF RInv, ChangeInv
<1>8. Used + 1 < Modulus \/ win[w].refs = 0
  BY <1>0, <1>5, <1>6, <1>7
<1>9. CASE win[w].refs > 0
  <2> DEFINE R == {i \in Entries : i = win[w].index}
  <2>1. stamp' = [i \in Entries |-> IF i = win[w].index THEN next ELSE stamp[i]] /\ next' = Plus(next, 1)
    BY <1>9 DEF ClipNotify
  <2>2. Plus(next, 0) = next
    BY ModIs, DRIAssumption DEF Plus, Facts, DriType, Stamps
  <2>3. Renews(R, 1)
    <3>1. \A i \in R : stamp'[i] = Plus(next, 0)
      BY <2>1, <2>2
    <3>2. \A i \in Entries \ R : stamp'[i] = stamp[i]
      BY <2>1
    <3> HIDE DEF R
    <3> QED BY <2>1, <3>1, <3>2 DEF Renews
  <2>4. Used + 1 < Modulus
    BY <1>0, <1>5, <1>6, <1>7
  <2>5. ASSUME NEW d \in Clients, info[d].index \notin R, Current(d)
        PROVE  Current(d)'
    <3>1. win[Target(d)].index = info[d].index /\ info[d].index \in Entries
      BY <1>0, <2>5 DEF Current, Info
    <3>2. Target(d) # w
      BY <2>5, <3>1
    <3>3. nrWindows' = nrWindows
      BY <1>1, SamePrivates
    <3> QED BY <1>0, <1>1, <1>2, <2>5, <3>2, <3>3 DEF Current
  <2>6. Used' = Used + 1
    BY <2>3, <2>4, Renewal DEF Facts, DriType
  <2>7. ChangeInv'
    BY <1>0, <1>5, <1>6, <1>7, <2>6 DEF ChangeInv
  <2>8. R \in SUBSET Entries
    OBVIOUS
  <2> HIDE DEF R
  <2>9. IssuedInv' /\ StampInv'
    BY <1>1, <1>2, <1>3, <1>4, <2>3, <2>4, <2>5, <2>8, StampStep
  <2> QED BY <2>7, <2>9
<1>10. CASE ~(win[w].refs > 0)
  <2>1. UNCHANGED <<stamp, next>>
    BY <1>10 DEF ClipNotify
  <2>2. Renews({}, 0) /\ Used + 0 < Modulus /\ Used' = Used
    BY <2>1, UsedIn, NoneRenewed DEF Used
  <2>3. nrWindows' = nrWindows
    BY <1>1, SamePrivates
  <2>4. \A d \in Clients : Current(d) /\ win[Target(d)].refs > 0 => Current(d)'
    BY <1>0, <1>1, <1>2, <1>10, <2>3 DEF Current
  <2>5. ChangeInv'
    BY <1>0, <1>5, <1>6, <1>7, <2>2 DEF ChangeInv
  <2>6. IssuedInv' /\ StampInv'
    BY <1>1, <1>2, <1>3, <1>4, <2>2, <2>4, StampStep
  <2> QED BY <2>5, <2>6
<1> QED BY <1>9, <1>10

(* The table is as it was, and clients know no more than they did.         *)
LEMMA QuietStamps ==
  ASSUME Facts, Facts', RInv, UNCHANGED <<setup, table, stamp, next>>,
         \A v \in Windows : win'[v].refs = win[v].refs /\ win'[v].index = win[v].index,
         \A d \in Clients : Informed(d)' =>
           /\ Informed(d) /\ info'[d].stamp = info[d].stamp /\ info'[d].index = info[d].index
           /\ info'[d].rects = info[d].rects /\ info'[d].single = info[d].single,
         \A d \in Clients : pc'[d] = "render" =>
           pc[d] = "render" \/ (pc[d] = "check" /\ stamp[info[d].entry] = info[d].stamp)
  PROVE  IssuedInv' /\ StampInv'
<1>0. /\ \A d \in Clients : Target(d) \in Windows /\ Target(d)' = Target(d)
      /\ Entries' = Entries /\ Used' = Used
  BY DEF Facts, Target, Entries, TableSize, Used
<1>1. IssuedInv'
  BY <1>0 DEF RInv, IssuedInv, Age
<1>2. nrWindows' = nrWindows
  BY SamePrivates
<1>3. \A d \in Clients : Informed(d)' /\ Current(d) => Current(d)'
  BY <1>0, <1>2 DEF Current
<1>4. ASSUME NEW d \in Clients, pc'[d] = "render"
      PROVE  stamp'[info'[d].index] = info'[d].stamp
  <2>1. Informed(d)' /\ Informed(d)
    BY <1>4 DEF Informed
  <2>2. CASE pc[d] = "render"
    BY <2>1, <2>2 DEF RInv, StampInv
  <2>3. CASE pc[d] = "check" /\ stamp[info[d].entry] = info[d].stamp
    BY <2>1, <2>3 DEF RInv, EntryInv
  <2> QED BY <1>4, <2>2, <2>3
<1>5. ASSUME NEW d \in Clients, Informed(d)', win'[Target(d)].refs > 0,
             stamp'[info'[d].index] = info'[d].stamp
      PROVE  Current(d)'
  <2>1. Informed(d) /\ win[Target(d)].refs > 0 /\ stamp[info[d].index] = info[d].stamp
    BY <1>0, <1>5
  <2> QED BY <1>3, <1>5, <2>1 DEF RInv, StampInv
<1>6. StampInv'
  BY <1>0, <1>4, <1>5 DEF StampInv
<1> QED BY <1>1, <1>6

LEMMA DestroyWindowStamps ==
  ASSUME IInv, Facts, Facts', RInv, UNCHANGED setup, NEW w \in Windows, DestroyWindow(w)
  PROVE  IssuedInv' /\ StampInv' /\ ChangeInv'
<1>0. /\ phase = "awake" /\ phase' = "spinning" /\ Used < MaxStamps /\ UNCHANGED <<pc, info>>
      /\ (win[w].refs > 0 /\ PrivDelete(w)) \/ UNCHANGED dri
  BY DEF DestroyWindow, ValidateTree, MayChange
<1>1. change' \subseteq Windows
  BY DEF Facts, ServerType
<1>2. Cardinality(change') <= Cardinality(Windows) /\ Cardinality(change') \in Nat
  BY <1>1, FS_Subset, FS_CardinalityType, DRIAssumption
<1>3. TableSize' = TableSize /\ TableSize \in Nat /\ Cardinality(Windows) \in Nat /\ MaxStamps \in Nat
  BY Room DEF TableSize, Facts
<1>4. /\ IssuedInv' /\ StampInv'
      /\ Used' <= Used + TableSize /\ Used' \in Nat /\ Used \in Nat
  <2>1. CASE win[w].refs > 0 /\ PrivDelete(w)
    BY <1>0, <2>1, DeleteStamps
  <2>2. CASE UNCHANGED dri
    <3>1. UNCHANGED <<win, table, stamp, next>> /\ Used' = Used
      BY <2>2 DEF dri, Used
    <3>2. \A d \in Clients : pc'[d] # "render" /\ (Informed(d)' => Informed(d))
      BY <1>0, NoneRenders DEF Informed
    <3>3. IssuedInv' /\ StampInv'
      BY <1>0, <3>1, <3>2, QuietStamps
    <3> QED BY <1>3, <3>1, <3>3, UsedIn
  <2> QED BY <1>0, <2>1, <2>2
<1>5. ChangeInv'
  BY <1>0, <1>2, <1>3, <1>4 DEF ChangeInv
<1> QED BY <1>4, <1>5

(* Steps of a client that leave the table alone.                           *)
LEMMA ClientStamps ==
  ASSUME Facts, Facts', RInv, UNCHANGED setup, NEW c \in Clients,
         \/ SpinLock(c) \/ SpinUnlockTest(c) \/ SpinUnlockSwap(c) \/ LockHardware(c)
         \/ Valid(c) \/ Invalid(c) \/ UnlockHardware(c) \/ Refused(c) \/ Dies(c)
  PROVE  IssuedInv' /\ StampInv'
<1>0. pc \in [Clients -> Places] /\ info \in [Clients -> Info]
  BY DEF Facts, ClientType
<1>1. UNCHANGED <<win, table, stamp, next>>
  BY DEF SpinLock, SpinUnlockTest, SpinUnlockSwap, LockHardware, Valid, Invalid, UnlockHardware,
       Refused, Dies, dri
<1>2. PICK p \in Places :
        /\ Goes(c, p)
        /\ p \in {"spinAgain", "heldAgain", "freeingAgain", "lock", "idle", "check", "render"} => Informed(c)
        /\ p = "render" => pc[c] = "check" /\ stamp[info[c].entry] = info[c].stamp
  <2>1. CASE SpinLock(c) \/ SpinUnlockTest(c) \/ SpinUnlockSwap(c)
    <3>1. PICK p \in {"held", "heldAgain", "freeing", "freeingAgain", "ask", "lock"} :
            Goes(c, p) /\ (p \in {"heldAgain", "freeingAgain", "lock"} =>
                             pc[c] \in {"spinAgain", "heldAgain", "freeingAgain"})
      BY <2>1 DEF SpinLock, SpinUnlockTest, SpinUnlockSwap, After
    <3>2. p \in Places
      BY DEF Places
    <3> QED BY <3>1, <3>2 DEF Informed
  <2>2. CASE LockHardware(c) \/ UnlockHardware(c)
    <3>1. PICK p \in {"check", "idle"} : Goes(c, p) /\ pc[c] \in {"idle", "lock", "render"}
      BY <2>2 DEF LockHardware, UnlockHardware
    <3>2. p \in Places
      BY DEF Places
    <3> QED BY <3>1, <3>2 DEF Informed
  <2>3. CASE Valid(c)
    <3>1. Goes(c, "render") /\ pc[c] = "check" /\ stamp[info[c].entry] = info[c].stamp /\ "render" \in Places
      BY <2>3 DEF Valid, Places
    <3> QED BY <3>1 DEF Informed
  <2>4. CASE Invalid(c) \/ Refused(c) \/ Dies(c)
    <3>1. PICK p \in {"spin", "dead"} : Goes(c, p)
      BY <2>4 DEF Invalid, Refused, Dies
    <3>2. p \in Places
      BY DEF Places
    <3> QED BY <3>1, <3>2
  <2> QED BY <2>1, <2>2, <2>3, <2>4
<1>3. \A d \in Clients : Informed(d)' => Informed(d)
  BY <1>0, <1>2 DEF Informed, Goes
<1>4. \A d \in Clients : pc'[d] = "render" =>
        pc[d] = "render" \/ (pc[d] = "check" /\ stamp[info[d].entry] = info[d].stamp)
  BY <1>0, <1>2 DEF Goes
<1>5. \A d \in Clients : /\ info'[d].stamp = info[d].stamp /\ info'[d].index = info[d].index
                         /\ info'[d].rects = info[d].rects /\ info'[d].single = info[d].single
  <2>1. \/ info' = info
        \/ info' = [info EXCEPT ![c].entry = info[c].index]
    BY DEF SpinLock, SpinUnlockTest, SpinUnlockSwap, LockHardware, Valid, Invalid, UnlockHardware,
         Refused, Dies
  <2> QED BY <1>0, <2>1 DEF Info
<1> QED BY <1>1, <1>3, <1>4, <1>5, QuietStamps

(* Steps of the server that leave the table alone.                         *)
LEMMA ServerStamps ==
  ASSUME Facts, Facts', RInv, UNCHANGED setup,
         \/ Reclaim \/ WakeupHandler \/ BlockHandler \/ SpinLockServer \/ Timeout \/ Relock
         \/ PostValidateTree \/ SpinUnlockServer \/ Restructure
  PROVE  IssuedInv' /\ StampInv'
<1>1. UNCHANGED <<table, stamp, next, pc, info>>
  BY DEF Reclaim, WakeupHandler, BlockHandler, SpinLockServer, Timeout, Relock, PostValidateTree,
       SpinUnlockServer, Restructure, dri
<1>2. \A v \in Windows : win'[v].refs = win[v].refs /\ win'[v].index = win[v].index
  <2>1. CASE PostValidateTree
    BY <2>1 DEF PostValidateTree, Facts, DriType, Window
  <2>2. CASE ~PostValidateTree
    <3>1. win' = win
      BY <2>2 DEF Reclaim, WakeupHandler, BlockHandler, SpinLockServer, Timeout, Relock,
           SpinUnlockServer, Restructure, dri
    <3> QED BY <3>1
  <2> QED BY <2>1, <2>2
<1>3. \A d \in Clients : Informed(d)' => Informed(d)
  BY <1>1 DEF Informed
<1> QED BY <1>1, <1>2, <1>3, QuietStamps

(* While the server changes windows, the stamps that are left suffice.     *)
LEMMA NextChange ==
  ASSUME IInv, Facts, Facts', RInv, Next
  PROVE  ChangeInv'
<1>0. /\ setup' = setup /\ TableSize' = TableSize /\ Used \in Nat
      /\ TableSize \in Nat /\ Cardinality(Windows) \in Nat /\ MaxStamps \in Nat
  BY Room, UsedIn DEF Next, TableSize, Facts
<1>1. ASSUME NEW c \in Clients, GetDrawableInfo(c) \/ CreateDrawable(c) \/ DestroyDrawable(c)
      PROVE  ChangeInv'
  <2>1. phase' = "awake"
    BY <1>1 DEF GetDrawableInfo, CreateDrawable, DestroyDrawable
  <2> QED BY <2>1 DEF ChangeInv
<1>2. ASSUME NEW c \in Clients,
             \/ SpinLock(c) \/ SpinUnlockTest(c) \/ SpinUnlockSwap(c) \/ LockHardware(c)
             \/ Valid(c) \/ Invalid(c) \/ UnlockHardware(c) \/ Refused(c) \/ Dies(c)
      PROVE  UNCHANGED <<phase, change, next>>
  BY <1>2 DEF SpinLock, SpinUnlockTest, SpinUnlockSwap, LockHardware, Valid, Invalid, UnlockHardware,
       Refused, Dies, dri
<1>3. ASSUME \/ Reclaim \/ WakeupHandler \/ BlockHandler \/ SpinLockServer \/ Timeout \/ Relock
             \/ PostValidateTree \/ SpinUnlockServer
      PROVE  /\ UNCHANGED <<change, next>>
             /\ phase' \in {"spinning", "locking", "changing"} => phase \in {"spinning", "locking", "changing"}
  BY <1>3 DEF Reclaim, WakeupHandler, BlockHandler, SpinLockServer, Timeout, Relock,
       PostValidateTree, SpinUnlockServer, dri
<1>4. ASSUME UNCHANGED <<change, next>>,
             phase' \in {"spinning", "locking", "changing"} => phase \in {"spinning", "locking", "changing"}
      PROVE  ChangeInv'
  <2>1. Used' = Used
    BY <1>4 DEF Used
  <2> QED BY <1>0, <1>4, <2>1 DEF RInv, ChangeInv
<1>5. CASE Restructure
  <2>1. Used < MaxStamps /\ Used' = Used
    BY <1>5 DEF Restructure, MayChange, dri, Used
  <2>2. change' \subseteq Windows
    BY DEF Facts, ServerType
  <2>3. Cardinality(change') <= Cardinality(Windows) /\ Cardinality(change') \in Nat
    BY <2>2, FS_Subset, FS_CardinalityType, DRIAssumption
  <2> QED BY <1>0, <2>1, <2>3 DEF ChangeInv
<1>6. ASSUME NEW w \in Windows, ClipNotify(w) \/ DestroyWindow(w)
      PROVE  ChangeInv'
  BY <1>0, <1>6, ClipStamps, DestroyWindowStamps
<1> QED BY <1>1, <1>2, <1>3, <1>4, <1>5, <1>6 DEF Next, Moves, ServerMoves

LEMMA NextStamps ==
  ASSUME IInv, Facts, Facts', RInv, Next
  PROVE  IssuedInv' /\ StampInv'
<1>0. UNCHANGED setup
  BY DEF Next
<1>1. ASSUME NEW c \in Clients,
             Moves(c) \/ LockHardware(c) \/ CreateDrawable(c) \/ DestroyDrawable(c) \/ Dies(c)
      PROVE  IssuedInv' /\ StampInv'
  BY <1>0, <1>1, ClientStamps, InfoStamps, CreateStamps, DestroyStamps DEF Moves
<1>2. CASE Reclaim \/ ServerMoves \/ Restructure
  BY <1>0, <1>2, ServerStamps, ClipStamps DEF ServerMoves
<1>3. ASSUME NEW w \in Windows, DestroyWindow(w)
      PROVE  IssuedInv' /\ StampInv'
  BY <1>0, <1>3, DestroyWindowStamps
<1> QED BY <1>1, <1>2, <1>3 DEF Next

LEMMA RSteps == IInv /\ RInv /\ [Next]_vars => RInv'
<1> SUFFICES ASSUME IInv, RInv, [Next]_vars PROVE RInv'
  OBVIOUS
<1>1. CASE UNCHANGED vars
  <2>1. UNCHANGED <<setup, owner, inside, phase, change, win, table, stamp, next, pc, info>>
    BY <1>1 DEF vars, state, lock, dri
  <2>2. HardwareInv' /\ EntryInv'
    BY <2>1 DEF RInv, HardwareInv, EntryInv, Informed
  <2>3. Used' = Used /\ TableSize' = TableSize /\ Entries' = Entries /\ nrWindows' = nrWindows
    BY <2>1 DEF Used, TableSize, Entries, nrWindows
  <2>4. IssuedInv' /\ ChangeInv'
    BY <2>1, <2>3 DEF RInv, IssuedInv, ChangeInv, Informed, Age
  <2>5. StampInv'
    <3>1. \A d \in Clients : Informed(d)' = Informed(d) /\ Current(d)' = Current(d) /\ Target(d)' = Target(d)
      BY <2>1, <2>3 DEF Informed, Current, Target
    <3> QED BY <2>1, <3>1 DEF RInv, StampInv
  <2> QED BY <2>2, <2>4, <2>5 DEF RInv
<1>2. CASE Next
  <2>1. IInv' /\ Facts /\ HardwareInv /\ EntryInv
    BY Steps, TypeFacts DEF RInv
  <2>2. Facts'
    <3>1. IInv' => Facts'
      BY TypeFacts, PTL
    <3> QED BY <2>1, <3>1
  <2> QED BY <1>2, <2>1, <2>2, NextHardware, NextEntry, NextStamps, NextChange DEF RInv
<1> QED BY <1>1, <1>2

(* A client renders with the clip rectangles that its window has, for any  *)
(* number of clients and windows, every size of the table, and stamps that *)
(* wrap around.                                                            *)
THEOREM RenderingIsCurrent == Spec => []RenderCurrent
<1>1. RInv => RenderCurrent
  BY DEF RInv, StampInv, Informed, Current, RenderCurrent
<1>2. Init => IInv /\ RInv
  BY InitIInv, InitRInv
<1>3. IInv /\ RInv /\ [Next]_vars => (IInv /\ RInv)'
  BY Steps, RSteps
<1> QED BY <1>1, <1>2, <1>3, PTL DEF Spec
=============================================================================
