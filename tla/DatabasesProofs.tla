--------------------------- MODULE DatabasesProofs ---------------------------
(***************************************************************************)
(* Proofs about the snapshot of a project in SQLite, for any number of     *)
(* folders, priorities, environments, cases, cycles, executions, rules and *)
(* issues, of imports, and of folders moved between them; and about what   *)
(* the dashboard and the report read while a migration writes, for any     *)
(* kinds and numbers of entities, sizes of batches, phases and readings.   *)
(***************************************************************************)
EXTENDS MCStores, FiniteSetTheorems, SequenceTheorems, WellFoundedInduction, TLAPS

\* Induction on the numbers, for a set of them: the least one outside it is 0 or
\* comes after one inside.
LEMMA AllNumbers ==
    ASSUME NEW T \in SUBSET Nat, 0 \in T, \A n \in T : n + 1 \in T
    PROVE  T = Nat
<1> SUFFICES ASSUME Nat \ T # {} PROVE FALSE
  OBVIOUS
<1> DEFINE R == OpToRel(<, Nat)
<1>1. IsWellFoundedOn(R, Nat)
  BY NatLessThanWellFounded
<1>2. \A x, y \in Nat : x < y => <<x, y>> \in R
  BY DEF OpToRel
<1> HIDE DEF R
<1>3. PICK m \in Nat \ T : \A n \in Nat \ T : ~ (<<n, m>> \in R)
  BY <1>1, WFMin
<1>4. m # 0 /\ m - 1 \in Nat /\ m - 1 < m
  OBVIOUS
<1>5. m - 1 \in T
  BY <1>2, <1>3, <1>4
<1>6. m - 1 + 1 = m
  OBVIOUS
<1> QED
  BY <1>3, <1>5, <1>6

-----------------------------------------------------------------------------
(***************************************************************************)
(* What a REPLACE deletes.                                                 *)
(***************************************************************************)

\* One more round of the cascade.
Grown(db, gone) == gone \cup {k \in DOMAIN db : db[k].owners \cap gone # {}}
IsRounds(db, i, m, g) == g = [n \in 0 .. m |-> IF n = 0 THEN {i} ELSE Grown(db, g[n - 1])]

LEMMA RoundsFor ==
    ASSUME NEW db, NEW i, NEW m \in Nat
    PROVE  \E g : IsRounds(db, i, m, g)
<1> DEFINE T == {n \in Nat : \E g : IsRounds(db, i, n, g)}
<1>1. 0 \in T
  <2> DEFINE g == [n \in 0 .. 0 |-> {i}]
  <2>1. \A n \in 0 .. 0 : n = 0
    OBVIOUS
  <2>2. g = [n \in 0 .. 0 |-> IF n = 0 THEN {i} ELSE Grown(db, g[n - 1])]
    BY <2>1
  <2> QED BY <2>2 DEF IsRounds
<1>2. ASSUME NEW n \in T PROVE n + 1 \in T
  <2>1. PICK g : IsRounds(db, i, n, g)
    OBVIOUS
  <2> DEFINE h == [k \in 0 .. n + 1 |-> IF k = n + 1 THEN Grown(db, g[n]) ELSE g[k]]
  <2>2. \A k \in 0 .. n : g[k] = IF k = 0 THEN {i} ELSE Grown(db, g[k - 1])
    BY <2>1 DEF IsRounds
  <2>3. ASSUME NEW k \in 0 .. n + 1
        PROVE  h[k] = IF k = 0 THEN {i} ELSE Grown(db, h[k - 1])
    <3>1. CASE k = n + 1
      <4>1. n \in 0 .. n + 1 /\ n # n + 1 /\ k - 1 = n /\ k # 0
        BY <3>1
      <4>2. h[n] = g[n]
        BY <4>1
      <4> QED BY <3>1, <4>1, <4>2
    <3>2. CASE k # n + 1
      <4>1. k \in 0 .. n /\ h[k] = g[k]
        BY <3>2
      <4>2. k # 0 => k - 1 \in 0 .. n + 1 /\ k - 1 # n + 1
        BY <3>2
      <4>3. k # 0 => h[k - 1] = g[k - 1]
        BY <4>2
      <4> QED BY <2>2, <4>1, <4>3
    <3> QED BY <3>1, <3>2
  <2>4. h = [k \in 0 .. n + 1 |-> IF k = 0 THEN {i} ELSE Grown(db, h[k - 1])]
    <3>1. h = [k \in 0 .. n + 1 |-> h[k]]
      OBVIOUS
    <3> HIDE DEF h
    <3> QED BY <2>3, <3>1
  <2> HIDE DEF h
  <2> QED BY <2>4 DEF IsRounds
<1> HIDE DEF T
<1>3. T \in SUBSET Nat
  BY DEF T
<1>4. T = Nat
  BY <1>1, <1>2, <1>3, AllNumbers
<1> QED
  BY <1>4 DEF T

\* The rows of a cascade from i: the last of its rounds.
LastRound(db, i, N, g) ==
    /\ DeletedWith(db, i) = g[N] /\ g[0] = {i}
    /\ \A n \in 1 .. N : g[n] = Grown(db, g[n - 1])

LEMMA CascadeRounds ==
    ASSUME NEW db, NEW i, NEW N \in Nat, N = Cardinality(DOMAIN db)
    PROVE  \E g : LastRound(db, i, N, g)
<1> DEFINE g == CHOOSE g : IsRounds(db, i, N, g)
<1>1. IsRounds(db, i, N, g)
  BY RoundsFor
<1>2. DeletedWith(db, i) = g[N]
  BY DEF DeletedWith, IsRounds, Grown
<1> HIDE DEF g
<1>3. g[0] = {i} /\ \A n \in 1 .. N : g[n] = Grown(db, g[n - 1])
  <2>1. \A n \in 0 .. N : g[n] = IF n = 0 THEN {i} ELSE Grown(db, g[n - 1])
    BY <1>1 DEF IsRounds
  <2> QED BY <2>1
<1> QED
  BY <1>2, <1>3 DEF LastRound

\* No row that stays has its owner among the deleted.
Closed(db, gone) == \A k \in DOMAIN db : db[k].owners \cap gone # {} => k \in gone

LEMMA CascadeWithin ==
    ASSUME NEW db, NEW i, IsFiniteSet(DOMAIN db), NEW C, i \in C, Closed(db, C)
    PROVE  DeletedWith(db, i) \subseteq C
<1>1. PICK N \in Nat : N = Cardinality(DOMAIN db)
  BY FS_CardinalityType
<1>2. PICK g : /\ DeletedWith(db, i) = g[N] /\ g[0] = {i}
               /\ \A n \in 1 .. N : g[n] = Grown(db, g[n - 1])
  <2>1. PICK g : LastRound(db, i, N, g)
    BY <1>1, CascadeRounds
  <2> QED BY <2>1 DEF LastRound
<1> DEFINE T == {n \in Nat : n <= N => g[n] \subseteq C}
<1>3. 0 \in T
  BY <1>2
<1>4. ASSUME NEW n \in T PROVE n + 1 \in T
  <2> SUFFICES ASSUME n + 1 <= N PROVE g[n + 1] \subseteq C
    OBVIOUS
  <2>1. n \in Nat /\ n + 1 \in 1 .. N /\ n + 1 - 1 = n /\ n <= N
    BY <1>1
  <2>2. g[n] \subseteq C /\ g[n + 1] = Grown(db, g[n])
    BY <1>2, <2>1
  <2> QED BY <2>2 DEF Grown, Closed
<1> HIDE DEF T
<1>5. T \in SUBSET Nat
  BY DEF T
<1>6. N \in T
  BY <1>1, <1>3, <1>4, <1>5, AllNumbers
<1> QED
  BY <1>1, <1>2, <1>6 DEF T

\* After as many rounds as there are rows the cascade has come to its end: a round
\* that is not the last adds a row.
LEMMA CascadeClosed ==
    ASSUME NEW db, NEW i \in DOMAIN db, IsFiniteSet(DOMAIN db)
    PROVE  i \in DeletedWith(db, i) /\ Closed(db, DeletedWith(db, i))
<1>1. PICK N \in Nat : N = Cardinality(DOMAIN db)
  BY FS_CardinalityType
<1>2. PICK g : /\ DeletedWith(db, i) = g[N] /\ g[0] = {i}
               /\ \A n \in 1 .. N : g[n] = Grown(db, g[n - 1])
  <2>1. PICK g : LastRound(db, i, N, g)
    BY <1>1, CascadeRounds
  <2> QED BY <2>1 DEF LastRound
<1> DEFINE Far(n) == /\ i \in g[n] /\ g[n] \subseteq DOMAIN db
                     /\ Closed(db, g[n]) \/ Cardinality(g[n]) >= n + 1
           T == {n \in Nat : n <= N => Far(n)}
<1>3. 0 \in T
  <2>1. Cardinality({i}) = 1
    BY FS_Singleton
  <2> QED BY <1>2, <2>1
<1>4. ASSUME NEW n \in T PROVE n + 1 \in T
  <2> SUFFICES ASSUME n + 1 <= N PROVE Far(n + 1)
    OBVIOUS
  <2>1. n \in Nat /\ n + 1 \in 1 .. N /\ n + 1 - 1 = n /\ n <= N
    BY <1>1
  <2>2. Far(n)
    BY <2>1
  <2>3. g[n + 1] = Grown(db, g[n])
    BY <1>2, <2>1
  <2>4. g[n] \subseteq g[n + 1] /\ g[n + 1] \subseteq DOMAIN db
    BY <2>2, <2>3 DEF Grown
  <2>5. CASE Closed(db, g[n])
    <3>1. g[n + 1] = g[n]
      BY <2>3, <2>5 DEF Grown, Closed
    <3> QED BY <2>2, <2>5, <3>1
  <2>6. CASE ~ Closed(db, g[n])
    <3>1. PICK k \in DOMAIN db : db[k].owners \cap g[n] # {} /\ k \notin g[n]
      BY <2>6 DEF Closed
    <3>2. k \in g[n + 1]
      BY <2>3, <3>1 DEF Grown
    <3>3. IsFiniteSet(g[n + 1]) /\ IsFiniteSet(g[n])
      BY <2>2, <2>4, FS_Subset
    <3>4. Cardinality(g[n] \cup {k}) = Cardinality(g[n]) + 1
      BY <3>1, <3>3, FS_AddElement
    <3>5. Cardinality(g[n] \cup {k}) <= Cardinality(g[n + 1])
      BY <2>4, <3>2, <3>3, FS_Subset
    <3>6. Cardinality(g[n]) \in Nat /\ Cardinality(g[n + 1]) \in Nat
      BY <3>3, FS_CardinalityType
    <3>7. Cardinality(g[n]) >= n + 1
      BY <2>2, <2>6
    <3>8. Cardinality(g[n + 1]) >= n + 1 + 1
      BY <2>1, <3>4, <3>5, <3>6, <3>7
    <3> QED BY <2>2, <2>4, <3>8
  <2> QED BY <2>5, <2>6
<1> HIDE DEF T
<1>5. T \in SUBSET Nat
  BY DEF T
<1>6. N \in T
  BY <1>1, <1>3, <1>4, <1>5, AllNumbers
<1>7. Far(N)
  BY <1>1, <1>6 DEF T
<1>8. Cardinality(g[N]) <= N
  BY <1>1, <1>7, FS_Subset
<1>9. Closed(db, g[N])
  <2>1. Cardinality(g[N]) \in Nat
    BY <1>7, FS_Subset, FS_CardinalityType
  <2> QED BY <1>1, <1>7, <1>8, <2>1
<1> QED
  BY <1>2, <1>7, <1>9

-----------------------------------------------------------------------------
(***************************************************************************)
(* Replacing a row.                                                        *)
(***************************************************************************)

Gone(db, i) == IF i \in DOMAIN db THEN DeletedWith(db, i) ELSE {i}
Refs(row) == row.owners \cup row.links
RowRecords == [owners : SUBSET StoredItems, links : SUBSET StoredItems]
Database(db) ==
    /\ DOMAIN db \subseteq StoredItems /\ db \in [DOMAIN db -> RowRecords]
    /\ \A i \in DOMAIN db : Refs(db[i]) \subseteq DOMAIN db

LEMMA TablesAre ==
    /\ DOMAIN Tables = 1 .. 9
    /\ Tables[1] = {Project} /\ Tables[2] = Folders /\ Tables[3] = StoredPriorities
    /\ Tables[4] = Environments /\ Tables[5] = Cases /\ Tables[6] = Cycles
    /\ Tables[7] = Executions /\ Tables[8] = Rules /\ Tables[9] = Issues
BY DEF Tables

LEMMA StoredFinite ==
    /\ IsFiniteSet(StoredItems)
    /\ IsFiniteSet(Folders) /\ IsFiniteSet(StoredPriorities) /\ IsFiniteSet(Environments)
    /\ IsFiniteSet(Cases) /\ IsFiniteSet(Cycles) /\ IsFiniteSet(Executions)
<1>1. \A n \in 1 .. 9 : IsFiniteSet(Tables[n])
  BY TablesAre, StoreAssumption
<1>2. /\ IsFiniteSet({Project}) /\ IsFiniteSet(Folders) /\ IsFiniteSet(StoredPriorities)
      /\ IsFiniteSet(Environments) /\ IsFiniteSet(Cases) /\ IsFiniteSet(Cycles)
      /\ IsFiniteSet(Executions) /\ IsFiniteSet(Rules) /\ IsFiniteSet(Issues)
  BY <1>1, TablesAre
<1>3. /\ IsFiniteSet({Project} \cup Folders)
      /\ IsFiniteSet(StoredPriorities \cup Environments)
      /\ IsFiniteSet(Cases \cup Cycles)
      /\ IsFiniteSet(Executions \cup (Rules \cup Issues))
  BY <1>2, FS_Union
<1>4. IsFiniteSet((({Project} \cup Folders) \cup (StoredPriorities \cup Environments))
                    \cup ((Cases \cup Cycles) \cup (Executions \cup (Rules \cup Issues))))
  BY <1>3, FS_Union
<1>5. StoredItems = (({Project} \cup Folders) \cup (StoredPriorities \cup Environments))
                    \cup ((Cases \cup Cycles) \cup (Executions \cup (Rules \cup Issues)))
  BY DEF StoredItems
<1> QED
  BY <1>2, <1>4, <1>5

LEMMA TablesApart ==
    /\ Project \notin StoredEntities \cup Rules \cup Issues
    /\ StoredEntities \cap (Rules \cup Issues) = {} /\ Rules \cap Issues = {}
    /\ Folders \cap (StoredPriorities \cup Environments \cup Cases \cup Cycles \cup Executions) = {}
    /\ StoredPriorities \cap (Environments \cup Cases \cup Cycles \cup Executions) = {}
    /\ Environments \cap (Cases \cup Cycles \cup Executions) = {}
    /\ Cases \cap (Cycles \cup Executions) = {} /\ Cycles \cap Executions = {}
<1>1. \A m, n \in 1 .. 9 : m # n => Tables[m] \cap Tables[n] = {}
  BY TablesAre, StoreAssumption
<1>2. ASSUME NEW n \in 2 .. 9 PROVE Tables[n] \cap {Project} = {}
  BY <1>1, TablesAre
<1>3. ASSUME NEW n \in 3 .. 9 PROVE Tables[n] \cap Folders = {}
  BY <1>1, TablesAre
<1>4. ASSUME NEW n \in 4 .. 9 PROVE Tables[n] \cap StoredPriorities = {}
  BY <1>1, TablesAre
<1>5. ASSUME NEW n \in 5 .. 9 PROVE Tables[n] \cap Environments = {}
  BY <1>1, TablesAre
<1>6. ASSUME NEW n \in 6 .. 9 PROVE Tables[n] \cap Cases = {}
  BY <1>1, TablesAre
<1>7. ASSUME NEW n \in 7 .. 9 PROVE Tables[n] \cap Cycles = {}
  BY <1>1, TablesAre
<1>8. ASSUME NEW n \in 8 .. 9 PROVE Tables[n] \cap Executions = {}
  BY <1>1, TablesAre
<1>9. Rules \cap Issues = {}
  BY <1>1, TablesAre
<1>10. /\ Folders \cap {Project} = {} /\ StoredPriorities \cap {Project} = {}
       /\ Environments \cap {Project} = {} /\ Cases \cap {Project} = {}
       /\ Cycles \cap {Project} = {} /\ Executions \cap {Project} = {}
       /\ Rules \cap {Project} = {} /\ Issues \cap {Project} = {}
  BY <1>2, TablesAre
<1>11. /\ StoredPriorities \cap Folders = {} /\ Environments \cap Folders = {}
       /\ Cases \cap Folders = {} /\ Cycles \cap Folders = {} /\ Executions \cap Folders = {}
       /\ Rules \cap Folders = {} /\ Issues \cap Folders = {}
  BY <1>3, TablesAre
<1>12. /\ Environments \cap StoredPriorities = {} /\ Cases \cap StoredPriorities = {}
       /\ Cycles \cap StoredPriorities = {} /\ Executions \cap StoredPriorities = {}
       /\ Rules \cap StoredPriorities = {} /\ Issues \cap StoredPriorities = {}
  BY <1>4, TablesAre
<1>13. /\ Cases \cap Environments = {} /\ Cycles \cap Environments = {}
       /\ Executions \cap Environments = {}
       /\ Rules \cap Environments = {} /\ Issues \cap Environments = {}
  BY <1>5, TablesAre
<1>14. /\ Cycles \cap Cases = {} /\ Executions \cap Cases = {}
       /\ Rules \cap Cases = {} /\ Issues \cap Cases = {}
  BY <1>6, TablesAre
<1>15. /\ Executions \cap Cycles = {} /\ Rules \cap Cycles = {} /\ Issues \cap Cycles = {}
       /\ Rules \cap Executions = {} /\ Issues \cap Executions = {}
  BY <1>7, <1>8, TablesAre
<1> QED
  BY <1>9, <1>10, <1>11, <1>12, <1>13, <1>14, <1>15 DEF StoredEntities

LEMMA GoneFacts ==
    ASSUME NEW db, Database(db), NEW i
    PROVE  /\ i \in Gone(db, i)
           /\ \A k \in DOMAIN db \ Gone(db, i) : db[k].owners \cap Gone(db, i) = {}
           /\ \A C : i \in C /\ Closed(db, C) => Gone(db, i) \subseteq C
<1>1. IsFiniteSet(DOMAIN db)
  BY StoredFinite, FS_Subset DEF Database
<1>2. CASE i \in DOMAIN db
  <2>1. i \in DeletedWith(db, i) /\ Closed(db, DeletedWith(db, i))
    BY <1>1, <1>2, CascadeClosed
  <2>2. \A C : i \in C /\ Closed(db, C) => DeletedWith(db, i) \subseteq C
    BY <1>1, CascadeWithin
  <2>3. Gone(db, i) = DeletedWith(db, i)
    BY <1>2 DEF Gone
  <2> QED BY <2>1, <2>2, <2>3 DEF Closed
<1>3. CASE i \notin DOMAIN db
  <2>1. Gone(db, i) = {i}
    BY <1>3 DEF Gone
  <2>2. \A k \in DOMAIN db : db[k].owners \subseteq DOMAIN db
    BY DEF Database, Refs
  <2> QED BY <1>3, <2>1, <2>2
<1> QED
  BY <1>2, <1>3

\* What is left of the old rows, and the new one among them.
LEMMA LeftRows ==
    ASSUME NEW db, Database(db), NEW i
    PROVE  /\ DOMAIN WithoutOld(db, i) = DOMAIN db \ Gone(db, i)
           /\ \A k \in DOMAIN db \ Gone(db, i) :
                WithoutOld(db, i)[k] = [owners |-> db[k].owners, links |-> db[k].links \ Gone(db, i)]
<1> DEFINE gone == Gone(db, i)
<1>1. WithoutOld(db, i) = [k \in DOMAIN db \ gone |-> [db[k] EXCEPT !.links = @ \ gone]]
  BY DEF WithoutOld, Gone
<1>2. \A k \in DOMAIN db : db[k] \in RowRecords
  BY DEF Database
<1> HIDE DEF gone
<1>3. \A k \in DOMAIN db :
        [db[k] EXCEPT !.links = @ \ gone] = [owners |-> db[k].owners, links |-> db[k].links \ gone]
  BY <1>2 DEF RowRecords
<1>4. DOMAIN WithoutOld(db, i) = DOMAIN db \ gone
  BY <1>1
<1>5. \A k \in DOMAIN db \ gone : WithoutOld(db, i)[k] = [db[k] EXCEPT !.links = @ \ gone]
  BY <1>1
<1> QED
  BY <1>3, <1>4, <1>5 DEF gone

LEMMA ReplacedRows ==
    ASSUME NEW db, Database(db), NEW i \in StoredItems, NEW row \in RowRecords, CanReplace(db, i, row)
    PROVE  /\ Database(Replaced(db, i, row))
           /\ DOMAIN Replaced(db, i, row) = (DOMAIN db \ Gone(db, i)) \cup {i}
           /\ Replaced(db, i, row)[i] = row
           /\ \A k \in DOMAIN db \ Gone(db, i) :
                Replaced(db, i, row)[k] = [owners |-> db[k].owners, links |-> db[k].links \ Gone(db, i)]
<1> DEFINE gone == Gone(db, i)
           left == WithoutOld(db, i)
           new == Replaced(db, i, row)
<1>1. DOMAIN left = DOMAIN db \ gone
  BY LeftRows
<1>2. \A k \in DOMAIN db \ gone : left[k] = [owners |-> db[k].owners, links |-> db[k].links \ gone]
  BY LeftRows
<1>3. i \in gone /\ \A k \in DOMAIN db \ gone : db[k].owners \cap gone = {}
  BY GoneFacts
<1>4. Refs(row) \subseteq DOMAIN left
  BY DEF CanReplace, Refs
<1>5. new = [k \in DOMAIN left \cup {i} |-> IF k = i THEN row ELSE left[k]]
  BY DEF Replaced
<1> HIDE DEF gone, left, new
<1>6. DOMAIN new = (DOMAIN db \ gone) \cup {i} /\ new[i] = row
  BY <1>1, <1>5
<1>7. ASSUME NEW k \in DOMAIN db \ gone
      PROVE  new[k] = [owners |-> db[k].owners, links |-> db[k].links \ gone]
  <2>1. k # i /\ k \in DOMAIN left
    BY <1>1, <1>3
  <2> QED BY <1>2, <1>5, <2>1
<1>8. \A k \in DOMAIN db : db[k] \in RowRecords /\ Refs(db[k]) \subseteq DOMAIN db
  BY DEF Database
<1>9. DOMAIN new \subseteq StoredItems
  BY <1>6 DEF Database
<1>10. ASSUME NEW k \in DOMAIN new
       PROVE  new[k] \in RowRecords /\ Refs(new[k]) \subseteq DOMAIN new
  <2>1. CASE k = i
    BY <1>1, <1>4, <1>6, <2>1
  <2>2. CASE k # i
    <3>1. k \in DOMAIN db \ gone
      BY <1>6, <2>2
    <3>2. new[k] = [owners |-> db[k].owners, links |-> db[k].links \ gone]
      BY <1>7, <3>1
    <3>3. db[k] \in RowRecords /\ Refs(db[k]) \subseteq DOMAIN db /\ db[k].owners \cap gone = {}
      BY <1>3, <1>8, <3>1
    <3>4. new[k] \in RowRecords
      BY <3>2, <3>3 DEF RowRecords
    <3>5. Refs(new[k]) \subseteq DOMAIN db \ gone
      BY <3>2, <3>3 DEF Refs
    <3> QED BY <1>6, <3>4, <3>5
  <2> QED BY <2>1, <2>2
<1>11. new \in [DOMAIN new -> RowRecords]
  <2>1. new = [k \in DOMAIN new |-> new[k]]
    BY <1>5
  <2> QED BY <1>10, <2>1
<1>12. Database(new)
  BY <1>9, <1>10, <1>11 DEF Database
<1> QED
  BY <1>6, <1>7, <1>12 DEF new, gone

-----------------------------------------------------------------------------
(***************************************************************************)
(* The invariant of the snapshot.                                          *)
(***************************************************************************)

Layer == {Project} \cup StoredEntities
Saves == [item : StoredEntities, row : {r \in RowRecords : Refs(r) \subseteq Layer}]
Unsaved(todo) == {todo[n].item : n \in 1 .. Len(todo)}

SnapshotTypes ==
    /\ Database(rows)
    /\ parent \in [Folders -> Folders \cup {""}]
    /\ import \in [pc : {"idle", "saving", "raised", "returned"}, todo : Seq(Saves),
                   complete : BOOLEAN, ordered : BOOLEAN, runs : 0 .. MaxImports]
    /\ moves \in 0 .. MaxMoves /\ issues \subseteq Issues

\* Only an issue refers to a rule, and nothing refers to an issue.
RowsLayered ==
    /\ \A i \in DOMAIN rows \cap StoredEntities : Refs(rows[i]) \subseteq Layer
    /\ \A i \in DOMAIN rows \cap ({Project} \cup Rules) : Refs(rows[i]) = {}

\* Each save of the plan has the row as Zephyr gives it, refers to nothing that is saved
\* with it or later, and no entity is saved twice.
PlanFine(todo) ==
    /\ \A n \in 1 .. Len(todo) : todo[n].row = Current(todo[n].item)
    /\ \A m, n \in 1 .. Len(todo) : m # n => todo[m].item # todo[n].item
    /\ \A m, n \in 1 .. Len(todo) : n <= m => todo[m].item \notin Refs(todo[n].row)

\* What needs no more saving is as in Zephyr and refers to nothing that does.
Mirrors(db, todo) ==
    /\ Project \in DOMAIN db
    /\ \A i \in StoredEntities \ Unsaved(todo) :
         i \in DOMAIN db /\ db[i] = Current(i) /\ Refs(Current(i)) \cap Unsaved(todo) = {}

ImportMirrors ==
    import.complete /\ import.ordered =>
        /\ import.pc # "raised"
        /\ import.pc = "saving" => PlanFine(import.todo) /\ Mirrors(rows, import.todo)
        /\ import.pc = "returned" => Mirrors(rows, <<>>)

SnapshotInv == SnapshotTypes /\ RowsLayered /\ ImportMirrors

LEMMA NothingUnsaved == Unsaved(<<>>) = {}
BY DEF Unsaved

LEMMA SnapshotInvMeans == SnapshotInv => SnapshotSound
<1> SUFFICES ASSUME SnapshotInv PROVE SnapshotSound
  OBVIOUS
<1>1. StoreTypeOK
  <2>1. \A i \in DOMAIN rows : rows[i].owners \cup rows[i].links \subseteq StoredItems
    BY DEF SnapshotInv, SnapshotTypes, Database, RowRecords
  <2> QED BY <2>1 DEF SnapshotInv, SnapshotTypes, Database, StoreTypeOK
<1>2. ReferencesHold
  BY DEF SnapshotInv, SnapshotTypes, Database, Refs, ReferencesHold
<1>3. CompleteImportMirrors
  BY NothingUnsaved DEF SnapshotInv, ImportMirrors, Mirrors, CompleteImportMirrors
<1> QED
  BY <1>1, <1>2, <1>3 DEF SnapshotSound

LEMMA StoreBounds == MaxImports \in Nat /\ MaxMoves \in Nat /\ "" \notin Folders
BY StoreAssumption

LEMMA SnapshotInit == StoreInit => SnapshotInv
<1> SUFFICES ASSUME StoreInit PROVE SnapshotInv
  OBVIOUS
<1>1. rows \in Seq(RowRecords) /\ Len(rows) = 0 /\ DOMAIN rows = {}
  <2>1. rows = <<>>
    BY DEF StoreInit
  <2>2. rows \in Seq(RowRecords) /\ Len(rows) = 0
    BY <2>1
  <2>3. DOMAIN rows = 1 .. Len(rows)
    BY <2>2
  <2> QED BY <2>2, <2>3
<1>2. rows \in [DOMAIN rows -> RowRecords]
  BY <1>1
<1>3. SnapshotTypes
  <2>1. Database(rows)
    BY <1>1, <1>2 DEF Database
  <2>0. MaxImports \in Nat /\ MaxMoves \in Nat
    BY StoreBounds
  <2>2. parent \in [Folders -> Folders \cup {""}]
    BY DEF StoreInit
  <2>4. moves \in 0 .. MaxMoves /\ issues \subseteq Issues
    <3>1. moves = 0 /\ issues = {}
      BY DEF StoreInit
    <3> QED BY <2>0, <3>1
  <2>3. import \in [pc : {"idle", "saving", "raised", "returned"}, todo : Seq(Saves),
                    complete : BOOLEAN, ordered : BOOLEAN, runs : 0 .. MaxImports]
    <3>1. <<>> \in Seq(Saves) /\ 0 \in 0 .. MaxImports
      BY <2>0
    <3> QED BY <3>1 DEF StoreInit
  <2> QED BY <2>1, <2>2, <2>3, <2>4 DEF SnapshotTypes
<1>4. RowsLayered /\ ImportMirrors
  BY <1>1 DEF StoreInit, RowsLayered, ImportMirrors
<1> QED
  BY <1>3, <1>4 DEF SnapshotInv

\* The rows as Zephyr gives them.
LEMMA CurrentRows ==
    ASSUME SnapshotTypes
    PROVE  /\ \A f \in Folders : /\ Current(f) = FolderRow(f)
                                 /\ Refs(Current(f)) = {Project} \cup ({parent[f]} \ {""})
           /\ \A i \in StoredPriorities \cup Environments :
                Current(i) = Row({Project}, {}) /\ Refs(Current(i)) = {Project}
           /\ \A i \in Cases : /\ Current(i) = CaseRow
                               /\ Refs(Current(i)) = {Project} \cup Folders \cup StoredPriorities
           /\ \A i \in Cycles : Current(i) = CycleRow /\ Refs(Current(i)) = {Project} \cup Folders
           /\ \A i \in Executions :
                /\ Current(i) = ExecutionRow
                /\ Refs(Current(i)) = {Project} \cup Cases \cup Cycles \cup Environments
<1>1. \A f \in Folders : Current(f) = FolderRow(f)
  BY TablesApart DEF Current
<1>2. \A i \in StoredPriorities \cup Environments : Current(i) = Row({Project}, {})
  BY TablesApart DEF Current
<1>3. \A i \in Cases : Current(i) = CaseRow
  BY TablesApart DEF Current
<1>4. \A i \in Cycles : Current(i) = CycleRow
  BY TablesApart DEF Current
<1>5. \A i \in Executions : Current(i) = ExecutionRow
  BY TablesApart DEF Current
<1>6. \A o, l : Refs(Row(o, l)) = o \cup l
  BY DEF Refs, Row
<1>7. \A o : Refs(Row(o, {})) = o
  BY <1>6
<1>8. ASSUME NEW f \in Folders PROVE Refs(Current(f)) = {Project} \cup ({parent[f]} \ {""})
  BY <1>1, <1>7 DEF FolderRow
<1>9. ASSUME NEW i \in StoredPriorities \cup Environments PROVE Refs(Current(i)) = {Project}
  BY <1>2, <1>7
<1>10. ASSUME NEW i \in Cases PROVE Refs(Current(i)) = {Project} \cup Folders \cup StoredPriorities
  <2>1. Current(i) = Row({Project}, Folders \cup StoredPriorities)
    BY <1>3 DEF CaseRow
  <2>2. Refs(Current(i)) = {Project} \cup (Folders \cup StoredPriorities)
    BY <1>6, <2>1
  <2> QED BY <2>2
<1>11. ASSUME NEW i \in Cycles PROVE Refs(Current(i)) = {Project} \cup Folders
  BY <1>4, <1>6 DEF CycleRow
<1>12. ASSUME NEW i \in Executions
       PROVE  Refs(Current(i)) = {Project} \cup Cases \cup Cycles \cup Environments
  BY <1>5, <1>6 DEF ExecutionRow
<1> QED
  BY <1>1, <1>2, <1>3, <1>4, <1>5, <1>8, <1>9, <1>10, <1>11, <1>12

LEMMA CurrentTyped ==
    ASSUME SnapshotTypes
    PROVE  \A i \in StoredEntities : Current(i) \in RowRecords /\ Refs(Current(i)) \subseteq Layer
<1>1. \A f \in Folders : parent[f] \in Folders \cup {""}
  BY DEF SnapshotTypes
<1>2. ASSUME NEW i \in StoredEntities PROVE Refs(Current(i)) \subseteq Layer
  <2>1. CASE i \in Folders
    <3>1. Refs(Current(i)) = {Project} \cup ({parent[i]} \ {""})
      BY <2>1, CurrentRows
    <3> QED BY <1>1, <2>1, <3>1 DEF Layer, StoredEntities
  <2>2. CASE i \in StoredPriorities \cup Environments
    BY <2>2, CurrentRows DEF Layer
  <2>3. CASE i \in Cases
    <3>1. Refs(Current(i)) = {Project} \cup Folders \cup StoredPriorities
      BY <2>3, CurrentRows
    <3> QED BY <3>1 DEF Layer, StoredEntities
  <2>4. CASE i \in Cycles
    <3>1. Refs(Current(i)) = {Project} \cup Folders
      BY <2>4, CurrentRows
    <3> QED BY <3>1 DEF Layer, StoredEntities
  <2>5. CASE i \in Executions
    <3>1. Refs(Current(i)) = {Project} \cup Cases \cup Cycles \cup Environments
      BY <2>5, CurrentRows
    <3> QED BY <3>1 DEF Layer, StoredEntities
  <2> QED BY <2>1, <2>2, <2>3, <2>4, <2>5 DEF StoredEntities
<1>3. \A o, l : o \subseteq StoredItems /\ l \subseteq StoredItems => Row(o, l) \in RowRecords
  BY DEF Row, RowRecords
<1>4. \A f \in Folders : FolderRow(f) \in RowRecords
  BY <1>1, <1>3 DEF FolderRow, StoredItems
<1>5. /\ CaseRow \in RowRecords /\ CycleRow \in RowRecords /\ ExecutionRow \in RowRecords
      /\ Row({Project}, {}) \in RowRecords
  BY <1>3 DEF CaseRow, CycleRow, ExecutionRow, StoredItems
<1>6. ASSUME NEW i \in StoredEntities PROVE Current(i) \in RowRecords
  <2>1. CASE i \in Folders
    BY <1>4, <2>1, CurrentRows
  <2>2. CASE i \in StoredPriorities \cup Environments
    BY <1>5, <2>2, CurrentRows
  <2>3. CASE i \in Cases
    BY <1>5, <2>3, CurrentRows
  <2>4. CASE i \in Cycles
    BY <1>5, <2>4, CurrentRows
  <2>5. CASE i \in Executions
    BY <1>5, <2>5, CurrentRows
  <2> QED BY <2>1, <2>2, <2>3, <2>4, <2>5 DEF StoredEntities
<1> QED
  BY <1>2, <1>6

-----------------------------------------------------------------------------
(***************************************************************************)
(* The plan of an import.                                                  *)
(***************************************************************************)

\* s has every element of S once.
Orders(s, S) ==
    /\ s \in Seq(S) /\ S = {s[n] : n \in 1 .. Len(s)}
    /\ \A m, n \in 1 .. Len(s) : m # n => s[m] # s[n]

LEMMA InjectionOrders ==
    ASSUME NEW S, IsFiniteSet(S), NEW s \in [1 .. Cardinality(S) -> S],
           \A m, n \in 1 .. Cardinality(S) : m # n => s[m] # s[n]
    PROVE  Orders(s, S)
<1> DEFINE N == Cardinality(S)
<1>1. N \in Nat /\ IsFiniteSet(1 .. N) /\ Cardinality(1 .. N) = N
  BY FS_CardinalityType, FS_Interval
<1>2. s \in Injection(1 .. N, S)
  BY DEF Injection, IsInjective
<1>3. s \in Surjection(1 .. N, S)
  BY <1>1, <1>2, FS_Injection
<1>4. \A x \in S : \E n \in 1 .. N : s[n] = x
  BY <1>3 DEF Surjection
<1>5. s \in Seq(S) /\ Len(s) = N
  BY <1>1
<1> QED
  BY <1>4, <1>5 DEF Orders

LEMMA SetAsSequence == ASSUME NEW S, IsFiniteSet(S) PROVE Orders(SetToSeq(S), S)
<1> DEFINE N == Cardinality(S)
<1>1. \E f \in [1 .. N -> S] : \A m, n \in 1 .. N : m # n => f[m] # f[n]
  <2>1. ExistsBijection(1 .. N, S)
    BY FS_CardinalityType
  <2>2. PICK f \in Bijection(1 .. N, S) : TRUE
    BY <2>1 DEF ExistsBijection
  <2>3. f \in [1 .. N -> S] /\ \A m, n \in 1 .. N : m # n => f[m] # f[n]
    BY <2>2 DEF Bijection, Injection, IsInjective
  <2> QED BY <2>3
<1>2. \A f \in [1 .. N -> S] : IsInjective(f) <=> \A m, n \in 1 .. N : m # n => f[m] # f[n]
  BY DEF IsInjective
<1> QED
  BY <1>1, <1>2, InjectionOrders DEF SetToSeq

LEMMA AnyOrder ==
    ASSUME NEW S, IsFiniteSet(S), NEW s \in SetToSeqs(S)
    PROVE  Orders(s, S)
BY InjectionOrders DEF SetToSeqs

\* The saves of the rows of S, each as in Zephyr and in an order that can succeed.
PartOf(todo, S) == todo \in Seq(Saves) /\ PlanFine(todo) /\ Unsaved(todo) = S

LEMMA PartsFollow ==
    ASSUME NEW p, NEW q, NEW S, NEW T, PartOf(p, S), PartOf(q, T), S \cap T = {},
           \A i \in S : Refs(Current(i)) \cap T = {}
    PROVE  PartOf(p \o q, S \cup T)
<1> DEFINE k == Len(p)
           all == p \o q
<1>1. /\ p \in Seq(Saves) /\ q \in Seq(Saves) /\ k \in Nat /\ Len(q) \in Nat
      /\ all \in Seq(Saves) /\ Len(all) = k + Len(q)
      /\ \A n \in 1 .. k : all[n] = p[n]
      /\ \A n \in k + 1 .. k + Len(q) : all[n] = q[n - k] /\ n - k \in 1 .. Len(q)
      /\ \A n \in 1 .. Len(q) : all[k + n] = q[n] /\ k + n \in 1 .. k + Len(q)
      /\ 1 .. k + Len(q) = 1 .. k \cup (k + 1 .. k + Len(q))
  BY DEF PartOf
<1>2. PlanFine(p) /\ PlanFine(q) /\ Unsaved(p) = S /\ Unsaved(q) = T
  BY DEF PartOf
<1> HIDE DEF k, all
<1>3. /\ \A n \in 1 .. k : p[n].item \in S
      /\ \A n \in 1 .. Len(q) : q[n].item \in T
  BY <1>2 DEF Unsaved, k
<1>4. Unsaved(all) = S \cup T
  <2>1. ASSUME NEW n \in 1 .. Len(all) PROVE all[n].item \in S \cup T
    <3>1. CASE n \in 1 .. k
      BY <1>1, <1>3, <3>1
    <3>2. CASE n \in k + 1 .. k + Len(q)
      BY <1>1, <1>3, <3>2
    <3> QED BY <1>1, <3>1, <3>2
  <2>2. \A x \in S : \E n \in 1 .. k : p[n].item = x
    BY <1>2 DEF Unsaved, k
  <2>3. \A x \in T : \E n \in 1 .. Len(q) : q[n].item = x
    BY <1>2 DEF Unsaved
  <2>4. ASSUME NEW x \in S PROVE \E n \in 1 .. Len(all) : all[n].item = x
    <3>1. PICK n \in 1 .. k : p[n].item = x
      BY <2>2
    <3>2. n \in 1 .. Len(all) /\ all[n] = p[n]
      BY <1>1
    <3> QED BY <3>1, <3>2
  <2>5. ASSUME NEW x \in T PROVE \E n \in 1 .. Len(all) : all[n].item = x
    <3>1. PICK n \in 1 .. Len(q) : q[n].item = x
      BY <2>3
    <3>2. k + n \in 1 .. Len(all) /\ all[k + n] = q[n]
      BY <1>1
    <3> QED BY <3>1, <3>2
  <2> QED BY <2>1, <2>4, <2>5 DEF Unsaved
<1>5. PlanFine(all)
  <2>1. /\ \A n \in 1 .. k : p[n].row = Current(p[n].item)
        /\ \A m, n \in 1 .. k : m # n => p[m].item # p[n].item
        /\ \A m, n \in 1 .. k : n <= m => p[m].item \notin Refs(p[n].row)
    BY <1>2 DEF PlanFine, k
  <2>2. /\ \A n \in 1 .. Len(q) : q[n].row = Current(q[n].item)
        /\ \A m, n \in 1 .. Len(q) : m # n => q[m].item # q[n].item
        /\ \A m, n \in 1 .. Len(q) : n <= m => q[m].item \notin Refs(q[n].row)
    BY <1>2 DEF PlanFine
  <2>3. ASSUME NEW n \in 1 .. Len(all) PROVE all[n].row = Current(all[n].item)
    <3>1. CASE n \in 1 .. k
      BY <1>1, <2>1, <3>1
    <3>2. CASE n \in k + 1 .. k + Len(q)
      <4>1. all[n] = q[n - k] /\ n - k \in 1 .. Len(q)
        BY <1>1, <3>2
      <4> QED BY <2>2, <4>1
    <3> QED BY <1>1, <3>1, <3>2
  <2>4. ASSUME NEW m \in 1 .. Len(all), NEW n \in 1 .. Len(all), m # n
        PROVE  all[m].item # all[n].item
    <3>1. CASE m \in 1 .. k /\ n \in 1 .. k
      BY <1>1, <2>1, <2>4, <3>1
    <3>2. CASE m \in k + 1 .. k + Len(q) /\ n \in k + 1 .. k + Len(q)
      <4>0. k \in Int /\ m \in Int /\ n \in Int /\ m # n
        BY <1>1, <2>4
      <4>1. m - k # n - k
        BY <4>0
      <4>2. /\ all[m] = q[m - k] /\ m - k \in 1 .. Len(q)
            /\ all[n] = q[n - k] /\ n - k \in 1 .. Len(q)
        BY <1>1, <3>2
      <4>3. q[m - k].item # q[n - k].item
        BY <2>2, <4>1, <4>2
      <4> QED BY <4>2, <4>3
    <3>3. CASE m \in 1 .. k /\ n \in k + 1 .. k + Len(q)
      BY <1>1, <1>3, <3>3
    <3>4. CASE m \in k + 1 .. k + Len(q) /\ n \in 1 .. k
      BY <1>1, <1>3, <3>4
    <3> QED BY <1>1, <3>1, <3>2, <3>3, <3>4
  <2>5. ASSUME NEW m \in 1 .. Len(all), NEW n \in 1 .. Len(all), n <= m
        PROVE  all[m].item \notin Refs(all[n].row)
    <3>1. CASE m \in 1 .. k /\ n \in 1 .. k
      BY <1>1, <2>1, <2>5, <3>1
    <3>2. CASE m \in k + 1 .. k + Len(q) /\ n \in k + 1 .. k + Len(q)
      <4>1. n - k <= m - k
        BY <1>1, <2>5, <3>2
      <4>2. /\ all[m] = q[m - k] /\ m - k \in 1 .. Len(q)
            /\ all[n] = q[n - k] /\ n - k \in 1 .. Len(q)
        BY <1>1, <3>2
      <4> QED BY <2>2, <4>1, <4>2
    <3>3. CASE m \in k + 1 .. k + Len(q) /\ n \in 1 .. k
      <4>1. all[m].item \in T /\ all[n].item \in S
        BY <1>1, <1>3, <3>3
      <4>2. all[n].row = Current(all[n].item)
        BY <1>1, <2>1, <3>3
      <4> QED BY <4>1, <4>2
    <3>4. ~ (m \in 1 .. k /\ n \in k + 1 .. k + Len(q))
      BY <1>1, <2>5
    <3> QED BY <1>1, <3>1, <3>2, <3>3, <3>4
  <2> QED BY <2>3, <2>4, <2>5 DEF PlanFine
<1> QED
  BY <1>1, <1>4, <1>5 DEF PartOf, all

\* The saves of one kind but the folders.
LEMMA KindPlan ==
    ASSUME SnapshotTypes, NEW S, IsFiniteSet(S), S \subseteq StoredEntities, NEW row,
           \A i \in S : Current(i) = row, S # {} => Refs(row) \cap S = {}
    PROVE  PartOf(Plan(SetToSeq(S), row), S)
<1> DEFINE s == SetToSeq(S)
           p == Plan(s, row)
<1>1. Orders(s, S)
  BY SetAsSequence
<1> HIDE DEF s
<1>2. /\ s \in Seq(S) /\ S = {s[n] : n \in 1 .. Len(s)} /\ Len(s) \in Nat
      /\ \A m, n \in 1 .. Len(s) : m # n => s[m] # s[n]
      /\ \A n \in 1 .. Len(s) : s[n] \in S
  BY <1>1 DEF Orders
<1>3. p = [n \in 1 .. Len(s) |-> [item |-> s[n], row |-> row]]
  BY DEF Plan
<1> HIDE DEF p
<1>4. \A n \in 1 .. Len(s) : p[n].item = s[n] /\ p[n].row = row
  BY <1>3
<1>5. \A n \in 1 .. Len(s) : [item |-> s[n], row |-> row] \in Saves
  BY <1>2, CurrentTyped DEF Saves
<1>6. p \in Seq(Saves) /\ Len(p) = Len(s)
  BY <1>2, <1>3, <1>5
<1>7. PlanFine(p)
  BY <1>2, <1>4, <1>6 DEF PlanFine
<1>8. Unsaved(p) = S
  BY <1>2, <1>4, <1>6 DEF Unsaved
<1> QED
  BY <1>6, <1>7, <1>8 DEF PartOf, p, s

\* The saves of the folders.
LEMMA FoldersPlan ==
    ASSUME SnapshotTypes, NEW s \in SetToSeqs(Folders)
    PROVE  /\ FolderPlan(s) \in Seq(Saves)
           /\ ParentsFirst(s) => PartOf(FolderPlan(s), Folders)
<1> DEFINE p == FolderPlan(s)
<1>1. Orders(s, Folders)
  BY StoredFinite, AnyOrder
<1>2. /\ s \in Seq(Folders) /\ Folders = {s[n] : n \in 1 .. Len(s)} /\ Len(s) \in Nat
      /\ \A m, n \in 1 .. Len(s) : m # n => s[m] # s[n]
      /\ \A n \in 1 .. Len(s) : s[n] \in Folders
  <2>1. s \in Seq(Folders) /\ Folders = {s[n] : n \in 1 .. Len(s)}
    BY <1>1 DEF Orders
  <2>2. \A m, n \in 1 .. Len(s) : m # n => s[m] # s[n]
    BY <1>1 DEF Orders
  <2>3. Len(s) \in Nat /\ \A n \in 1 .. Len(s) : s[n] \in Folders
    BY ONLY <2>1
  <2> QED BY ONLY <2>1, <2>2, <2>3
<1>3. p = [n \in 1 .. Len(s) |-> [item |-> s[n], row |-> FolderRow(s[n])]]
  BY DEF FolderPlan
<1> HIDE DEF p
<1>4. \A n \in 1 .. Len(s) : /\ p[n].item = s[n] /\ p[n].row = Current(s[n])
                             /\ Refs(p[n].row) = {Project} \cup ({parent[s[n]]} \ {""})
  BY <1>2, <1>3, CurrentRows
<1>0. \A n \in 1 .. Len(s) : p[n].item = s[n]
  BY <1>4
<1>5. ASSUME NEW n \in 1 .. Len(s) PROVE [item |-> s[n], row |-> FolderRow(s[n])] \in Saves
  <2>1. s[n] \in StoredEntities /\ FolderRow(s[n]) = Current(s[n])
    BY <1>2, CurrentRows DEF StoredEntities
  <2> QED BY <2>1, CurrentTyped DEF Saves
<1>6. p \in Seq(Saves) /\ Len(p) = Len(s)
  BY <1>2, <1>3, <1>5
<1>7. ASSUME ParentsFirst(s) PROVE PartOf(p, Folders)
  <2>1. Unsaved(p) = Folders
    BY <1>0, <1>2, <1>6 DEF Unsaved
  <2>2. ASSUME NEW m \in 1 .. Len(s), NEW n \in 1 .. Len(s), n <= m
        PROVE  p[m].item \notin Refs(p[n].row)
    <3>1. p[m].item = s[m] /\ s[m] \in Folders /\ s[m] # Project
      BY <1>2, <1>4, TablesApart DEF StoredEntities
    <3>2. ASSUME parent[s[n]] # "" PROVE s[m] # parent[s[n]]
      <4>1. PICK l \in 1 .. n - 1 : s[l] = parent[s[n]]
        BY <1>2, <1>7, <3>2 DEF ParentsFirst
      <4>2. l \in 1 .. Len(s) /\ l # m
        <5>1. Len(s) \in Nat
          BY <1>2
        <5> QED BY <2>2, <5>1
      <4> QED BY <1>2, <4>1, <4>2
    <3> QED BY <1>4, <3>1, <3>2
  <2>3. PlanFine(p)
    <3>1. \A n \in 1 .. Len(s) : p[n].row = Current(p[n].item)
      BY <1>4
    <3>2. \A m, n \in 1 .. Len(s) : m # n => p[m].item # p[n].item
      BY <1>0, <1>2
    <3> QED BY <1>6, <2>2, <3>1, <3>2 DEF PlanFine
  <2> QED BY <1>6, <2>1, <2>3 DEF PartOf
<1> QED
  BY <1>6, <1>7 DEF p

\* The plans of the kinds that follow the folders.
LEMMA KindPlans ==
    ASSUME SnapshotTypes
    PROVE  /\ PartOf(PlanOf("priorities"), StoredPriorities)
           /\ PartOf(PlanOf("environments"), Environments)
           /\ PartOf(PlanOf("test_cases"), Cases)
           /\ PartOf(PlanOf("test_cycles"), Cycles)
           /\ PartOf(PlanOf("test_executions"), Executions)
<1>1. /\ PlanOf("priorities") = Plan(SetToSeq(StoredPriorities), Row({Project}, {}))
      /\ PlanOf("environments") = Plan(SetToSeq(Environments), Row({Project}, {}))
      /\ PlanOf("test_cases") = Plan(SetToSeq(Cases), CaseRow)
      /\ PlanOf("test_cycles") = Plan(SetToSeq(Cycles), CycleRow)
      /\ PlanOf("test_executions") = Plan(SetToSeq(Executions), ExecutionRow)
  BY DEF PlanOf
<1>2. PartOf(Plan(SetToSeq(StoredPriorities), Row({Project}, {})), StoredPriorities)
  <2>1. \A i \in StoredPriorities : Current(i) = Row({Project}, {}) /\ Refs(Current(i)) = {Project}
    BY CurrentRows
  <2>2. StoredPriorities # {} => Refs(Row({Project}, {})) \cap StoredPriorities = {}
    BY <2>1, TablesApart DEF StoredEntities
  <2> QED BY <2>1, <2>2, KindPlan, StoredFinite DEF StoredEntities
<1>3. PartOf(Plan(SetToSeq(Environments), Row({Project}, {})), Environments)
  <2>1. \A i \in Environments : Current(i) = Row({Project}, {}) /\ Refs(Current(i)) = {Project}
    BY CurrentRows
  <2>2. Environments # {} => Refs(Row({Project}, {})) \cap Environments = {}
    BY <2>1, TablesApart DEF StoredEntities
  <2> QED BY <2>1, <2>2, KindPlan, StoredFinite DEF StoredEntities
<1>4. PartOf(Plan(SetToSeq(Cases), CaseRow), Cases)
  <2>1. \A i \in Cases : /\ Current(i) = CaseRow
                         /\ Refs(Current(i)) = {Project} \cup Folders \cup StoredPriorities
    BY CurrentRows
  <2>2. Cases # {} => Refs(CaseRow) \cap Cases = {}
    BY <2>1, TablesApart DEF StoredEntities
  <2> QED BY <2>1, <2>2, KindPlan, StoredFinite DEF StoredEntities
<1>5. PartOf(Plan(SetToSeq(Cycles), CycleRow), Cycles)
  <2>1. \A i \in Cycles : Current(i) = CycleRow /\ Refs(Current(i)) = {Project} \cup Folders
    BY CurrentRows
  <2>2. Cycles # {} => Refs(CycleRow) \cap Cycles = {}
    BY <2>1, TablesApart DEF StoredEntities
  <2> QED BY <2>1, <2>2, KindPlan, StoredFinite DEF StoredEntities
<1>6. PartOf(Plan(SetToSeq(Executions), ExecutionRow), Executions)
  <2>1. \A i \in Executions : /\ Current(i) = ExecutionRow
                              /\ Refs(Current(i)) = {Project} \cup Cases \cup Cycles \cup Environments
    BY CurrentRows
  <2>2. Executions # {} => Refs(ExecutionRow) \cap Executions = {}
    BY <2>1, TablesApart DEF StoredEntities
  <2> QED BY <2>1, <2>2, KindPlan, StoredFinite DEF StoredEntities
<1> QED
  BY <1>1, <1>2, <1>3, <1>4, <1>5, <1>6

LEMMA PlanTyped ==
    ASSUME SnapshotTypes, NEW kinds, NEW s \in SetToSeqs(Folders)
    PROVE  ImportPlan(kinds, s) \in Seq(Saves)
<1> DEFINE Fetched(kind) == IF kind \in kinds THEN PlanOf(kind) ELSE <<>>
           f == IF "folders" \in kinds THEN FolderPlan(s) ELSE <<>>
<1>1. <<>> \in Seq(Saves) /\ \A p, q \in Seq(Saves) : p \o q \in Seq(Saves)
  OBVIOUS
<1>2. f \in Seq(Saves)
  BY <1>1, FoldersPlan
<1>3. /\ Fetched("priorities") \in Seq(Saves) /\ Fetched("environments") \in Seq(Saves)
      /\ Fetched("test_cases") \in Seq(Saves) /\ Fetched("test_cycles") \in Seq(Saves)
      /\ Fetched("test_executions") \in Seq(Saves)
  BY <1>1, KindPlans DEF PartOf
<1>4. ImportPlan(kinds, s) =
        f \o Fetched("priorities") \o Fetched("environments") \o Fetched("test_cases")
          \o Fetched("test_cycles") \o Fetched("test_executions")
  BY DEF ImportPlan
<1> HIDE DEF f, Fetched
<1> QED
  BY <1>1, <1>2, <1>3, <1>4

LEMMA FolderRefs ==
    ASSUME SnapshotTypes, NEW f \in Folders
    PROVE  Refs(Current(f)) \subseteq {Project} \cup Folders
<1>1. parent[f] \in Folders \cup {""}
  BY DEF SnapshotTypes
<1>2. Refs(Current(f)) = {Project} \cup ({parent[f]} \ {""})
  BY CurrentRows
<1> QED
  BY <1>1, <1>2

LEMMA WholePlan ==
    ASSUME SnapshotTypes, NEW s \in SetToSeqs(Folders), ParentsFirst(s)
    PROVE  PartOf(ImportPlan(FetchKinds, s), StoredEntities)
<1> DEFINE p1 == FolderPlan(s)
           p2 == p1 \o PlanOf("priorities")
           p3 == p2 \o PlanOf("environments")
           p4 == p3 \o PlanOf("test_cases")
           p5 == p4 \o PlanOf("test_cycles")
           p6 == p5 \o PlanOf("test_executions")
           S2 == Folders \cup StoredPriorities
           S3 == S2 \cup Environments
           S4 == S3 \cup Cases
           S5 == S4 \cup Cycles
<1>1. ImportPlan(FetchKinds, s) = p6
  BY DEF ImportPlan, FetchKinds
<1>2. ASSUME NEW i \in StoredEntities PROVE Refs(Current(i)) \cap Executions = {}
  <2>1. Executions \cap ({Project} \cup Folders \cup StoredPriorities \cup Cases \cup Cycles
                         \cup Environments) = {}
    BY TablesApart DEF StoredEntities
  <2>2. CASE i \in Folders
    BY <2>1, <2>2, FolderRefs
  <2>3. CASE i \in StoredPriorities \cup Environments
    BY <2>1, <2>3, CurrentRows
  <2>4. CASE i \in Cases
    BY <2>1, <2>4, CurrentRows
  <2>5. CASE i \in Cycles
    BY <2>1, <2>5, CurrentRows
  <2>6. CASE i \in Executions
    BY <2>1, <2>6, CurrentRows
  <2> QED BY <2>2, <2>3, <2>4, <2>5, <2>6 DEF StoredEntities
<1>3. ASSUME NEW i \in S5
      PROVE  Refs(Current(i)) \subseteq {Project} \cup Folders \cup StoredPriorities
  <2>1. CASE i \in Folders
    BY <2>1, FolderRefs
  <2>2. CASE i \in StoredPriorities \cup Environments
    BY <2>2, CurrentRows
  <2>3. CASE i \in Cases
    BY <2>3, CurrentRows
  <2>4. CASE i \in Cycles
    BY <2>4, CurrentRows
  <2> QED BY <2>1, <2>2, <2>3, <2>4
<1>4. ASSUME NEW i \in Folders PROVE Refs(Current(i)) \cap StoredPriorities = {}
  <2>1. StoredPriorities \cap ({Project} \cup Folders) = {}
    BY TablesApart DEF StoredEntities
  <2> QED BY <2>1, FolderRefs
<1>5. ({Project} \cup Folders \cup StoredPriorities) \cap (Environments \cup Cases \cup Cycles) = {}
  BY TablesApart DEF StoredEntities
<1>6. PartOf(p1, Folders)
  BY FoldersPlan
<1>7. PartOf(p2, S2)
  <2>1. Folders \cap StoredPriorities = {}
    BY TablesApart
  <2> QED BY <1>4, <1>6, <2>1, KindPlans, PartsFollow
<1> HIDE DEF p1, p2
<1>8. PartOf(p3, S3)
  <2>1. S2 \cap Environments = {}
    BY TablesApart
  <2>2. \A i \in S2 : Refs(Current(i)) \cap Environments = {}
    BY <1>3, <1>5
  <2> HIDE DEF S2
  <2> QED BY <1>7, <2>1, <2>2, KindPlans, PartsFollow
<1> HIDE DEF p3
<1>9. PartOf(p4, S4)
  <2>1. S3 \cap Cases = {}
    BY TablesApart
  <2>2. \A i \in S3 : Refs(Current(i)) \cap Cases = {}
    BY <1>3, <1>5
  <2> HIDE DEF S3
  <2> QED BY <1>8, <2>1, <2>2, KindPlans, PartsFollow
<1> HIDE DEF p4
<1>10. PartOf(p5, S5)
  <2>1. S4 \cap Cycles = {}
    BY TablesApart
  <2>2. \A i \in S4 : Refs(Current(i)) \cap Cycles = {}
    BY <1>3, <1>5
  <2> HIDE DEF S4
  <2> QED BY <1>9, <2>1, <2>2, KindPlans, PartsFollow
<1> HIDE DEF p5
<1>11. PartOf(p6, S5 \cup Executions)
  <2>1. S5 \cap Executions = {}
    BY TablesApart
  <2>2. \A i \in S5 : Refs(Current(i)) \cap Executions = {}
    BY <1>2 DEF StoredEntities
  <2> HIDE DEF S5
  <2> QED BY <1>10, <2>1, <2>2, KindPlans, PartsFollow
<1>12. S5 \cup Executions = StoredEntities
  BY DEF StoredEntities
<1> HIDE DEF S2, S3, S4, S5, p6
<1> QED
  BY <1>1, <1>11, <1>12

-----------------------------------------------------------------------------
(***************************************************************************)
(* Every step keeps the invariant.                                         *)
(***************************************************************************)

\* Rows that only refer to one another outlive the replacement of any other row.
LEMMA CascadeSpares ==
    ASSUME NEW db, Database(db), NEW i, NEW Kept, i \notin Kept,
           \A k \in Kept \cap DOMAIN db : db[k].owners \subseteq Kept
    PROVE  Gone(db, i) \cap Kept = {}
<1> DEFINE C == (StoredItems \cup {i}) \ Kept
<1>1. Closed(db, C)
  BY DEF Closed, Database
<1>2. Gone(db, i) \subseteq C
  BY <1>1, GoneFacts
<1> QED
  BY <1>2

LEMMA RowsSpared ==
    ASSUME NEW db, Database(db), NEW i \in StoredItems, NEW row \in RowRecords, CanReplace(db, i, row)
    PROVE  \A Kept : i \notin Kept /\ (\A k \in Kept \cap DOMAIN db : Refs(db[k]) \subseteq Kept) =>
             \A k \in Kept \cap DOMAIN db :
               k \in DOMAIN Replaced(db, i, row) /\ Replaced(db, i, row)[k] = db[k]
<1> DEFINE gone == Gone(db, i)
           new == Replaced(db, i, row)
<1>1. /\ DOMAIN new = (DOMAIN db \ gone) \cup {i}
      /\ \A k \in DOMAIN db \ gone :
           new[k] = [owners |-> db[k].owners, links |-> db[k].links \ gone]
  BY ReplacedRows
<1>2. \A k \in DOMAIN db : db[k] \in RowRecords
  BY DEF Database
<1>3. SUFFICES ASSUME NEW Kept, i \notin Kept, \A k \in Kept \cap DOMAIN db : Refs(db[k]) \subseteq Kept
               PROVE  \A k \in Kept \cap DOMAIN db : k \in DOMAIN new /\ new[k] = db[k]
  OBVIOUS
<1>4. gone \cap Kept = {}
  <2>1. \A k \in Kept \cap DOMAIN db : db[k].owners \subseteq Kept
    BY <1>3 DEF Refs
  <2> QED BY <1>3, <2>1, CascadeSpares
<1> HIDE DEF gone, new
<1>5. ASSUME NEW k \in Kept \cap DOMAIN db PROVE k \in DOMAIN new /\ new[k] = db[k]
  <2>1. k \in DOMAIN db \ gone
    BY <1>4
  <2>2. db[k].links \ gone = db[k].links
    BY <1>3, <1>4 DEF Refs
  <2>3. new[k] = [owners |-> db[k].owners, links |-> db[k].links]
    BY <1>1, <2>1, <2>2
  <2>4. db[k] = [owners |-> db[k].owners, links |-> db[k].links]
    BY <1>2 DEF RowRecords
  <2> QED BY <1>1, <2>1, <2>3, <2>4
<1> QED
  BY <1>5

LEMMA LayersStay ==
    ASSUME SnapshotTypes, RowsLayered, NEW i \in StoredItems, NEW row \in RowRecords,
           CanReplace(rows, i, row), i \in StoredEntities => Refs(row) \subseteq Layer,
           i \in {Project} \cup Rules => Refs(row) = {},
           rows' = Replaced(rows, i, row)
    PROVE  Database(rows)' /\ RowsLayered'
<1> DEFINE gone == Gone(rows, i)
<1>0. Database(rows)
  BY DEF SnapshotTypes
<1>1. /\ Database(rows')
      /\ DOMAIN rows' = (DOMAIN rows \ gone) \cup {i} /\ rows'[i] = row
      /\ \A k \in DOMAIN rows \ gone :
           rows'[k] = [owners |-> rows[k].owners, links |-> rows[k].links \ gone]
  BY <1>0, ReplacedRows
<1>2. Database(rows)'
  BY <1>1 DEF Database, Refs
<1> HIDE DEF gone
<1>3. ASSUME NEW k \in DOMAIN rows \ gone PROVE Refs(rows'[k]) \subseteq Refs(rows[k])
  <2>1. rows'[k] = [owners |-> rows[k].owners, links |-> rows[k].links \ gone]
    BY <1>1
  <2> QED BY <2>1 DEF Refs
<1>4. ASSUME NEW k \in DOMAIN rows' \cap StoredEntities PROVE Refs(rows'[k]) \subseteq Layer
  BY <1>1, <1>3 DEF RowsLayered
<1>5. ASSUME NEW k \in DOMAIN rows' \cap ({Project} \cup Rules) PROVE Refs(rows'[k]) = {}
  BY <1>1, <1>3 DEF RowsLayered
<1>6. RowsLayered'
  BY <1>4, <1>5 DEF RowsLayered, Refs
<1> QED
  BY <1>2, <1>6

LEMMA CurrentStays ==
    ASSUME parent' = parent
    PROVE  \A i : Current(i)' = Current(i)
BY DEF Current, FolderRow, CaseRow, CycleRow, ExecutionRow, Row

LEMMA SameImport ==
    ASSUME parent' = parent, import' = import, ImportMirrors,
           \A k \in Layer \cap DOMAIN rows : k \in DOMAIN rows' /\ rows'[k] = rows[k]
    PROVE  ImportMirrors'
<1>1. \A i : Current(i)' = Current(i)
  BY CurrentStays
<1>2. ASSUME Mirrors(rows, import.todo) PROVE Mirrors(rows, import.todo)'
  BY <1>1, <1>2 DEF Mirrors, Layer, Unsaved, Refs
<1>3. ASSUME Mirrors(rows, <<>>) PROVE Mirrors(rows, <<>>)'
  BY <1>1, <1>3 DEF Mirrors, Layer, Unsaved, Refs
<1>4. ASSUME PlanFine(import.todo) PROVE PlanFine(import.todo)'
  BY <1>1, <1>4 DEF PlanFine, Refs
<1> QED
  BY <1>2, <1>3, <1>4 DEF ImportMirrors

LEMMA RowTypes ==
    /\ \A o, l : o \subseteq StoredItems /\ l \subseteq StoredItems => Row(o, l) \in RowRecords
    /\ \A o : Refs(Row(o, {})) = o
BY DEF Row, RowRecords, Refs

LEMMA LayerCloses ==
    ASSUME RowsLayered
    PROVE  \A k \in Layer \cap DOMAIN rows : Refs(rows[k]) \subseteq Layer
BY DEF RowsLayered, Layer

\* A rule or an issue is saved.
LEMMA ValidationRowKeeps ==
    ASSUME SnapshotInv, NEW i \in Rules \cup Issues, NEW row \in RowRecords, CanReplace(rows, i, row),
           i \in Rules => Refs(row) = {}, rows' = Replaced(rows, i, row),
           parent' = parent, import' = import, moves' = moves, issues' \subseteq Issues
    PROVE  SnapshotInv'
<1>1. i \in StoredItems /\ i \notin Layer /\ i \notin StoredEntities /\ i # Project
  BY TablesApart DEF StoredItems, Layer, StoredEntities
<1>2. Database(rows)' /\ RowsLayered'
  <2>1. i \in StoredEntities => Refs(row) \subseteq Layer
    BY <1>1
  <2>2. i \in {Project} \cup Rules => Refs(row) = {}
    BY <1>1
  <2> QED BY <1>1, <2>1, <2>2, LayersStay DEF SnapshotInv
<1>3. \A k \in Layer \cap DOMAIN rows : k \in DOMAIN rows' /\ rows'[k] = rows[k]
  <2>1. Database(rows) /\ \A k \in Layer \cap DOMAIN rows : Refs(rows[k]) \subseteq Layer
    BY LayerCloses DEF SnapshotInv, SnapshotTypes
  <2> QED BY <1>1, <2>1, RowsSpared
<1>4. ImportMirrors'
  BY <1>3, SameImport DEF SnapshotInv
<1>5. SnapshotTypes'
  BY <1>2 DEF SnapshotInv, SnapshotTypes
<1> QED
  BY <1>2, <1>4, <1>5 DEF SnapshotInv

LEMMA SaveRuleKeeps ==
    ASSUME SnapshotInv, NEW r \in Rules, SaveRule(r)
    PROVE  SnapshotInv'
<1>1. Row({}, {}) \in RowRecords /\ Refs(Row({}, {})) = {}
  BY RowTypes
<1>2. CanReplace(rows, r, Row({}, {}))
  BY <1>1 DEF CanReplace, Refs
<1> QED
  BY <1>1, <1>2, ValidationRowKeeps DEF SaveRule, SnapshotInv, SnapshotTypes

LEMMA SaveIssueKeeps ==
    ASSUME SnapshotInv, NEW r \in Rules, NEW issue \in Issues, SaveIssue(issue, r)
    PROVE  SnapshotInv'
<1>1. Row({r, Project}, {}) \in RowRecords
  <2>1. {r, Project} \subseteq StoredItems
    BY DEF StoredItems
  <2> QED BY <2>1, RowTypes
<1>2. issue \notin Rules
  BY TablesApart
<1> QED
  BY <1>1, <1>2, ValidationRowKeeps DEF SaveIssue, SnapshotInv, SnapshotTypes

-----------------------------------------------------------------------------

\* The first save of a plan refers to what is saved, which its cascade spares.
LEMMA FirstOfPlan ==
    ASSUME SnapshotInv, import.todo # <<>>, PlanFine(import.todo), Mirrors(rows, import.todo)
    PROVE  LET head == Head(import.todo)
               saved == Layer \ Unsaved(import.todo)
           IN  /\ CanReplace(rows, head.item, head.row)
               /\ head.item \notin saved /\ head.row = Current(head.item)
               /\ saved \subseteq DOMAIN rows /\ Refs(head.row) \subseteq saved
               /\ \A k \in saved \cap DOMAIN rows : Refs(rows[k]) \subseteq saved
<1> DEFINE todo == import.todo
           head == Head(todo)
           saved == Layer \ Unsaved(todo)
<1>1. todo \in Seq(Saves) /\ Len(todo) \in Nat /\ 1 \in 1 .. Len(todo) /\ head = todo[1] /\ head \in Saves
  <2>1. todo \in Seq(Saves) /\ todo # <<>>
    BY DEF SnapshotInv, SnapshotTypes
  <2> HIDE DEF todo
  <2> QED BY <2>1
<1>2. head.item \in StoredEntities /\ head.row \in RowRecords /\ Refs(head.row) \subseteq Layer
  BY <1>1 DEF Saves
<1>3. head.item \in Unsaved(todo)
  BY <1>1 DEF Unsaved
<1>4. head.row = Current(head.item)
  BY <1>1 DEF PlanFine
<1>5. Refs(head.row) \cap Unsaved(todo) = {}
  BY <1>1 DEF PlanFine, Unsaved
<1>6. Project \in saved
  <2>1. Unsaved(todo) \subseteq StoredEntities
    <3>1. \A n \in 1 .. Len(todo) : todo[n] \in Saves
      BY <1>1
    <3>2. \A n \in 1 .. Len(todo) : todo[n].item \in StoredEntities
      BY <3>1 DEF Saves
    <3> QED BY <3>2 DEF Unsaved
  <2> QED BY <2>1, TablesApart DEF Layer
<1>7. saved \subseteq DOMAIN rows
  BY DEF Mirrors, Layer
<1>8. ASSUME NEW k \in saved PROVE Refs(rows[k]) \subseteq saved
  <2>1. CASE k = Project
    BY <1>7, <2>1 DEF SnapshotInv, RowsLayered
  <2>2. CASE k # Project
    <3>1. k \in StoredEntities \ Unsaved(todo)
      BY <2>2 DEF Layer
    <3>2. rows[k] = Current(k) /\ Refs(Current(k)) \cap Unsaved(todo) = {}
      BY <3>1 DEF Mirrors
    <3>3. Refs(Current(k)) \subseteq Layer
      BY <3>1, CurrentTyped DEF SnapshotInv
    <3> QED BY <3>2, <3>3
  <2> QED BY <2>1, <2>2
<1>9. CanReplace(rows, head.item, head.row)
  <2>1. Database(rows)
    BY DEF SnapshotInv, SnapshotTypes
  <2>2. \A k \in saved \cap DOMAIN rows : rows[k].owners \subseteq saved
    BY <1>8 DEF Refs
  <2>3. head.item \notin saved
    BY <1>3
  <2> HIDE DEF saved, head
  <2>4. Gone(rows, head.item) \cap saved = {}
    BY <2>1, <2>2, <2>3, CascadeSpares
  <2>5. DOMAIN WithoutOld(rows, head.item) = DOMAIN rows \ Gone(rows, head.item)
    BY <2>1, LeftRows
  <2>6. Refs(head.row) \subseteq saved
    BY <1>2, <1>5 DEF saved
  <2> QED BY <1>7, <2>4, <2>5, <2>6 DEF CanReplace, Refs
<1> QED
  BY <1>2, <1>3, <1>4, <1>5, <1>7, <1>8, <1>9

LEMMA RestOfPlan ==
    ASSUME NEW todo \in Seq(Saves), todo # <<>>, PlanFine(todo)
    PROVE  /\ PlanFine(Tail(todo)) /\ Head(todo).item \notin Unsaved(Tail(todo))
           /\ Unsaved(todo) = Unsaved(Tail(todo)) \cup {Head(todo).item}
<1> DEFINE rest == Tail(todo)
<1>1. /\ Len(todo) \in Nat \ {0} /\ Len(rest) = Len(todo) - 1 /\ Head(todo) = todo[1]
      /\ \A n \in 1 .. Len(rest) : rest[n] = todo[n + 1] /\ n + 1 \in 2 .. Len(todo)
      /\ \A n \in 2 .. Len(todo) : todo[n] = rest[n - 1] /\ n - 1 \in 1 .. Len(rest)
  OBVIOUS
<1> HIDE DEF rest
<1>2. PlanFine(rest)
  <2>1. ASSUME NEW n \in 1 .. Len(rest) PROVE rest[n].row = Current(rest[n].item)
    BY <1>1 DEF PlanFine
  <2>2. ASSUME NEW m \in 1 .. Len(rest), NEW n \in 1 .. Len(rest), m # n
        PROVE  rest[m].item # rest[n].item
    <3>1. m + 1 # n + 1 /\ m + 1 \in 1 .. Len(todo) /\ n + 1 \in 1 .. Len(todo)
      BY <1>1, <2>2
    <3> QED BY <1>1, <3>1 DEF PlanFine
  <2>3. ASSUME NEW m \in 1 .. Len(rest), NEW n \in 1 .. Len(rest), n <= m
        PROVE  rest[m].item \notin Refs(rest[n].row)
    <3>1. n + 1 <= m + 1 /\ m + 1 \in 1 .. Len(todo) /\ n + 1 \in 1 .. Len(todo)
      BY <1>1, <2>3
    <3> QED BY <1>1, <3>1 DEF PlanFine
  <2> QED BY <2>1, <2>2, <2>3 DEF PlanFine
<1>3. todo[1].item \notin Unsaved(rest)
  <2>1. ASSUME NEW n \in 1 .. Len(rest) PROVE rest[n].item # todo[1].item
    <3>1. n + 1 # 1 /\ n + 1 \in 1 .. Len(todo) /\ 1 \in 1 .. Len(todo)
      BY <1>1
    <3> QED BY <1>1, <3>1 DEF PlanFine
  <2> QED BY <2>1 DEF Unsaved
<1>4. Unsaved(todo) = Unsaved(rest) \cup {todo[1].item}
  <2>1. ASSUME NEW x \in Unsaved(todo) PROVE x \in Unsaved(rest) \cup {todo[1].item}
    <3>1. PICK n \in 1 .. Len(todo) : x = todo[n].item
      BY DEF Unsaved
    <3>2. n = 1 \/ n \in 2 .. Len(todo)
      OBVIOUS
    <3> QED BY <1>1, <3>1, <3>2 DEF Unsaved
  <2>2. ASSUME NEW x \in Unsaved(rest) PROVE x \in Unsaved(todo)
    <3>1. PICK n \in 1 .. Len(rest) : x = rest[n].item
      BY DEF Unsaved
    <3>2. rest[n] = todo[n + 1] /\ n + 1 \in 1 .. Len(todo)
      BY <1>1
    <3> QED BY <3>1, <3>2 DEF Unsaved
  <2>3. todo[1].item \in Unsaved(todo)
    BY <1>1 DEF Unsaved
  <2> QED BY <2>1, <2>2, <2>3
<1> QED
  BY <1>1, <1>2, <1>3, <1>4 DEF rest

LEMMA SaveItemKeeps ==
    ASSUME SnapshotInv, SaveItem
    PROVE  SnapshotInv'
<1> DEFINE todo == import.todo
           head == Head(import.todo)
<1>1. /\ import.pc = "saving" /\ todo # <<>> /\ parent' = parent /\ moves' = moves /\ issues' = issues
      /\ \/ /\ CanReplace(rows, head.item, head.row) /\ rows' = Replaced(rows, head.item, head.row)
            /\ import' = [import EXCEPT !.todo = Tail(@)]
         \/ /\ ~ CanReplace(rows, head.item, head.row) /\ rows' = rows
            /\ import' = [import EXCEPT !.pc = "raised"]
  BY DEF SaveItem
<1>2. todo \in Seq(Saves)
  BY DEF SnapshotInv, SnapshotTypes
<1>3. head \in Saves /\ Tail(todo) \in Seq(Saves)
  <2> HIDE DEF todo
  <2>1. Head(todo) \in Saves /\ Tail(todo) \in Seq(Saves)
    BY <1>1, <1>2
  <2> QED BY <2>1 DEF todo
<1>4. head.item \in StoredEntities /\ head.row \in RowRecords /\ Refs(head.row) \subseteq Layer
  BY <1>3 DEF Saves
<1>5. \A i : Current(i)' = Current(i)
  BY <1>1, CurrentStays
<1>6. CASE ~ CanReplace(rows, head.item, head.row)
  <2>1. rows' = rows /\ import' = [import EXCEPT !.pc = "raised"]
    BY <1>1, <1>6
  <2>2. ~ (import.complete /\ import.ordered)
    <3>1. SUFFICES ASSUME import.complete, import.ordered PROVE FALSE
      OBVIOUS
    <3>2. PlanFine(todo) /\ Mirrors(rows, todo)
      BY <1>1, <3>1 DEF SnapshotInv, ImportMirrors
    <3> QED BY <1>1, <1>6, <3>2, FirstOfPlan
  <2>3. /\ import'.complete = import.complete /\ import'.ordered = import.ordered
        /\ import' \in [pc : {"idle", "saving", "raised", "returned"}, todo : Seq(Saves),
                        complete : BOOLEAN, ordered : BOOLEAN, runs : 0 .. MaxImports]
    BY <2>1 DEF SnapshotInv, SnapshotTypes
  <2>4. SnapshotTypes' /\ RowsLayered'
    BY <1>1, <2>1, <2>3 DEF SnapshotInv, SnapshotTypes, RowsLayered, Database, Refs
  <2>5. ImportMirrors'
    BY <2>2, <2>3 DEF ImportMirrors
  <2> QED BY <2>4, <2>5 DEF SnapshotInv
<1>7. CASE CanReplace(rows, head.item, head.row)
  <2>1. rows' = Replaced(rows, head.item, head.row) /\ import' = [import EXCEPT !.todo = Tail(@)]
    BY <1>1, <1>7
  <2>2. /\ import'.complete = import.complete /\ import'.ordered = import.ordered
        /\ import'.pc = "saving" /\ import'.todo = Tail(todo)
        /\ import' \in [pc : {"idle", "saving", "raised", "returned"}, todo : Seq(Saves),
                        complete : BOOLEAN, ordered : BOOLEAN, runs : 0 .. MaxImports]
    BY <1>1, <1>3, <2>1 DEF SnapshotInv, SnapshotTypes
  <2>3. head.item \in StoredItems /\ head.item \notin {Project} \cup Rules
    BY <1>4, TablesApart DEF StoredItems, StoredEntities
  <2> HIDE DEF head
  <2>4. Database(rows)' /\ RowsLayered'
    BY <1>4, <1>7, <2>1, <2>3, LayersStay DEF SnapshotInv
  <2>5. SnapshotTypes'
    BY <1>1, <2>2, <2>4 DEF SnapshotInv, SnapshotTypes
  <2>6. ASSUME import.complete, import.ordered
        PROVE  PlanFine(import.todo)' /\ Mirrors(rows, import.todo)'
    <3> DEFINE saved == Layer \ Unsaved(todo)
               rest == Tail(todo)
    <3>1. PlanFine(todo) /\ Mirrors(rows, todo)
      BY <1>1, <2>6 DEF SnapshotInv, ImportMirrors
    <3>2. /\ head.item \notin saved /\ head.row = Current(head.item)
          /\ saved \subseteq DOMAIN rows /\ Refs(head.row) \subseteq saved
          /\ \A k \in saved \cap DOMAIN rows : Refs(rows[k]) \subseteq saved
      BY <1>1, <3>1, FirstOfPlan DEF head
    <3>3. /\ PlanFine(rest) /\ head.item \notin Unsaved(rest)
          /\ Unsaved(todo) = Unsaved(rest) \cup {head.item}
      <4> HIDE DEF todo
      <4>1. /\ PlanFine(Tail(todo)) /\ Head(todo).item \notin Unsaved(Tail(todo))
            /\ Unsaved(todo) = Unsaved(Tail(todo)) \cup {Head(todo).item}
        BY <1>1, <1>2, <3>1, RestOfPlan
      <4> QED BY <4>1 DEF head, todo
    <3>4. Database(rows)
      BY DEF SnapshotInv, SnapshotTypes
    <3> HIDE DEF saved
    <3>5. \A k \in saved \cap DOMAIN rows : k \in DOMAIN rows' /\ rows'[k] = rows[k]
      BY <1>4, <1>7, <2>1, <2>3, <3>2, <3>4, RowsSpared
    <3>6. head.item \in DOMAIN rows' /\ rows'[head.item] = head.row
      BY <2>1 DEF Replaced
    <3>7. Project \in DOMAIN rows'
      <4>1. Project \in saved
        <5>1. \A n \in 1 .. Len(todo) : todo[n] \in Saves
          BY <1>2
        <5>2. \A n \in 1 .. Len(todo) : todo[n].item \in StoredEntities
          BY <5>1 DEF Saves
        <5> QED BY <5>2, TablesApart DEF Unsaved, Layer, saved
      <4> QED BY <3>2, <3>5, <4>1
    <3>8. ASSUME NEW i \in StoredEntities \ Unsaved(rest)
          PROVE  i \in DOMAIN rows' /\ rows'[i] = Current(i) /\ Refs(Current(i)) \cap Unsaved(rest) = {}
      <4>1. CASE i = head.item
        <5>1. Refs(Current(i)) \cap Unsaved(todo) = {}
          BY <3>2, <4>1 DEF saved
        <5> QED BY <3>2, <3>3, <3>6, <4>1, <5>1
      <4>2. CASE i # head.item
        <5>1. i \in StoredEntities \ Unsaved(todo)
          BY <3>3, <4>2
        <5>2. i \in saved /\ i \in DOMAIN rows /\ rows[i] = Current(i) /\ Refs(Current(i)) \cap Unsaved(todo) = {}
          BY <3>1, <5>1 DEF Mirrors, saved, Layer
        <5> QED BY <3>3, <3>5, <5>2
      <4> QED BY <4>1, <4>2
    <3> HIDE DEF todo, rest
    <3>9. import'.todo = rest
      BY <2>2 DEF rest, todo
    <3>10. PlanFine(import.todo)'
      BY <1>5, <3>3, <3>9 DEF PlanFine, Refs
    <3>11. Mirrors(rows, import.todo)'
      BY <1>5, <3>7, <3>8, <3>9 DEF Mirrors, Unsaved, Refs
    <3> QED BY <3>10, <3>11
  <2>7. ImportMirrors'
    BY <2>2, <2>6 DEF ImportMirrors
  <2> QED BY <2>4, <2>5, <2>7 DEF SnapshotInv
<1> QED
  BY <1>6, <1>7

LEMMA EndImportKeeps ==
    ASSUME SnapshotInv, EndImport
    PROVE  SnapshotInv'
<1>1. /\ rows' = rows /\ parent' = parent /\ moves' = moves /\ issues' = issues
      /\ \/ import.pc = "saving" /\ import.todo = <<>> /\ import' = [import EXCEPT !.pc = "returned"]
         \/ import.pc \in {"raised", "returned"} /\ import' = [import EXCEPT !.pc = "idle"]
  BY DEF EndImport
<1>2. /\ import'.complete = import.complete /\ import'.ordered = import.ordered
      /\ import'.pc \in {"returned", "idle"}
      /\ import'.pc = "returned" => import.pc = "saving" /\ import.todo = <<>>
      /\ import' \in [pc : {"idle", "saving", "raised", "returned"}, todo : Seq(Saves),
                      complete : BOOLEAN, ordered : BOOLEAN, runs : 0 .. MaxImports]
  BY <1>1 DEF SnapshotInv, SnapshotTypes
<1>3. SnapshotTypes' /\ RowsLayered'
  BY <1>1, <1>2 DEF SnapshotInv, SnapshotTypes, RowsLayered, Database, Refs
<1>4. \A i : Current(i)' = Current(i)
  BY <1>1, CurrentStays
<1>5. ASSUME import.complete, import.ordered, import'.pc = "returned"
      PROVE  Mirrors(rows, <<>>)'
  <2>1. Mirrors(rows, <<>>)
    BY <1>2, <1>5 DEF SnapshotInv, ImportMirrors
  <2> QED BY <1>1, <1>4, <2>1 DEF Mirrors, Unsaved, Refs
<1>6. ImportMirrors'
  BY <1>2, <1>5 DEF ImportMirrors
<1> QED
  BY <1>3, <1>6 DEF SnapshotInv

LEMMA OneMore == ASSUME NEW a, NEW b \in Nat, a \in 0 .. b, a < b PROVE a + 1 \in 0 .. b
OBVIOUS

LEMMA MoveFolderKeeps ==
    ASSUME SnapshotInv, NEW f \in Folders, NEW to \in Folders \cup {""}, MoveFolder(f, to)
    PROVE  SnapshotInv'
<1>1. /\ rows' = rows /\ import' = import /\ issues' = issues /\ import.pc = "idle"
      /\ parent' = [parent EXCEPT ![f] = to] /\ moves' = moves + 1 /\ moves < MaxMoves
  BY DEF MoveFolder
<1>2. parent' \in [Folders -> Folders \cup {""}]
  BY <1>1 DEF SnapshotInv, SnapshotTypes
<1>3. moves' \in 0 .. MaxMoves
  <2>1. moves \in 0 .. MaxMoves
    BY DEF SnapshotInv, SnapshotTypes
  <2>2. MaxMoves \in Nat
    BY StoreBounds
  <2>3. moves' = moves + 1 /\ moves < MaxMoves
    BY <1>1
  <2> QED BY <2>1, <2>2, <2>3, OneMore
<1>4. SnapshotTypes' /\ RowsLayered'
  BY <1>1, <1>2, <1>3 DEF SnapshotInv, SnapshotTypes, RowsLayered, Database, Refs
<1>5. ImportMirrors'
  BY <1>1 DEF ImportMirrors
<1> QED
  BY <1>4, <1>5 DEF SnapshotInv

LEMMA StartImportKeeps ==
    ASSUME SnapshotInv, NEW project \in {"absent", "fetched", "failed"}, NEW kinds \in SUBSET FetchKinds,
           NEW sorted \in SetToSeqs(Folders), StartImport(project, kinds, sorted)
    PROVE  SnapshotInv'
<1> DEFINE plan == ImportPlan(kinds, sorted)
<1>1. /\ import.runs < MaxImports /\ parent' = parent /\ moves' = moves /\ issues' = issues
      /\ import' = [pc |-> "saving", todo |-> plan,
                    complete |-> project # "failed" /\ kinds = FetchKinds,
                    ordered |-> ParentsFirst(sorted), runs |-> import.runs + 1]
      /\ rows' = IF project = "fetched" \/ (project = "absent" /\ Project \notin DOMAIN rows)
                 THEN Replaced(rows, Project, Row({}, {})) ELSE rows
  BY DEF StartImport
<1>2. plan \in Seq(Saves)
  BY PlanTyped DEF SnapshotInv
<1>3. import' \in [pc : {"idle", "saving", "raised", "returned"}, todo : Seq(Saves),
                   complete : BOOLEAN, ordered : BOOLEAN, runs : 0 .. MaxImports]
  <2>1. import.runs + 1 \in 0 .. MaxImports
    <3>1. import.runs \in 0 .. MaxImports
      BY DEF SnapshotInv, SnapshotTypes
    <3>2. MaxImports \in Nat
      BY StoreBounds
    <3> QED BY <1>1, <3>1, <3>2
  <2>2. ParentsFirst(sorted) \in BOOLEAN
    BY DEF ParentsFirst
  <2> HIDE DEF plan
  <2> QED BY <1>1, <1>2, <2>1, <2>2
<1>4. Row({}, {}) \in RowRecords /\ Refs(Row({}, {})) = {} /\ Project \in StoredItems
  BY RowTypes DEF StoredItems
<1>5. CanReplace(rows, Project, Row({}, {}))
  BY <1>4 DEF CanReplace, Refs
<1>6. Database(rows)' /\ RowsLayered'
  <2>1. CASE rows' = rows
    BY <2>1 DEF SnapshotInv, SnapshotTypes, RowsLayered, Database, Refs
  <2>2. CASE rows' = Replaced(rows, Project, Row({}, {}))
    <3>1. Project \in StoredEntities => Refs(Row({}, {})) \subseteq Layer
      BY <1>4
    <3> QED BY <1>4, <1>5, <2>2, <3>1, LayersStay DEF SnapshotInv
  <2> QED BY <1>1, <2>1, <2>2
<1>7. SnapshotTypes'
  BY <1>1, <1>3, <1>6 DEF SnapshotInv, SnapshotTypes
<1>8. ASSUME import'.complete, import'.ordered
      PROVE  PlanFine(import.todo)' /\ Mirrors(rows, import.todo)'
  <2>1. project # "failed" /\ kinds = FetchKinds /\ ParentsFirst(sorted) /\ import'.todo = plan
    BY <1>1, <1>8
  <2>2. PlanFine(plan) /\ Unsaved(plan) = StoredEntities
    BY <2>1, WholePlan DEF PartOf, SnapshotInv
  <2>3. Project \in DOMAIN rows'
    <3>1. CASE rows' = rows
      <4>1. CASE Project \in DOMAIN rows
        BY <3>1, <4>1
      <4>2. CASE Project \notin DOMAIN rows
        <5>1. rows' = Replaced(rows, Project, Row({}, {}))
          BY <1>1, <2>1, <4>2
        <5> QED BY <5>1 DEF Replaced
      <4> QED BY <4>1, <4>2
    <3>2. CASE rows' = Replaced(rows, Project, Row({}, {}))
      BY <3>2 DEF Replaced
    <3> QED BY <1>1, <3>1, <3>2
  <2>4. \A i : Current(i)' = Current(i)
    BY <1>1, CurrentStays
  <2> HIDE DEF plan
  <2>5. PlanFine(import.todo)'
    BY <2>1, <2>2, <2>4 DEF PlanFine, Refs
  <2>6. Mirrors(rows, import.todo)'
    BY <2>1, <2>2, <2>3 DEF Mirrors, Unsaved
  <2> QED BY <2>5, <2>6
<1>9. ImportMirrors'
  <2>1. import'.pc = "saving"
    BY <1>1
  <2> QED BY <1>8, <2>1 DEF ImportMirrors
<1> QED
  BY <1>6, <1>7, <1>9 DEF SnapshotInv

LEMMA SnapshotStep == SnapshotInv /\ [StoreNext]_storeVars => SnapshotInv'
<1> SUFFICES ASSUME SnapshotInv, [StoreNext]_storeVars PROVE SnapshotInv'
  OBVIOUS
<1>1. CASE \E project \in {"absent", "fetched", "failed"}, kinds \in SUBSET FetchKinds :
             \E sorted \in SetToSeqs(Folders) : StartImport(project, kinds, sorted)
  BY <1>1, StartImportKeeps
<1>2. CASE SaveItem
  BY <1>2, SaveItemKeeps
<1>3. CASE EndImport
  BY <1>3, EndImportKeeps
<1>4. CASE \E f \in Folders, to \in Folders \cup {""} : MoveFolder(f, to)
  BY <1>4, MoveFolderKeeps
<1>5. CASE \E r \in Rules : SaveRule(r) \/ \E issue \in Issues : SaveIssue(issue, r)
  BY <1>5, SaveRuleKeeps, SaveIssueKeeps
<1>6. CASE UNCHANGED storeVars
  <2>1. rows' = rows /\ parent' = parent /\ import' = import /\ moves' = moves /\ issues' = issues
    BY <1>6 DEF storeVars
  <2>2. ImportMirrors'
    BY <2>1, SameImport DEF SnapshotInv
  <2>3. SnapshotTypes' /\ RowsLayered'
    BY <2>1 DEF SnapshotInv, SnapshotTypes, RowsLayered, Database, Refs
  <2> QED BY <2>2, <2>3 DEF SnapshotInv
<1> QED
  BY <1>1, <1>2, <1>3, <1>4, <1>5, <1>6 DEF StoreNext

\* DatabaseManager: the snapshot of a project in SQLite holds no reference to a row that
\* is gone, and a whole import whose folders come parents first mirrors Zephyr, whatever
\* older imports left and although its own saves delete rows.
THEOREM SnapshotIsSound == StoreSpec => []SnapshotSound
<1>1. StoreSpec => []SnapshotInv
  BY SnapshotInit, SnapshotStep, PTL DEF StoreSpec
<1> QED
  BY <1>1, SnapshotInvMeans, PTL

-----------------------------------------------------------------------------
(***************************************************************************)
(* The sum of a column.                                                    *)
(***************************************************************************)

IsTotals(s, m, g) == g = [n \in 0 .. m |-> IF n = 0 THEN 0 ELSE g[n - 1] + s[n]]

LEMMA TotalsFor ==
    ASSUME NEW s, NEW m \in Nat
    PROVE  \E g : IsTotals(s, m, g)
<1> DEFINE T == {n \in Nat : \E g : IsTotals(s, n, g)}
<1>1. 0 \in T
  <2> DEFINE g == [n \in 0 .. 0 |-> 0]
  <2>1. \A n \in 0 .. 0 : n = 0
    OBVIOUS
  <2>2. g = [n \in 0 .. 0 |-> IF n = 0 THEN 0 ELSE g[n - 1] + s[n]]
    BY <2>1
  <2> QED BY <2>2 DEF IsTotals
<1>2. ASSUME NEW n \in T PROVE n + 1 \in T
  <2>1. PICK g : IsTotals(s, n, g)
    OBVIOUS
  <2> DEFINE h == [k \in 0 .. n + 1 |-> IF k = n + 1 THEN g[n] + s[n + 1] ELSE g[k]]
  <2>2. \A k \in 0 .. n : g[k] = IF k = 0 THEN 0 ELSE g[k - 1] + s[k]
    BY <2>1 DEF IsTotals
  <2>3. ASSUME NEW k \in 0 .. n + 1
        PROVE  h[k] = IF k = 0 THEN 0 ELSE h[k - 1] + s[k]
    <3>1. CASE k = n + 1
      <4>1. n \in 0 .. n + 1 /\ n # n + 1 /\ k - 1 = n /\ k # 0
        BY <3>1
      <4>2. h[n] = g[n]
        BY <4>1
      <4> QED BY <3>1, <4>1, <4>2
    <3>2. CASE k # n + 1
      <4>1. k \in 0 .. n /\ h[k] = g[k]
        BY <3>2
      <4>2. k # 0 => k - 1 \in 0 .. n + 1 /\ k - 1 # n + 1
        BY <3>2
      <4>3. k # 0 => h[k - 1] = g[k - 1]
        BY <4>2
      <4> QED BY <2>2, <4>1, <4>3
    <3> QED BY <3>1, <3>2
  <2>4. h = [k \in 0 .. n + 1 |-> IF k = 0 THEN 0 ELSE h[k - 1] + s[k]]
    <3>1. h = [k \in 0 .. n + 1 |-> h[k]]
      OBVIOUS
    <3> HIDE DEF h
    <3> QED BY <2>3, <3>1
  <2>5. \E f : IsTotals(s, n + 1, f)
    <3> HIDE DEF h
    <3> QED BY <2>4 DEF IsTotals
  <2> QED BY <2>5
<1>3. T = Nat
  <2>1. T \in SUBSET Nat
    OBVIOUS
  <2> HIDE DEF T
  <2> QED BY <1>1, <1>2, <2>1, AllNumbers
<1> QED BY <1>3

\* The partial sums of a sequence of numbers.
Sums(s, g) == /\ g \in [0 .. Len(s) -> Nat]
              /\ g[0] = 0
              /\ \A n \in 1 .. Len(s) : g[n] = g[n - 1] + s[n]

LEMMA TotalIs ==
    ASSUME NEW s \in Seq(Nat)
    PROVE  \E g : Sums(s, g) /\ Total(s) = g[Len(s)]
<1> DEFINE g == CHOOSE f : IsTotals(s, Len(s), f)
<1>0. Len(s) \in Nat
  OBVIOUS
<1>1. IsTotals(s, Len(s), g)
  BY <1>0, TotalsFor
<1>2. Total(s) = g[Len(s)]
  BY DEF Total, IsTotals
<1> HIDE DEF g
<1>3. \A n \in 0 .. Len(s) : g[n] = IF n = 0 THEN 0 ELSE g[n - 1] + s[n]
  BY <1>1 DEF IsTotals
<1>4. \A n \in 1 .. Len(s) : n \in 0 .. Len(s) /\ n # 0 /\ n - 1 \in 0 .. Len(s) /\ s[n] \in Nat
  OBVIOUS
<1> DEFINE T == {n \in Nat : n \in 0 .. Len(s) => g[n] \in Nat}
<1>5. 0 \in T
  BY <1>3
<1>6. ASSUME NEW n \in T PROVE n + 1 \in T
  <2> SUFFICES ASSUME n + 1 \in 0 .. Len(s) PROVE g[n + 1] \in Nat
    OBVIOUS
  <2>1. n \in 0 .. Len(s) /\ n + 1 - 1 = n /\ n + 1 \in 1 .. Len(s)
    OBVIOUS
  <2>2. g[n + 1] = g[n] + s[n + 1]
    BY <1>3, <1>4, <2>1
  <2>3. g[n] \in Nat /\ s[n + 1] \in Nat
    BY <1>4, <2>1
  <2> QED BY <2>2, <2>3
<1>7. T = Nat
  <2>1. T \in SUBSET Nat
    OBVIOUS
  <2> HIDE DEF T
  <2> QED BY <1>5, <1>6, <2>1, AllNumbers
<1>8. \A n \in 0 .. Len(s) : g[n] \in Nat
  BY <1>7
<1>9. g \in [0 .. Len(s) -> Nat]
  BY <1>1, <1>8 DEF IsTotals
<1>10. g[0] = 0 /\ \A n \in 1 .. Len(s) : g[n] = g[n - 1] + s[n]
  BY <1>0, <1>3, <1>4
<1> QED BY <1>2, <1>9, <1>10 DEF Sums

LEMMA TotalNat ==
    ASSUME NEW s \in Seq(Nat)
    PROVE  Total(s) \in Nat
<1>1. PICK g : Sums(s, g) /\ Total(s) = g[Len(s)]
  BY TotalIs
<1> QED BY <1>1 DEF Sums

\* Sums of the first numbers compare as the numbers do.
LEMMA SumsCompare ==
    ASSUME NEW s \in Seq(Nat), NEW r \in Seq(Nat), NEW g, NEW h, Sums(s, g), Sums(r, h),
           NEW m \in Nat, m <= Len(s), m <= Len(r), \A n \in 1 .. m : s[n] <= r[n]
    PROVE  \A n \in 0 .. m : g[n] <= h[n]
<1> DEFINE T == {n \in Nat : n \in 0 .. m => g[n] <= h[n]}
<1>1. 0 \in T
  BY DEF Sums
<1>2. ASSUME NEW n \in T PROVE n + 1 \in T
  <2> SUFFICES ASSUME n + 1 \in 0 .. m PROVE g[n + 1] <= h[n + 1]
    OBVIOUS
  <2>1. n \in 0 .. m /\ n + 1 - 1 = n /\ n + 1 \in 1 .. Len(s) /\ n + 1 \in 1 .. Len(r)
        /\ n + 1 \in 1 .. m /\ n \in 0 .. Len(s) /\ n \in 0 .. Len(r)
    OBVIOUS
  <2>2. g[n + 1] = g[n] + s[n + 1] /\ h[n + 1] = h[n] + r[n + 1]
    <3> DEFINE k == n + 1
    <3>1. k - 1 = n /\ k \in 1 .. Len(s) /\ k \in 1 .. Len(r)
      BY <2>1
    <3> HIDE DEF k
    <3>2. g[k] = g[k - 1] + s[k]
      BY <3>1 DEF Sums
    <3>3. h[k] = h[k - 1] + r[k]
      BY <3>1 DEF Sums
    <3> QED BY <3>1, <3>2, <3>3 DEF k
  <2>3. g[n] \in Nat /\ h[n] \in Nat
    BY <2>1 DEF Sums
  <2>4. s[n + 1] \in Nat /\ r[n + 1] \in Nat
    BY <2>1
  <2>5. g[n] <= h[n]
    BY <2>1
  <2>6. s[n + 1] <= r[n + 1]
    BY <2>1
  <2>7. \A a, b, c, d \in Nat : a <= b /\ c <= d => a + c <= b + d
    OBVIOUS
  <2>8. g[n] + s[n + 1] <= h[n] + r[n + 1]
    BY <2>3, <2>4, <2>5, <2>6, <2>7
  <2> QED BY <2>2, <2>8
<1>3. T = Nat
  <2>1. T \in SUBSET Nat
    OBVIOUS
  <2> HIDE DEF T
  <2> QED BY <1>1, <1>2, <2>1, AllNumbers
<1> QED BY <1>3

LEMMA TotalCompare ==
    ASSUME NEW s \in Seq(Nat), NEW r \in Seq(Nat), Len(s) = Len(r),
           \A n \in 1 .. Len(s) : s[n] <= r[n]
    PROVE  Total(s) <= Total(r)
<1>1. PICK g : Sums(s, g) /\ Total(s) = g[Len(s)]
  BY TotalIs
<1>2. PICK h : Sums(r, h) /\ Total(r) = h[Len(r)]
  BY TotalIs
<1>3. Len(s) \in Nat /\ Len(s) \in 0 .. Len(s) /\ Len(s) <= Len(s) /\ Len(s) <= Len(r)
  OBVIOUS
<1>4. \A n \in 0 .. Len(s) : g[n] <= h[n]
  BY <1>1, <1>2, <1>3, SumsCompare
<1> QED BY <1>1, <1>2, <1>3, <1>4

\* Sums of the same numbers are the same.
LEMMA SumsAgree ==
    ASSUME NEW s \in Seq(Nat), NEW r \in Seq(Nat), NEW g, NEW h, Sums(s, g), Sums(r, h),
           NEW m \in Nat, m <= Len(s), m <= Len(r), \A n \in 1 .. m : s[n] = r[n]
    PROVE  g[m] = h[m]
<1>1. \A n \in 1 .. m : s[n] \in Nat /\ r[n] \in Nat
  OBVIOUS
<1>2. \A n \in 1 .. m : s[n] <= r[n] /\ r[n] <= s[n]
  BY <1>1
<1>3. \A n \in 0 .. m : g[n] <= h[n]
  BY <1>2, SumsCompare
<1>4. \A n \in 0 .. m : h[n] <= g[n]
  BY <1>2, SumsCompare
<1>5. m \in 0 .. m /\ m \in 0 .. Len(s) /\ m \in 0 .. Len(r)
  OBVIOUS
<1>6. g[m] \in Nat /\ h[m] \in Nat
  BY <1>5 DEF Sums
<1> QED BY <1>3, <1>4, <1>5, <1>6

LEMMA TotalEmpty == Total(<< >>) = 0
<1>1. << >> \in Seq(Nat) /\ Len(<< >>) = 0
  OBVIOUS
<1>2. PICK g : Sums(<< >>, g) /\ Total(<< >>) = g[Len(<< >>)]
  BY <1>1, TotalIs
<1> QED BY <1>1, <1>2 DEF Sums

\* The sum up to a number is the sum before it and the number.
LEMMA TotalLast ==
    ASSUME NEW s \in Seq(Nat), NEW r \in Seq(Nat), Len(r) = Len(s) + 1,
           \A n \in 1 .. Len(s) : s[n] = r[n]
    PROVE  Total(r) = Total(s) + r[Len(r)]
<1>1. PICK g : Sums(s, g) /\ Total(s) = g[Len(s)]
  BY TotalIs
<1>2. PICK h : Sums(r, h) /\ Total(r) = h[Len(r)]
  BY TotalIs
<1>3. Len(s) \in Nat /\ Len(s) <= Len(s) /\ Len(s) <= Len(r) /\ Len(r) \in 1 .. Len(r)
      /\ Len(r) - 1 = Len(s)
  OBVIOUS
<1>6. Sums(s, g) /\ Sums(r, h)
  BY <1>1, <1>2
<1>4. g[Len(s)] = h[Len(s)]
  <2> DEFINE m == Len(s)
  <2>1. m \in Nat /\ m <= Len(s) /\ m <= Len(r) /\ \A n \in 1 .. m : s[n] = r[n]
    BY <1>3
  <2>2. g[m] = h[m]
    <3> HIDE DEF m
    <3> QED BY <1>6, <2>1, SumsAgree
  <2> QED BY <2>2
<1>5. h[Len(r)] = h[Len(s)] + r[Len(r)]
  BY <1>2, <1>3 DEF Sums
<1> QED BY <1>1, <1>2, <1>4, <1>5

-----------------------------------------------------------------------------
(***************************************************************************)
(* Batches of entities.                                                    *)
(***************************************************************************)

\* How many of so many entities the first n batches hold, and the n-th.
Before(n, size) == IF n * TrackedSize <= size THEN n * TrackedSize ELSE size
Capacity(n, size) == Before(n, size) - Before(n - 1, size)

LEMMA Slice ==
    ASSUME NEW n \in Nat, n > 0
    PROVE  /\ (n - 1) * TrackedSize \in Nat
           /\ n * TrackedSize = (n - 1) * TrackedSize + TrackedSize
<1>1. TrackedSize \in Nat
  BY DashAssumption
<1> QED BY <1>1, SMT

LEMMA CapacityFacts ==
    ASSUME NEW n \in Nat, n > 0, NEW size \in Nat
    PROVE  /\ Capacity(n, size) \in Nat
           /\ Before(n, size) \in Nat /\ Before(n - 1, size) \in Nat
           /\ Before(n, size) <= size
           /\ \A more \in Nat : size <= more => Capacity(n, size) <= Capacity(n, more)
<1>1. TrackedSize \in Nat /\ TrackedSize > 0
  BY DashAssumption
<1> DEFINE a == (n - 1) * TrackedSize
<1>2. a \in Nat /\ n * TrackedSize = a + TrackedSize
  BY Slice
<1>3. \A more \in Nat : Before(n, more) = IF a + TrackedSize <= more THEN a + TrackedSize ELSE more
  BY <1>2 DEF Before
<1>4. \A more \in Nat : Before(n - 1, more) = IF a <= more THEN a ELSE more
  BY DEF Before
<1>5. \A more \in Nat : Capacity(n, more) = (IF a + TrackedSize <= more THEN a + TrackedSize ELSE more)
                                            - (IF a <= more THEN a ELSE more)
  BY <1>3, <1>4 DEF Capacity
<1> HIDE DEF a
<1> QED BY <1>1, <1>2, <1>3, <1>4, <1>5

LEMMA Division ==
    ASSUME NEW a \in Nat
    PROVE  /\ a \div TrackedSize \in Nat
           /\ (a \div TrackedSize) * TrackedSize <= a
           /\ a < (a \div TrackedSize) * TrackedSize + TrackedSize
<1>1. TrackedSize \in Nat /\ TrackedSize > 0
  BY DashAssumption
<1> QED BY <1>1, SMTT(30)

LEMMA DivisionIs ==
    ASSUME NEW a \in Nat, NEW k \in Nat,
           k * TrackedSize <= a, a < k * TrackedSize + TrackedSize
    PROVE  a \div TrackedSize = k
<1>1. TrackedSize \in Nat /\ TrackedSize > 0
  BY DashAssumption
<1> DEFINE q == a \div TrackedSize
<1>2. q \in Nat /\ q * TrackedSize <= a /\ a < q * TrackedSize + TrackedSize
  BY Division
<1> HIDE DEF q
<1>3. ~ q < k
  <2> SUFFICES ASSUME q < k PROVE FALSE
    OBVIOUS
  <2>1. (q + 1) * TrackedSize <= k * TrackedSize
    BY <1>1, <1>2, SMTT(30)
  <2>2. (q + 1) * TrackedSize = q * TrackedSize + TrackedSize
    BY <1>1, <1>2, SMTT(30)
  <2>3. q * TrackedSize \in Nat /\ k * TrackedSize \in Nat
    BY <1>1, <1>2
  <2> QED BY <1>1, <1>2, <2>1, <2>2, <2>3
<1>4. ~ k < q
  <2> SUFFICES ASSUME k < q PROVE FALSE
    OBVIOUS
  <2>1. (k + 1) * TrackedSize <= q * TrackedSize
    BY <1>1, <1>2, SMTT(30)
  <2>2. (k + 1) * TrackedSize = k * TrackedSize + TrackedSize
    BY <1>1, <1>2, SMTT(30)
  <2>3. q * TrackedSize \in Nat /\ k * TrackedSize \in Nat
    BY <1>1, <1>2
  <2> QED BY <1>1, <1>2, <2>1, <2>2, <2>3
<1> QED BY <1>2, <1>3, <1>4 DEF q

\* The batches hold all the entities, the ones but the last do not.
LEMMA BatchCountFacts ==
    ASSUME NEW size \in Nat
    PROVE  /\ BatchCount(size) \in Nat
           /\ size <= BatchCount(size) * TrackedSize
           /\ \A n \in Nat : n * TrackedSize < size => n < BatchCount(size)
           /\ \A n \in Nat : n > 0 /\ n <= BatchCount(size) => (n - 1) * TrackedSize < size
           /\ size = 0 => BatchCount(size) = 0
<1>1. TrackedSize \in Nat /\ TrackedSize > 0
  BY DashAssumption
<1> DEFINE q == BatchCount(size)
<1>2. size + TrackedSize - 1 \in Nat
  BY <1>1
<1>3. q \in Nat /\ q * TrackedSize <= size + TrackedSize - 1
      /\ size + TrackedSize - 1 < q * TrackedSize + TrackedSize
  BY <1>2, Division DEF BatchCount
<1> HIDE DEF q
<1>4. q * TrackedSize \in Nat
  BY <1>1, <1>3
<1>5. size <= q * TrackedSize
  BY <1>1, <1>3, <1>4
<1>6. ASSUME NEW n \in Nat, n * TrackedSize < size PROVE n < q
  <2> SUFFICES ASSUME q <= n PROVE FALSE
    BY <1>3
  <2>1. q * TrackedSize <= n * TrackedSize
    BY <1>1, <1>3, SMTT(30)
  <2>2. n * TrackedSize \in Nat
    BY <1>1
  <2> QED BY <1>4, <1>5, <1>6, <2>1, <2>2
<1>7. ASSUME NEW n \in Nat, n > 0, n <= q PROVE (n - 1) * TrackedSize < size
  <2>1. n * TrackedSize <= q * TrackedSize
    BY <1>1, <1>3, <1>7, SMTT(30)
  <2>2. (n - 1) * TrackedSize \in Nat /\ n * TrackedSize = (n - 1) * TrackedSize + TrackedSize
    BY <1>7, Slice
  <2> QED BY <1>1, <1>3, <1>4, <2>1, <2>2
<1>8. size = 0 => q = 0
  <2> SUFFICES ASSUME size = 0, q > 0 PROVE FALSE
    BY <1>3
  <2>1. (q - 1) * TrackedSize < size
    BY <1>3, <1>7
  <2>2. (q - 1) * TrackedSize \in Nat
    BY <1>3, Slice
  <2> QED BY <2>1, <2>2
<1> QED BY <1>3, <1>5, <1>6, <1>7, <1>8 DEF q

LEMMA BatchCountGrows ==
    ASSUME NEW size \in Nat, NEW more \in Nat, size <= more
    PROVE  BatchCount(size) <= BatchCount(more)
<1> DEFINE q == BatchCount(size)
           p == BatchCount(more)
<1>1. q \in Nat /\ p \in Nat
  BY BatchCountFacts
<1>2. \A n \in Nat : n > 0 /\ n <= q => (n - 1) * TrackedSize < size
  BY BatchCountFacts
<1>3. \A n \in Nat : n * TrackedSize < more => n < p
  BY BatchCountFacts
<1> HIDE DEF q, p
<1>4. CASE q = 0
  BY <1>1, <1>4 DEF q, p
<1>5. CASE q > 0
  <2>0. q - 1 \in Nat /\ q <= q
    BY <1>1, <1>5
  <2>1. (q - 1) * TrackedSize < size /\ (q - 1) * TrackedSize \in Nat
    BY <1>1, <1>2, <1>5, <2>0, Slice
  <2>2. (q - 1) * TrackedSize < more
    BY <2>1
  <2>3. q - 1 < p
    BY <1>3, <2>0, <2>1, <2>2
  <2> QED BY <1>1, <2>3 DEF q, p
<1> QED BY <1>1, <1>4, <1>5

\* The places of the entities in a set are the numbers below their number.
LEMMA Places ==
    ASSUME NEW X \in SUBSET Nat, IsFiniteSet(X)
    PROVE  [x \in X |-> Place(x, X)] \in Bijection(X, 0 .. Cardinality(X) - 1)
<1> DEFINE Smaller(x) == {y \in X : y < x}
           N == Cardinality(X)
           F == [x \in X |-> Place(x, X)]
<1>1. N \in Nat
  BY FS_CardinalityType
<1>2. ASSUME NEW x \in X, NEW z \in Nat, x < z
      PROVE  /\ Place(x, X) \in Nat
             /\ Place(x, X) + 1 <= Place(z, X)
  <2>1. IsFiniteSet(Smaller(x)) /\ IsFiniteSet(Smaller(z))
    BY FS_Subset
  <2>0. \A y \in X : y < x => y < z
    BY <1>2
  <2>a. x \notin Smaller(x)
    OBVIOUS
  <2>2. Smaller(x) \cup {x} \subseteq Smaller(z) /\ x \notin Smaller(x)
    BY <1>2, <2>0, <2>a
  <2>3. Cardinality(Smaller(x) \cup {x}) = Cardinality(Smaller(x)) + 1
    BY <2>1, <2>2, FS_AddElement
  <2>4. Cardinality(Smaller(x) \cup {x}) <= Cardinality(Smaller(z))
    BY <2>1, <2>2, FS_Subset
  <2>5. Cardinality(Smaller(x)) \in Nat
    BY <2>1, FS_CardinalityType
  <2> QED BY <2>3, <2>4, <2>5 DEF Place
<1>3. ASSUME NEW x \in X PROVE Place(x, X) \in 0 .. N - 1
  <2>1. IsFiniteSet(Smaller(x)) /\ Smaller(x) \cup {x} \subseteq X /\ x \notin Smaller(x)
    BY FS_Subset
  <2>2. Cardinality(Smaller(x) \cup {x}) = Cardinality(Smaller(x)) + 1
    BY <2>1, FS_AddElement
  <2>3. Cardinality(Smaller(x) \cup {x}) <= N
    BY <2>1, FS_Subset
  <2>4. Cardinality(Smaller(x)) \in Nat
    BY <2>1, FS_CardinalityType
  <2> QED BY <1>1, <2>2, <2>3, <2>4 DEF Place
<1>4. F \in [X -> 0 .. N - 1]
  <2> HIDE DEF N
  <2> QED BY <1>3
<1>5. ASSUME NEW x \in X, NEW z \in X, x # z PROVE F[x] # F[z]
  <2>1. CASE x < z
    <3>1. Place(x, X) \in Nat /\ Place(x, X) + 1 <= Place(z, X)
      BY <1>2, <2>1
    <3>2. Place(z, X) \in Nat
      BY <1>1, <1>3
    <3> QED BY <3>1, <3>2
  <2>2. CASE z < x
    <3>1. Place(z, X) \in Nat /\ Place(z, X) + 1 <= Place(x, X)
      BY <1>2, <2>2
    <3>2. Place(x, X) \in Nat
      BY <1>1, <1>3
    <3> QED BY <3>1, <3>2
  <2> QED BY <1>5, <2>1, <2>2
<1>6. F \in Injection(X, 0 .. N - 1)
  <2>1. IsInjective(F)
    BY <1>4, <1>5 DEF IsInjective
  <2> HIDE DEF F, N
  <2> QED BY <1>4, <2>1 DEF Injection
<1>7. IsFiniteSet(0 .. N - 1) /\ Cardinality(0 .. N - 1) = N
  <2> HIDE DEF N
  <2>1. N - 1 \in Int /\ 0 \in Int
    BY <1>1
  <2>2. IsFiniteSet(0 .. N - 1) /\ Cardinality(0 .. N - 1) = IF 0 > N - 1 THEN 0 ELSE N - 1 - 0 + 1
    BY <2>1, FS_Interval
  <2> QED BY <1>1, <2>2
<1>8. F \in Surjection(X, 0 .. N - 1)
  <2> HIDE DEF F
  <2>1. Cardinality(X) = Cardinality(0 .. N - 1)
    BY <1>7
  <2> HIDE DEF N
  <2> QED BY <1>6, <1>7, <2>1, FS_Injection
<1> HIDE DEF F
<1>9. F \in Bijection(X, 0 .. N - 1)
  BY <1>6, <1>8 DEF Bijection
<1> QED BY <1>9 DEF F

LEMMA CutFacts ==
    ASSUME NEW X \in SUBSET Nat, IsFiniteSet(X)
    PROVE  /\ Len(Batched(X)) = BatchCount(Cardinality(X))
           /\ Batched(X) \in Seq(SUBSET X)
           /\ \A i \in 1 .. Len(Batched(X)) :
                /\ Cardinality(Batched(X)[i]) = Capacity(i, Cardinality(X))
                /\ Batched(X)[i] \subseteq X
<1> DEFINE N == Cardinality(X)
           m == BatchCount(N)
<1>1. N \in Nat
  BY FS_CardinalityType
<1>2. m \in Nat
  BY <1>1, BatchCountFacts
<1>0. TrackedSize \in Nat /\ TrackedSize > 0
  BY DashAssumption
<1>3. Batched(X) = [i \in 1 .. m |-> {x \in X : Place(x, X) \div TrackedSize = i - 1}]
  BY DEF Batched
<1>4. Len(Batched(X)) = m /\ Batched(X) \in Seq(SUBSET X)
  <2> HIDE DEF m
  <2> QED BY <1>2, <1>3
<1>5. ASSUME NEW i \in 1 .. m
      PROVE  Cardinality({x \in X : Place(x, X) \div TrackedSize = i - 1}) = Capacity(i, N)
  <2> DEFINE B == {x \in X : Place(x, X) \div TrackedSize = i - 1}
             F == [x \in X |-> Place(x, X)]
             a == (i - 1) * TrackedSize
             b == Before(i, N)
             G == [x \in B |-> Place(x, X)]
  <2>0. i \in Nat /\ i > 0 /\ i - 1 \in Nat /\ i <= m
    BY <1>2
  <2>1. F \in Bijection(X, 0 .. N - 1)
    BY Places
  <2>2. a \in Nat /\ i * TrackedSize = a + TrackedSize
    BY <2>0, Slice
  <2>3. a < N
    BY <1>1, <2>0, BatchCountFacts
  <2>4. b = IF a + TrackedSize <= N THEN a + TrackedSize ELSE N
    BY <2>2 DEF Before
  <2>5. Before(i - 1, N) = a
    BY <1>1, <2>2, <2>3 DEF Before
  <2> HIDE DEF F, a, b, N, m, B
  <2>6. b \in Nat /\ a < b /\ b <= N /\ b <= a + TrackedSize
    BY <1>0, <1>1, <2>2, <2>3, <2>4
  <2>7. \A x \in X : Place(x, X) \in 0 .. N - 1
    BY <2>1 DEF Bijection, Surjection, F
  <2>8. ASSUME NEW p \in 0 .. N - 1 PROVE p \div TrackedSize = i - 1 <=> p \in a .. b - 1
    <3>0. p \in Nat
      BY <1>1
    <3>1. ASSUME p \div TrackedSize = i - 1 PROVE p \in a .. b - 1
      <4>1. a <= p /\ p < a + TrackedSize
        BY <3>0, <3>1, Division DEF a
      <4> QED BY <1>0, <1>1, <2>2, <2>4, <2>6, <4>1
    <3>2. ASSUME p \in a .. b - 1 PROVE p \div TrackedSize = i - 1
      <4>1. a <= p /\ p < a + TrackedSize
        BY <1>0, <2>2, <2>6, <3>2
      <4> QED BY <2>0, <3>0, <4>1, DivisionIs DEF a
    <3> QED BY <3>1, <3>2
  <2>9. G \in Injection(B, a .. b - 1)
    <3>1. \A x \in B : x \in X /\ Place(x, X) \in a .. b - 1
      BY <2>7, <2>8 DEF B
    <3>2. G \in [B -> a .. b - 1]
      BY <3>1
    <3>3. \A x, z \in X : Place(x, X) = Place(z, X) => x = z
      BY <2>1 DEF Bijection, Injection, IsInjective, F
    <3>4. IsInjective(G)
      BY <3>1, <3>3 DEF IsInjective
    <3> HIDE DEF G
    <3> QED BY <3>2, <3>4 DEF Injection
  <2>10. G \in Surjection(B, a .. b - 1)
    <3>1. ASSUME NEW p \in a .. b - 1 PROVE \E x \in B : G[x] = p
      <4>1. p \in 0 .. N - 1
        BY <1>1, <2>2, <2>6
      <4>2. PICK x \in X : F[x] = p
        BY <2>1, <4>1 DEF Bijection, Surjection
      <4>3. Place(x, X) = p
        BY <4>2 DEF F
      <4>4. x \in B
        BY <2>8, <4>1, <4>3 DEF B
      <4> QED BY <4>3, <4>4
    <3>2. G \in [B -> a .. b - 1]
      BY <2>9 DEF Injection
    <3> HIDE DEF G
    <3> QED BY <3>1, <3>2 DEF Surjection
  <2> HIDE DEF G
  <2>11. IsFiniteSet(B)
    BY FS_Subset DEF B
  <2>12. Cardinality(a .. b - 1) = Cardinality(B)
    <3>1. G \in Bijection(B, a .. b - 1)
      BY <2>9, <2>10 DEF Bijection
    <3>2. ExistsBijection(B, a .. b - 1)
      BY <3>1 DEF ExistsBijection
    <3> QED BY <2>11, <3>2, FS_Bijection
  <2>13. Cardinality(a .. b - 1) = b - a
    <3>1. a \in Int /\ b - 1 \in Int
      BY <2>2, <2>6
    <3>2. Cardinality(a .. b - 1) = IF a > b - 1 THEN 0 ELSE b - 1 - a + 1
      BY <3>1, FS_Interval
    <3> QED BY <2>2, <2>6, <3>2
  <2>14. Capacity(i, N) = b - a
    BY <2>5 DEF Capacity, b
  <2> QED BY <2>12, <2>13, <2>14 DEF B
<1>6. \A i \in 1 .. Len(Batched(X)) :
         /\ Cardinality(Batched(X)[i]) = Capacity(i, Cardinality(X))
         /\ Batched(X)[i] \subseteq X
  <2> TAKE i \in 1 .. Len(Batched(X))
  <2>1. i \in 1 .. m
    BY <1>4
  <2>2. Batched(X)[i] = {x \in X : Place(x, X) \div TrackedSize = i - 1}
    BY <1>3, <2>1
  <2>3. Cardinality(Batched(X)[i]) = Capacity(i, N)
    BY <1>5, <2>1, <2>2
  <2>4. Batched(X)[i] \subseteq X
    <3> HIDE DEF m
    <3> QED BY <2>2
  <2> QED BY <2>3, <2>4
<1> QED BY <1>4, <1>6

\* Together the first batches hold what is before their end.
LEMMA CapacitySum ==
    ASSUME NEW size \in Nat, NEW s \in Seq(Nat), \A n \in 1 .. Len(s) : s[n] = Capacity(n, size)
    PROVE  Total(s) = Before(Len(s), size)
<1>1. PICK g : Sums(s, g) /\ Total(s) = g[Len(s)]
  BY TotalIs
<1> DEFINE T == {n \in Nat : n \in 0 .. Len(s) => g[n] = Before(n, size)}
<1>2. 0 \in T
  <2>1. 0 * TrackedSize = 0
    BY DashAssumption
  <2> QED BY <1>1, <2>1 DEF Sums, Before
<1>3. ASSUME NEW n \in T PROVE n + 1 \in T
  <2> SUFFICES ASSUME n + 1 \in 0 .. Len(s) PROVE g[n + 1] = Before(n + 1, size)
    OBVIOUS
  <2>1. n \in 0 .. Len(s) /\ n + 1 \in 1 .. Len(s) /\ n + 1 - 1 = n /\ n + 1 \in Nat /\ n + 1 > 0
    OBVIOUS
  <2>2. g[n + 1] = Before(n, size) + s[n + 1]
    BY <1>1, <2>1 DEF Sums
  <2>3. s[n + 1] = Before(n + 1, size) - Before(n, size)
    BY <2>1 DEF Capacity
  <2>4. Before(n + 1, size) \in Nat /\ Before(n + 1 - 1, size) \in Nat
    <3> DEFINE k == n + 1
    <3>1. k \in Nat /\ k > 0
      BY <2>1
    <3> HIDE DEF k
    <3>2. Before(k, size) \in Nat /\ Before(k - 1, size) \in Nat
      BY <3>1, CapacityFacts
    <3> QED BY <3>2 DEF k
  <2> QED BY <2>1, <2>2, <2>3, <2>4
<1>4. T = Nat
  <2>1. T \in SUBSET Nat
    OBVIOUS
  <2> HIDE DEF T
  <2> QED BY <1>2, <1>3, <2>1, AllNumbers
<1>5. Len(s) \in Nat /\ Len(s) \in 0 .. Len(s)
  OBVIOUS
<1> QED BY <1>1, <1>4, <1>5

-----------------------------------------------------------------------------
(***************************************************************************)
(* The trackers, and the queries of a reading.                             *)
(***************************************************************************)

Stages == {"source", "transformed", "loaded"}
Stage(t) == IF t[1] = "modules" THEN "loaded" ELSE t[1]

LEMMA StagesAre == ToSet(PhaseNames) = Stages
  BY DEF ToSet, PhaseNames, Stages

LEMMA TypedFacts ==
    ASSUME NEW p
    PROVE  /\ StageTypes(p) \in Seq({<<p, k>> : k \in ToSet(ReadKinds)})
           /\ Len(StageTypes(p)) = Len(ReadKinds)
           /\ \A i \in 1 .. Len(ReadKinds) : StageTypes(p)[i] = <<p, ReadKinds[i]>>
           /\ ToSet(StageTypes(p)) = {<<p, k>> : k \in ToSet(ReadKinds)}
<1>1. ReadKinds \in Seq(STRING) /\ DOMAIN ReadKinds = 1 .. Len(ReadKinds) /\ Len(ReadKinds) \in Nat
  BY DashAssumption
<1>2. StageTypes(p) = [i \in 1 .. Len(ReadKinds) |-> <<p, ReadKinds[i]>>]
  BY <1>1 DEF StageTypes
<1>3. ToSet(ReadKinds) = {ReadKinds[i] : i \in 1 .. Len(ReadKinds)}
  BY <1>1 DEF ToSet
<1>4. \A i \in 1 .. Len(ReadKinds) : <<p, ReadKinds[i]>> \in {<<p, k>> : k \in ToSet(ReadKinds)}
  BY <1>3
<1>5. StageTypes(p) \in Seq({<<p, k>> : k \in ToSet(ReadKinds)}) /\ Len(StageTypes(p)) = Len(ReadKinds)
      /\ DOMAIN StageTypes(p) = 1 .. Len(ReadKinds)
  BY <1>1, <1>2, <1>4
<1>6. ToSet(StageTypes(p)) = {StageTypes(p)[i] : i \in 1 .. Len(ReadKinds)}
  BY <1>5 DEF ToSet
<1>7. ToSet(StageTypes(p)) = {<<p, k>> : k \in ToSet(ReadKinds)}
  BY <1>2, <1>3, <1>6
<1> QED BY <1>2, <1>5, <1>7

LEMMA SeqWider ==
    ASSUME NEW S, NEW R, S \subseteq R, NEW s \in Seq(S)
    PROVE  s \in Seq(R)
  OBVIOUS

LEMMA Joined ==
    ASSUME NEW S, NEW s \in Seq(S), NEW r \in Seq(S)
    PROVE  /\ s \o r \in Seq(S)
           /\ Len(s \o r) = Len(s) + Len(r)
           /\ \A i \in 1 .. Len(s) : (s \o r)[i] = s[i]
           /\ \A i \in 1 .. Len(r) : (s \o r)[Len(s) + i] = r[i]
<1>1. Len(s) \in Nat /\ Len(r) \in Nat
  OBVIOUS
<1>2. \A i \in 1 .. Len(r) : Len(s) + i \in 1 .. Len(s) + Len(r) /\ Len(s) + i > Len(s)
                               /\ Len(s) + i - Len(s) = i
  BY <1>1
<1> QED BY <1>1, <1>2

\* One element before a sequence.
LEMMA Preceded ==
    ASSUME NEW S, NEW x \in S, NEW s \in Seq(S)
    PROVE  /\ <<x>> \o s \in Seq(S)
           /\ Len(<<x>> \o s) = Len(s) + 1
           /\ (<<x>> \o s)[1] = x
           /\ \A i \in 1 .. Len(s) : (<<x>> \o s)[i + 1] = s[i]
           /\ ToSet(<<x>> \o s) = {x} \cup ToSet(s)
<1> DEFINE r == <<x>> \o s
<1>1. r \in Seq(S) /\ Len(r) = Len(s) + 1 /\ DOMAIN r = 1 .. Len(s) + 1 /\ DOMAIN s = 1 .. Len(s)
      /\ Len(s) \in Nat
  OBVIOUS
<1>2. r[1] = x /\ \A i \in 1 .. Len(s) : r[i + 1] = s[i]
  OBVIOUS
<1> HIDE DEF r
<1>3. \A i \in 1 .. Len(s) + 1 : i # 1 => i - 1 \in 1 .. Len(s) /\ r[i] = s[i - 1]
  <2> TAKE i \in 1 .. Len(s) + 1
  <2> HAVE i # 1
  <2>1. i - 1 \in 1 .. Len(s) /\ (i - 1) + 1 = i
    BY <1>1
  <2> QED BY <1>2, <2>1
<1>4. \A i \in 1 .. Len(s) : i + 1 \in 1 .. Len(s) + 1
  BY <1>1
<1>5. 1 \in 1 .. Len(s) + 1
  BY <1>1
<1>6. {r[i] : i \in 1 .. Len(s) + 1} = {x} \cup {s[i] : i \in 1 .. Len(s)}
  <2>1. ASSUME NEW i \in 1 .. Len(s) + 1 PROVE r[i] \in {x} \cup {s[j] : j \in 1 .. Len(s)}
    <3>1. CASE i = 1
      BY <1>2, <3>1
    <3>2. CASE i # 1
      BY <1>3, <3>2
    <3> QED BY <3>1, <3>2
  <2>2. x \in {r[i] : i \in 1 .. Len(s) + 1}
    BY <1>2, <1>5
  <2>3. ASSUME NEW i \in 1 .. Len(s) PROVE s[i] \in {r[j] : j \in 1 .. Len(s) + 1}
    BY <1>2, <1>4
  <2> QED BY <2>1, <2>2, <2>3
<1>7. ToSet(r) = {x} \cup ToSet(s)
  BY <1>1, <1>6 DEF ToSet
<1> QED BY <1>1, <1>2, <1>7 DEF r

LEMMA TrackersAre ==
    /\ Trackers = {<<"source", k>> : k \in EntityTypes} \cup {<<"transformed", k>> : k \in ToSet(ReadKinds)}
                  \cup {<<"loaded", k>> : k \in ToSet(ReadKinds)} \cup {<<"modules", FolderKind>>}
    /\ \A p \in Stages : /\ TrackersOf(p) \in Seq(Trackers)
                         /\ \A i \in 1 .. Len(TrackersOf(p)) : Stage(TrackersOf(p)[i]) = p
    /\ ToSet(TrackersOf("source")) = {<<"source", k>> : k \in EntityTypes}
<1> DEFINE Kinds1 == ToSet(ReadKinds)
           Src == {<<"source", k>> : k \in EntityTypes}
           Tr == {<<"transformed", k>> : k \in ToSet(ReadKinds)}
           Ld == {<<"modules", FolderKind>>} \cup {<<"loaded", k>> : k \in ToSet(ReadKinds)}
<1>1. TrackersOf("source") = <<<<"source", FolderKind>>>> \o StageTypes("source")
  BY DEF TrackersOf
<1>2. TrackersOf("transformed") = StageTypes("transformed")
  BY DEF TrackersOf
<1>3. TrackersOf("loaded") = <<<<"modules", FolderKind>>>> \o StageTypes("loaded")
  BY DEF TrackersOf
<1>4. TrackersOf("source") \in Seq(Src) /\ ToSet(TrackersOf("source")) = Src
  <2>1. Src = {<<"source", FolderKind>>} \cup {<<"source", k>> : k \in ToSet(ReadKinds)}
    BY DEF EntityTypes
  <2>2. StageTypes("source") \in Seq(Src)
    <3>1. {<<"source", k>> : k \in ToSet(ReadKinds)} \subseteq Src
      BY <2>1
    <3>2. StageTypes("source") \in Seq({<<"source", k>> : k \in ToSet(ReadKinds)})
      BY TypedFacts
    <3> QED BY <3>1, <3>2, SeqWider
  <2>3. <<"source", FolderKind>> \in Src
    BY <2>1
  <2>4. ToSet(StageTypes("source")) = {<<"source", k>> : k \in ToSet(ReadKinds)}
    BY TypedFacts
  <2>5. TrackersOf("source") \in Seq(Src)
        /\ ToSet(TrackersOf("source")) = {<<"source", FolderKind>>} \cup ToSet(StageTypes("source"))
    <3> DEFINE x == <<"source", FolderKind>>
               d == StageTypes("source")
    <3>1. TrackersOf("source") = <<x>> \o d /\ x \in Src /\ d \in Seq(Src)
      BY <1>1, <2>2, <2>3
    <3>2. <<x>> \o d \in Seq(Src) /\ ToSet(<<x>> \o d) = {x} \cup ToSet(d)
      <4>1. x \in Src /\ d \in Seq(Src)
        BY <3>1
      <4> HIDE DEF Src, x, d
      <4> QED BY ONLY <4>1, Preceded
    <3> QED BY <3>1, <3>2
  <2> QED BY <2>1, <2>4, <2>5
<1>5. TrackersOf("transformed") \in Seq(Tr) /\ ToSet(TrackersOf("transformed")) = Tr
  BY <1>2, TypedFacts
<1>6. TrackersOf("loaded") \in Seq(Ld) /\ ToSet(TrackersOf("loaded")) = Ld
  <2>2. StageTypes("loaded") \in Seq(Ld)
    <3>1. {<<"loaded", k>> : k \in ToSet(ReadKinds)} \subseteq Ld
      OBVIOUS
    <3>2. StageTypes("loaded") \in Seq({<<"loaded", k>> : k \in ToSet(ReadKinds)})
      BY TypedFacts
    <3> HIDE DEF Ld
    <3> QED BY <3>1, <3>2, SeqWider
  <2>3. <<"modules", FolderKind>> \in Ld
    OBVIOUS
  <2>4. ToSet(StageTypes("loaded")) = {<<"loaded", k>> : k \in ToSet(ReadKinds)}
    BY TypedFacts
  <2>5. TrackersOf("loaded") \in Seq(Ld)
        /\ ToSet(TrackersOf("loaded")) = {<<"modules", FolderKind>>} \cup ToSet(StageTypes("loaded"))
    <3> DEFINE x == <<"modules", FolderKind>>
               d == StageTypes("loaded")
    <3>1. TrackersOf("loaded") = <<x>> \o d /\ x \in Ld /\ d \in Seq(Ld)
      BY <1>3, <2>2, <2>3
    <3>2. <<x>> \o d \in Seq(Ld) /\ ToSet(<<x>> \o d) = {x} \cup ToSet(d)
      <4>1. x \in Ld /\ d \in Seq(Ld)
        BY <3>1
      <4> HIDE DEF Ld, x, d
      <4> QED BY ONLY <4>1, Preceded
    <3> QED BY <3>1, <3>2
  <2> QED BY <2>4, <2>5
<1>7. Trackers = Src \cup Tr \cup Ld
  <2>1. Trackers = UNION {ToSet(TrackersOf(p)) : p \in Stages}
    BY StagesAre DEF Trackers
  <2>2. Stages = {"source", "transformed", "loaded"}
    BY DEF Stages
  <2> HIDE DEF Src, Tr, Ld
  <2> QED BY <1>4, <1>5, <1>6, <2>1, <2>2
<1>8. (\A t \in Src : Stage(t) = "source") /\ (\A t \in Tr : Stage(t) = "transformed")
      /\ (\A t \in Ld : Stage(t) = "loaded")
  BY DEF Stage
<1>9. ASSUME NEW p \in Stages
      PROVE  /\ TrackersOf(p) \in Seq(Trackers)
             /\ \A i \in 1 .. Len(TrackersOf(p)) : Stage(TrackersOf(p)[i]) = p
  <2> HIDE DEF Src, Tr, Ld
  <2>1. CASE p = "source"
    BY <1>4, <1>7, <1>8, <2>1
  <2>2. CASE p = "transformed"
    BY <1>5, <1>7, <1>8, <2>2
  <2>3. CASE p = "loaded"
    BY <1>6, <1>7, <1>8, <2>3
  <2> QED BY <2>1, <2>2, <2>3 DEF Stages
<1>10. Trackers = {<<"source", k>> : k \in EntityTypes} \cup {<<"transformed", k>> : k \in ToSet(ReadKinds)}
                  \cup {<<"loaded", k>> : k \in ToSet(ReadKinds)} \cup {<<"modules", FolderKind>>}
  BY <1>7
<1> QED BY <1>4, <1>9, <1>10

LEMMA TrackerFacts ==
    /\ \A t \in Trackers : /\ t[1] \in Stages \cup {"modules"} /\ t[2] \in EntityTypes
                           /\ t = <<t[1], t[2]>> /\ Stage(t) \in Stages
                           /\ t[1] = "transformed" \/ t[1] = "loaded" => t[2] \in ToSet(ReadKinds)
                           /\ t[1] # "source" => Input(t) \in Trackers /\ Input(t) # t
                           /\ t[1] # "source" => Stage(t) # "source"
                           /\ Stage(t) = "source" => t = <<"source", t[2]>>
    /\ \A k \in EntityTypes : <<"source", k>> \in Trackers
    /\ \A k \in ToSet(ReadKinds) : <<"transformed", k>> \in Trackers /\ k \in EntityTypes
<1>1. \A k \in ToSet(ReadKinds) : k \in EntityTypes
  BY DEF EntityTypes
<1>2. FolderKind \in EntityTypes
  BY DEF EntityTypes
<1>3. ASSUME NEW t \in Trackers
      PROVE  /\ t[1] \in Stages \cup {"modules"} /\ t[2] \in EntityTypes
             /\ t = <<t[1], t[2]>> /\ Stage(t) \in Stages
             /\ t[1] = "transformed" \/ t[1] = "loaded" => t[2] \in ToSet(ReadKinds)
             /\ t[1] # "source" => Input(t) \in Trackers /\ Input(t) # t
             /\ t[1] # "source" => Stage(t) # "source"
             /\ Stage(t) = "source" => t = <<"source", t[2]>>
  <2>1. CASE \E k \in EntityTypes : t = <<"source", k>>
    BY <2>1 DEF Stages, Stage
  <2>2. CASE \E k \in ToSet(ReadKinds) : t = <<"transformed", k>>
    <3>1. PICK k \in ToSet(ReadKinds) : t = <<"transformed", k>>
      BY <2>2
    <3>2. Input(t) = <<"source", k>> /\ k \in EntityTypes
      BY <1>1, <3>1 DEF Input
    <3>3. <<"source", k>> \in Trackers
      BY <3>2, TrackersAre
    <3> QED BY <1>1, <3>1, <3>2, <3>3 DEF Stages, Stage
  <2>3. CASE \E k \in ToSet(ReadKinds) : t = <<"loaded", k>>
    <3>1. PICK k \in ToSet(ReadKinds) : t = <<"loaded", k>>
      BY <2>3
    <3>2. Input(t) = <<"transformed", k>> /\ k \in EntityTypes
      BY <1>1, <3>1 DEF Input
    <3>3. <<"transformed", k>> \in Trackers
      BY <3>1, TrackersAre
    <3> QED BY <1>1, <3>1, <3>2, <3>3 DEF Stages, Stage
  <2>4. CASE t = <<"modules", FolderKind>>
    <3>2. Input(t) = <<"source", FolderKind>>
      BY <2>4 DEF Input
    <3>3. <<"source", FolderKind>> \in Trackers
      BY <1>2, TrackersAre
    <3> QED BY <1>2, <2>4, <3>2, <3>3 DEF Stages, Stage
  <2> QED BY <2>1, <2>2, <2>3, <2>4, TrackersAre
<1>4. \A k \in EntityTypes : <<"source", k>> \in Trackers
  BY TrackersAre
<1>5. \A k \in ToSet(ReadKinds) : <<"transformed", k>> \in Trackers
  BY TrackersAre
<1> QED BY <1>1, <1>3, <1>4, <1>5

LEMMA CountedTypesAre ==
    /\ CountedTypes \in Seq(Trackers)
    /\ Len(ReadKinds) \in Nat /\ Len(CountedTypes) = 3 * Len(ReadKinds) + 1
    /\ CountedTypes[1] = <<"source", FolderKind>>
    /\ \A i \in 1 .. Len(ReadKinds) :
         /\ CountedTypes[1 + i] = <<"source", ReadKinds[i]>>
         /\ CountedTypes[1 + Len(ReadKinds) + i] = <<"transformed", ReadKinds[i]>>
         /\ CountedTypes[1 + 2 * Len(ReadKinds) + i] = <<"loaded", ReadKinds[i]>>
    /\ \A i \in 1 .. Len(CountedTypes) : CountedTypes[i][1] \in Stages
<1> DEFINE K == Len(ReadKinds)
           a == TrackersOf("source")
           b == StageTypes("transformed")
           c == StageTypes("loaded")
<1>1. K \in Nat
  BY DashAssumption
<1>2. a = <<<<"source", FolderKind>>>> \o StageTypes("source")
  BY DEF TrackersOf
<1>3. a \in Seq(Trackers)
  BY TrackersAre DEF Stages
<1>4. b \in Seq(Trackers) /\ c \in Seq(Trackers)
  <2>1. {<<"transformed", k>> : k \in ToSet(ReadKinds)} \subseteq Trackers
        /\ {<<"loaded", k>> : k \in ToSet(ReadKinds)} \subseteq Trackers
    BY TrackersAre
  <2>2. b \in Seq({<<"transformed", k>> : k \in ToSet(ReadKinds)})
    BY TypedFacts
  <2>3. c \in Seq({<<"loaded", k>> : k \in ToSet(ReadKinds)})
    BY TypedFacts
  <2> HIDE DEF b, c
  <2> QED BY <2>1, <2>2, <2>3
<1>5. Len(a) = 1 + K /\ a[1] = <<"source", FolderKind>> /\ \A i \in 1 .. K : a[1 + i] = <<"source", ReadKinds[i]>>
  <2> DEFINE d == StageTypes("source")
             Src == {<<"source", k>> : k \in EntityTypes}
  <2>1. d \in Seq(Src) /\ Len(d) = K /\ \A i \in 1 .. K : d[i] = <<"source", ReadKinds[i]>>
    <3>1. {<<"source", k>> : k \in ToSet(ReadKinds)} \subseteq Src
      BY DEF EntityTypes
    <3>2. d \in Seq({<<"source", k>> : k \in ToSet(ReadKinds)}) /\ Len(d) = K
          /\ \A i \in 1 .. K : d[i] = <<"source", ReadKinds[i]>>
      BY TypedFacts
    <3> HIDE DEF d, Src
    <3> QED BY <3>1, <3>2
  <2>2. <<"source", FolderKind>> \in Src
    BY DEF EntityTypes
  <2> DEFINE x == <<"source", FolderKind>>
  <2> HIDE DEF d, Src, x, a, K
  <2>3. a = <<x>> \o d /\ x \in Src
    BY <1>2, <2>2 DEF x, d
  <2>4. Len(a) = Len(d) + 1 /\ a[1] = x /\ \A i \in 1 .. Len(d) : a[i + 1] = d[i]
    BY <2>1, <2>3, Preceded
  <2> QED BY <1>1, <2>1, <2>4 DEF x
<1>6. Len(b) = K /\ (\A i \in 1 .. K : b[i] = <<"transformed", ReadKinds[i]>>)
      /\ Len(c) = K /\ (\A i \in 1 .. K : c[i] = <<"loaded", ReadKinds[i]>>)
  BY TypedFacts
<1>7. CountedTypes = a \o b \o c
  BY DEF CountedTypes
<1> HIDE DEF a, b, c, K
<1> DEFINE ab == a \o b
<1>13. /\ ab \in Seq(Trackers) /\ Len(ab) = 1 + 2 * K
       /\ \A i \in 1 .. 1 + K : ab[i] = a[i]
       /\ \A i \in 1 .. K : ab[1 + K + i] = b[i]
  <2>1. ab \in Seq(Trackers) /\ Len(ab) = Len(a) + Len(b)
        /\ (\A i \in 1 .. Len(a) : ab[i] = a[i]) /\ (\A i \in 1 .. Len(b) : ab[Len(a) + i] = b[i])
    BY <1>3, <1>4, Joined
  <2> HIDE DEF ab
  <2> QED BY <1>1, <1>5, <1>6, <2>1
<1>14. /\ CountedTypes \in Seq(Trackers) /\ Len(CountedTypes) = Len(ab) + Len(c)
       /\ \A i \in 1 .. Len(ab) : CountedTypes[i] = ab[i]
       /\ \A i \in 1 .. Len(c) : CountedTypes[Len(ab) + i] = c[i]
  <2>1. CountedTypes = ab \o c
    BY <1>7
  <2> HIDE DEF ab
  <2>2. ab \in Seq(Trackers) /\ c \in Seq(Trackers)
    BY <1>4, <1>13
  <2> HIDE DEF c
  <2>3. /\ ab \o c \in Seq(Trackers) /\ Len(ab \o c) = Len(ab) + Len(c)
        /\ (\A i \in 1 .. Len(ab) : (ab \o c)[i] = ab[i])
        /\ \A i \in 1 .. Len(c) : (ab \o c)[Len(ab) + i] = c[i]
    BY <2>2, Joined
  <2> QED BY <2>1, <2>3
<1> HIDE DEF ab
<1>8. CountedTypes \in Seq(Trackers) /\ Len(CountedTypes) = 3 * K + 1
  BY <1>1, <1>6, <1>13, <1>14
<1>9. CountedTypes[1] = <<"source", FolderKind>>
  <2>1. 1 \in 1 .. Len(ab) /\ 1 \in 1 .. 1 + K
    BY <1>1, <1>13
  <2> QED BY <1>5, <1>13, <1>14, <2>1
<1>10. ASSUME NEW i \in 1 .. K
       PROVE  /\ CountedTypes[1 + i] = a[1 + i]
              /\ CountedTypes[1 + K + i] = b[i]
              /\ CountedTypes[1 + 2 * K + i] = c[i]
  <2>1. 1 + i \in 1 .. 1 + K /\ 1 + i \in 1 .. Len(ab) /\ 1 + K + i \in 1 .. Len(ab) /\ i \in 1 .. Len(c)
    BY <1>1, <1>6, <1>13
  <2>2. CountedTypes[1 + i] = a[1 + i]
    BY <1>13, <1>14, <2>1
  <2>3. CountedTypes[1 + K + i] = b[i]
    BY <1>13, <1>14, <2>1
  <2>4. CountedTypes[1 + 2 * K + i] = c[i]
    BY <1>13, <1>14, <2>1
  <2> QED BY <2>2, <2>3, <2>4
<1>11. \A i \in 1 .. K : /\ CountedTypes[1 + i] = <<"source", ReadKinds[i]>>
                         /\ CountedTypes[1 + K + i] = <<"transformed", ReadKinds[i]>>
                         /\ CountedTypes[1 + 2 * K + i] = <<"loaded", ReadKinds[i]>>
  BY <1>5, <1>6, <1>10
<1>12. ASSUME NEW i \in 1 .. Len(CountedTypes) PROVE CountedTypes[i][1] \in Stages
  <2>0. i \in 1 .. 3 * K + 1
    BY <1>8
  <2>1. CASE i = 1
    BY <1>9, <2>1 DEF Stages
  <2>2. CASE i \in 2 .. 1 + K
    <3>1. i - 1 \in 1 .. K /\ 1 + (i - 1) = i
      BY <1>1, <2>2
    <3> QED BY <1>11, <3>1 DEF Stages
  <2>3. CASE i \in 2 + K .. 1 + 2 * K
    <3>1. i - 1 - K \in 1 .. K /\ 1 + K + (i - 1 - K) = i
      BY <1>1, <2>3
    <3> QED BY <1>11, <3>1 DEF Stages
  <2>4. CASE i \in 2 + 2 * K .. 1 + 3 * K
    <3>1. i - 1 - 2 * K \in 1 .. K /\ 1 + 2 * K + (i - 1 - 2 * K) = i
      BY <1>1, <2>4
    <3> QED BY <1>11, <3>1 DEF Stages
  <2> QED BY <1>1, <2>0, <2>1, <2>2, <2>3, <2>4
<1> QED BY <1>1, <1>8, <1>9, <1>11, <1>12 DEF K

PlanQueries == Trackers \cup {<<"state">>, <<"mappings">>, <<"issues">>, <<"rest">>}

LEMMA ReadPlanIs ==
    /\ ReadPlan \in Seq(PlanQueries)
    /\ Len(ReadPlan) = Len(CountedTypes) + 4
    /\ ReadPlan[1] = <<"state">> /\ ReadPlan[2] = <<"mappings">>
    /\ \A i \in 1 .. Len(CountedTypes) : ReadPlan[i + 2] = CountedTypes[i]
    /\ ReadPlan[Len(CountedTypes) + 3] = <<"issues">> /\ ReadPlan[Len(CountedTypes) + 4] = <<"rest">>
<1> DEFINE C == CountedTypes
           L == Len(C)
           q1 == <<"state">>
           q2 == <<"mappings">>
           q3 == <<"issues">>
           q4 == <<"rest">>
<1>1. C \in Seq(PlanQueries) /\ L \in Nat
  <2>1. Trackers \subseteq PlanQueries
    BY DEF PlanQueries
  <2>2. CountedTypes \in Seq(Trackers)
    BY CountedTypesAre
  <2>3. CountedTypes \in Seq(PlanQueries)
    BY <2>1, <2>2, SeqWider
  <2> QED BY <2>3
<1>2. q1 \in PlanQueries /\ q2 \in PlanQueries /\ q3 \in PlanQueries /\ q4 \in PlanQueries
  BY DEF PlanQueries
<1>3. ReadPlan = <<q1>> \o <<q2>> \o C \o <<q3>> \o <<q4>>
  BY DEF ReadPlan, Query
<1> HIDE DEF C, q1, q2, q3, q4
<1> DEFINE a == <<q1>> \o <<q2>>
           b == a \o C
           c == b \o <<q3>>
<1>4. a \in Seq(PlanQueries) /\ Len(a) = 2 /\ a[1] = q1 /\ a[2] = q2
  BY <1>2
<1>5. b \in Seq(PlanQueries) /\ Len(b) = 2 + L /\ b[1] = q1 /\ b[2] = q2 /\ \A i \in 1 .. L : b[2 + i] = C[i]
  <2> HIDE DEF a
  <2>1. b \in Seq(PlanQueries) /\ Len(b) = Len(a) + L
        /\ (\A i \in 1 .. Len(a) : b[i] = a[i]) /\ \A i \in 1 .. L : b[Len(a) + i] = C[i]
    <3> DEFINE joined == a \o C
    <3>1. joined \in Seq(PlanQueries) /\ Len(joined) = Len(a) + Len(C)
        /\ (\A i \in 1 .. Len(a) : joined[i] = a[i]) /\ \A i \in 1 .. Len(C) : joined[Len(a) + i] = C[i]
      <4>1. a \in Seq(PlanQueries) /\ C \in Seq(PlanQueries)
        BY <1>1, <1>4
      <4> QED BY ONLY <4>1, Joined
    <3> QED BY <3>1
  <2>2. 1 \in 1 .. Len(a) /\ 2 \in 1 .. Len(a)
    BY <1>4
  <2> HIDE DEF b
  <2> QED BY <1>4, <2>1, <2>2
<1> HIDE DEF a
<1>6. /\ c \in Seq(PlanQueries) /\ Len(c) = 3 + L /\ (\A i \in 1 .. 2 + L : c[i] = b[i])
      /\ c[3 + L] = q3
  <2> HIDE DEF b
  <2>1. <<q3>> \in Seq(PlanQueries) /\ Len(<<q3>>) = 1 /\ <<q3>>[1] = q3
    BY <1>2
  <2>2. c \in Seq(PlanQueries) /\ Len(c) = Len(b) + Len(<<q3>>)
        /\ (\A i \in 1 .. Len(b) : c[i] = b[i]) /\ \A i \in 1 .. Len(<<q3>>) : c[Len(b) + i] = <<q3>>[i]
    BY <1>5, <2>1, Joined
  <2> HIDE DEF c
  <2>3. c[Len(b) + 1] = q3
    BY <2>1, <2>2
  <2> QED BY <1>1, <1>5, <2>1, <2>2, <2>3
<1> HIDE DEF b
<1>7. /\ ReadPlan \in Seq(PlanQueries) /\ Len(ReadPlan) = 4 + L /\ (\A i \in 1 .. 3 + L : ReadPlan[i] = c[i])
      /\ ReadPlan[4 + L] = q4
  <2>0. ReadPlan = c \o <<q4>>
    BY <1>3 DEF a, b
  <2> HIDE DEF c
  <2>1. <<q4>> \in Seq(PlanQueries) /\ Len(<<q4>>) = 1 /\ <<q4>>[1] = q4
    BY <1>2
  <2>2. ReadPlan \in Seq(PlanQueries) /\ Len(ReadPlan) = Len(c) + Len(<<q4>>)
        /\ (\A i \in 1 .. Len(c) : ReadPlan[i] = c[i])
        /\ \A i \in 1 .. Len(<<q4>>) : ReadPlan[Len(c) + i] = <<q4>>[i]
    BY <1>6, <2>0, <2>1, Joined
  <2>3. ReadPlan[Len(c) + 1] = q4
    BY <2>1, <2>2
  <2> QED BY <1>1, <1>6, <2>1, <2>2, <2>3
<1> HIDE DEF c
<1>8. 1 \in 1 .. 3 + L /\ 2 \in 1 .. 3 + L /\ 1 \in 1 .. 2 + L /\ 2 \in 1 .. 2 + L /\ 3 + L \in 1 .. 3 + L
  BY <1>1
<1>9. ReadPlan[1] = q1 /\ ReadPlan[2] = q2 /\ ReadPlan[3 + L] = q3
  BY <1>5, <1>6, <1>7, <1>8
<1>10. ASSUME NEW i \in 1 .. L PROVE ReadPlan[i + 2] = C[i]
  <2>1. 2 + i \in 1 .. 3 + L /\ 2 + i \in 1 .. 2 + L /\ i + 2 = 2 + i
    BY <1>1
  <2> QED BY <1>5, <1>6, <1>7, <2>1
<1>11. L + 3 = 3 + L /\ L + 4 = 4 + L
  BY <1>1
<1> QED BY <1>7, <1>9, <1>10, <1>11 DEF C, q1, q2, q3, q4

-----------------------------------------------------------------------------
(***************************************************************************)
(* The inductive invariant of the dashboard.                               *)
(***************************************************************************)

RowType == [items : Nat, processed : Nat, status : {"not_started", "in_progress", "completed", "failed"},
            started : {FALSE}, completed : BOOLEAN]
ReadingType == [by : {"none", "dashboard", "report"}, todo : Seq(PlanQueries), state : SUBSET Stages,
                source : Nat, transformed : Nat, loaded : Nat, issues : Nat, grown : BOOLEAN]

\* The type invariant of the migration, and of the reading.
MigrationTypes ==
    /\ batchRows \in [Trackers -> Seq(RowType)]
    /\ phases \in [Stages -> {"not_started", "in_progress", "completed", "failed"}]
    /\ kept \in [Trackers -> SUBSET Nat]
    /\ \A t \in Trackers : IsFiniteSet(kept[t])
    /\ work \in [phase : Stages \cup {"none"}, trackers : Seq(Trackers), batches : Seq(SUBSET Nat),
                 made : Nat, done : Nat]
    /\ setting \in [db : Databases, shrunk : BOOLEAN, attempts : Nat, readings : Nat,
                    last : [EntityTypes -> Nat]]
ReadingTypes == reading \in ReadingType

\* The entities a tracker works on, and how many there are.
Listed(t) == IF t[1] = "source" THEN 1 .. setting.last[t[2]] ELSE kept[Input(t)]
SizeOf(t) == IF t[1] = "source" THEN setting.last[t[2]] ELSE Cardinality(kept[Input(t)])

\* The running phase works on its own trackers, and its batches are cut from what is listed.
WorkShape ==
    /\ work.phase = "none" => work = Resting
    /\ work.phase # "none" => phases[work.phase] = "in_progress"
    /\ \A i \in 1 .. Len(work.trackers) : Stage(work.trackers[i]) = work.phase
    /\ work.batches = << >> => work.made = 0 /\ work.done = 0
    /\ work.batches # << >> =>
         /\ work.trackers # << >> /\ work.batches = Batched(Listed(Tracker))
         /\ work.made <= Len(work.batches) /\ work.done < Len(work.batches)
         /\ work.made <= Len(batchRows[Tracker])
         /\ \A n \in 1 .. work.made : batchRows[Tracker][n].items = Capacity(n, SizeOf(Tracker))

\* A phase starts when the one before it is complete, and its rows are made afterwards.
PhaseOrder ==
    /\ phases["transformed"] # "not_started" => phases["source"] = "completed"
    /\ phases["loaded"] # "not_started" => phases["transformed"] = "completed"
    /\ \A t \in Trackers : t[1] # "source" /\ batchRows[t] # << >> => phases["source"] = "completed"

\* While the project does not shrink: no row counts more than its batch may hold, nothing is
\* kept that is not in the project, and there are no more rows than batches.
RowsFit == ~ setting.shrunk =>
    /\ \A t \in Trackers : \A n \in 1 .. Len(batchRows[t]) :
         /\ batchRows[t][n].processed <= batchRows[t][n].items
         /\ batchRows[t][n].items <= Capacity(n, SizeOf(t))
    /\ \A k \in EntityTypes : /\ kept[<<"source", k>>] \subseteq 1 .. setting.last[k]
                              /\ Len(batchRows[<<"source", k>>]) <= BatchCount(setting.last[k])
    /\ \A k \in ToSet(ReadKinds) : kept[<<"transformed", k>>] \subseteq kept[<<"source", k>>]

\* The rows of a kind are those of its batches, once it is extracted.
Exact(k) ==
    /\ Len(batchRows[<<"source", k>>]) = BatchCount(setting.last[k])
    /\ \A n \in 1 .. Len(batchRows[<<"source", k>>]) :
          batchRows[<<"source", k>>][n].items = Capacity(n, setting.last[k])
Extracted(k) ==
    \/ phases["source"] = "completed"
    \/ work.phase = "source" /\ <<"source", k>> \notin ToSet(work.trackers)
SourceWhole == ~ setting.shrunk => \A k \in EntityTypes : Extracted(k) => Exact(k)

\* How many types a reading has counted; the counts of the first types of a stage, and the
\* sizes of what the source has of them.
ReadSoFar ==
    IF Len(reading.todo) <= 2 THEN Len(CountedTypes)
    ELSE IF Len(reading.todo) >= Len(CountedTypes) + 2 THEN 0
    ELSE Len(CountedTypes) + 2 - Len(reading.todo)
CountedUpTo(p, m) ==
    Total([i \in 1 .. m |-> IF CountedTypes[i][1] = p THEN EntityCount(CountedTypes[i]) ELSE 0])
LastUpTo(p, m) ==
    Total([i \in 1 .. m |-> IF CountedTypes[i][1] = p THEN setting.last[CountedTypes[i][2]] ELSE 0])

\* What a reading knows is what it would read again: of completed phases, and of the source
\* when no batch of it was made meanwhile.
ReadingKnows == reading.todo # << >> =>
    /\ Len(reading.todo) <= Len(ReadPlan)
    /\ reading.todo = SubSeq(ReadPlan, Len(ReadPlan) - Len(reading.todo) + 1, Len(ReadPlan))
    /\ ReadSoFar = 0 => \A p \in Stages : reading[p] = 0
    /\ \A p \in reading.state : phases[p] = "completed" /\ reading[p] = CountedUpTo(p, ReadSoFar)
    /\ ~ reading.grown => reading.source = CountedUpTo("source", ReadSoFar)
    /\ ~ setting.shrunk => \A p \in {"transformed", "loaded"} :
         reading[p] > 0 => phases["source"] = "completed" /\ reading[p] <= LastUpTo(p, ReadSoFar)

DashboardInv ==
    /\ MigrationTypes /\ ReadingTypes /\ WorkShape /\ PhaseOrder /\ RowsFit /\ SourceWhole
    /\ ReadingKnows

-----------------------------------------------------------------------------
(***************************************************************************)
(* What the invariant says of the counts.                                  *)
(***************************************************************************)

LEMMA ColumnTypes ==
    ASSUME MigrationTypes, NEW t \in Trackers
    PROVE  /\ Len(batchRows[t]) \in Nat /\ DOMAIN batchRows[t] = 1 .. Len(batchRows[t])
           /\ batchRows[t] \in Seq(RowType)
           /\ \A n \in 1 .. Len(batchRows[t]) : batchRows[t][n] \in RowType
           /\ ItemCounts(t) \in Seq(Nat) /\ Len(ItemCounts(t)) = Len(batchRows[t])
           /\ ProcessedCounts(t) \in Seq(Nat) /\ Len(ProcessedCounts(t)) = Len(batchRows[t])
           /\ CompletedCounts(t) \in Seq(Nat) /\ Len(CompletedCounts(t)) = Len(batchRows[t])
           /\ EntityCount(t) \in Nat
<1>1. batchRows[t] \in Seq(RowType)
  BY DEF MigrationTypes
<1>2. Len(batchRows[t]) \in Nat /\ DOMAIN batchRows[t] = 1 .. Len(batchRows[t])
      /\ \A n \in 1 .. Len(batchRows[t]) : batchRows[t][n] \in RowType
  BY <1>1
<1>3. \A r \in RowType : r.items \in Nat /\ r.processed \in Nat
  BY DEF RowType
<1>4. ItemCounts(t) \in Seq(Nat) /\ Len(ItemCounts(t)) = Len(batchRows[t])
  BY <1>2, <1>3 DEF ItemCounts
<1>5. ProcessedCounts(t) \in Seq(Nat) /\ Len(ProcessedCounts(t)) = Len(batchRows[t])
  BY <1>2, <1>3 DEF ProcessedCounts
<1>6. CompletedCounts(t) \in Seq(Nat) /\ Len(CompletedCounts(t)) = Len(batchRows[t])
  <2>1. \A n \in 1 .. Len(batchRows[t]) :
          (IF batchRows[t][n].status = "completed" THEN batchRows[t][n].processed ELSE 0) \in Nat
    BY <1>2, <1>3
  <2> QED BY <1>2, <2>1 DEF CompletedCounts
<1>7. EntityCount(t) \in Nat
  BY <1>4, <1>6, TotalNat DEF EntityCount
<1> QED BY <1>1, <1>2, <1>4, <1>5, <1>6, <1>7

LEMMA SizeFacts ==
    ASSUME MigrationTypes, NEW t \in Trackers
    PROVE  /\ SizeOf(t) \in Nat
           /\ Listed(t) \in SUBSET Nat /\ IsFiniteSet(Listed(t)) /\ Cardinality(Listed(t)) = SizeOf(t)
<1>1. CASE t[1] = "source"
  <2> DEFINE z == setting.last[t[2]]
  <2>1. z \in Nat
    BY TrackerFacts DEF MigrationTypes
  <2>2. SizeOf(t) = z /\ Listed(t) = 1 .. z
    BY <1>1 DEF SizeOf, Listed
  <2> HIDE DEF z
  <2>3. IsFiniteSet(1 .. z) /\ Cardinality(1 .. z) = IF 1 > z THEN 0 ELSE z - 1 + 1
    BY <2>1, FS_Interval
  <2> QED BY <2>1, <2>2, <2>3
<1>2. CASE t[1] # "source"
  <2>1. Input(t) \in Trackers
    BY <1>2, TrackerFacts
  <2>2. SizeOf(t) = Cardinality(kept[Input(t)]) /\ Listed(t) = kept[Input(t)]
    BY <1>2 DEF SizeOf, Listed
  <2>3. kept[Input(t)] \in SUBSET Nat /\ IsFiniteSet(kept[Input(t)])
    BY <2>1 DEF MigrationTypes
  <2> QED BY <2>2, <2>3, FS_CardinalityType
<1> QED BY <1>1, <1>2

\* What is counted of a type is no more than there is.
LEMMA CountsFit ==
    ASSUME MigrationTypes, RowsFit, ~ setting.shrunk, NEW t \in Trackers, t[1] # "source"
    PROVE  EntityCount(t) <= SizeOf(t)
<1> DEFINE N == SizeOf(t)
           m == Len(batchRows[t])
           caps == [n \in 1 .. m |-> Capacity(n, N)]
<1>1. N \in Nat
  BY SizeFacts
<1>2. m \in Nat /\ CompletedCounts(t) \in Seq(Nat) /\ Len(CompletedCounts(t)) = m
      /\ DOMAIN batchRows[t] = 1 .. m /\ \A n \in 1 .. m : batchRows[t][n] \in RowType
  BY ColumnTypes
<1>3. \A n \in 1 .. m : /\ batchRows[t][n].processed <= batchRows[t][n].items
                        /\ batchRows[t][n].items <= Capacity(n, N)
  BY DEF RowsFit
<1>4. EntityCount(t) = Total(CompletedCounts(t))
  BY DEF EntityCount
<1>5. \A r \in RowType : r.items \in Nat /\ r.processed \in Nat
  BY DEF RowType
<1>6. CompletedCounts(t) = [n \in 1 .. m |->
        IF batchRows[t][n].status = "completed" THEN batchRows[t][n].processed ELSE 0]
  BY <1>2 DEF CompletedCounts
<1> HIDE DEF N, m
<1>7. \A n \in 1 .. m : Capacity(n, N) \in Nat
  <2> TAKE n \in 1 .. m
  <2>1. n \in Nat /\ n > 0
    BY <1>2
  <2> QED BY <1>1, <2>1, CapacityFacts
<1>8. caps \in Seq(Nat) /\ Len(caps) = m /\ \A n \in 1 .. m : caps[n] = Capacity(n, N)
  BY <1>2, <1>7
<1> HIDE DEF caps
<1>9. \A n \in 1 .. m : CompletedCounts(t)[n] <= caps[n]
  <2> TAKE n \in 1 .. m
  <2>1. batchRows[t][n].items \in Nat /\ batchRows[t][n].processed \in Nat /\ Capacity(n, N) \in Nat
    BY <1>2, <1>5, <1>7
  <2>2. batchRows[t][n].processed <= batchRows[t][n].items /\ batchRows[t][n].items <= Capacity(n, N)
    BY <1>3
  <2>3. CompletedCounts(t)[n] = IF batchRows[t][n].status = "completed" THEN batchRows[t][n].processed ELSE 0
    BY <1>6
  <2> QED BY <1>8, <2>1, <2>2, <2>3
<1>10. Total(CompletedCounts(t)) <= Total(caps)
  BY <1>2, <1>8, <1>9, TotalCompare
<1>11. Total(caps) = Before(m, N)
  BY <1>1, <1>8, CapacitySum
<1>12. Before(m, N) <= N /\ Before(m, N) \in Nat
  <2>1. m * TrackedSize \in Nat
    BY <1>2, DashAssumption
  <2> HIDE DEF m
  <2> QED BY <1>1, <2>1 DEF Before
<1>13. Total(CompletedCounts(t)) \in Nat
  BY <1>2, TotalNat
<1> QED BY <1>1, <1>4, <1>10, <1>11, <1>12, <1>13 DEF N

\* What an extraction has counted is what there is.
LEMMA ExactCount ==
    ASSUME MigrationTypes, NEW k \in EntityTypes, Exact(k)
    PROVE  EntityCount(<<"source", k>>) = setting.last[k]
<1> DEFINE t == <<"source", k>>
           N == setting.last[k]
           m == Len(batchRows[t])
<1>0. t \in Trackers
  BY TrackerFacts
<1>1. N \in Nat
  BY DEF MigrationTypes
<1>2. m \in Nat /\ ItemCounts(t) \in Seq(Nat) /\ Len(ItemCounts(t)) = m /\ DOMAIN batchRows[t] = 1 .. m
  BY <1>0, ColumnTypes
<1>3. m = BatchCount(N) /\ \A n \in 1 .. m : batchRows[t][n].items = Capacity(n, N)
  BY DEF Exact
<1>4. \A n \in 1 .. m : ItemCounts(t)[n] = batchRows[t][n].items
  BY <1>2 DEF ItemCounts
<1>5. EntityCount(t) = Total(ItemCounts(t))
  BY DEF EntityCount
<1> HIDE DEF t, N, m
<1>6. Total(ItemCounts(t)) = Before(m, N)
  BY <1>1, <1>2, <1>3, <1>4, CapacitySum
<1>7. Before(m, N) = N
  <2>0. N <= BatchCount(N) * TrackedSize
    BY <1>1, BatchCountFacts
  <2>1. N <= m * TrackedSize /\ m * TrackedSize \in Nat
    BY <1>2, <1>3, <2>0, DashAssumption
  <2> QED BY <1>1, <2>1 DEF Before
<1> QED BY <1>5, <1>6, <1>7 DEF t, N

-----------------------------------------------------------------------------
(***************************************************************************)
(* What the invariant says of what is shown.                               *)
(***************************************************************************)

\* Two stretches of the same numbers add the same.
Stretch(s, a, r, b, m) == a + m <= Len(s) /\ b + m <= Len(r) /\ \A i \in 1 .. m : s[a + i] = r[b + i]

LEMMA SumsShift ==
    ASSUME NEW s \in Seq(Nat), NEW r \in Seq(Nat), NEW g, NEW h, Sums(s, g), Sums(r, h),
           NEW a \in Nat, NEW b \in Nat, NEW m \in Nat, Stretch(s, a, r, b, m)
    PROVE  g[a + m] + h[b] = h[b + m] + g[a]
<1> DEFINE T == {n \in Nat : n \in 0 .. m => g[a + n] + h[b] = h[b + n] + g[a]}
<1> USE DEF Stretch
<1>0. Len(s) \in Nat /\ Len(r) \in Nat
  OBVIOUS
<1>1. 0 \in T
  <2>1. a + 0 = a /\ b + 0 = b /\ a \in 0 .. Len(s) /\ b \in 0 .. Len(r)
    BY <1>0
  <2>2. g[a] \in Nat /\ h[b] \in Nat
    BY <2>1 DEF Sums
  <2>3. g[a + 0] + h[b] = h[b + 0] + g[a]
    BY <2>1, <2>2
  <2> QED BY <2>3
<1>2. ASSUME NEW n \in T PROVE n + 1 \in T
  <2> SUFFICES ASSUME n + 1 \in 0 .. m PROVE g[a + (n + 1)] + h[b] = h[b + (n + 1)] + g[a]
    OBVIOUS
  <2>1. n \in 0 .. m /\ n + 1 \in 1 .. m /\ a + (n + 1) \in 1 .. Len(s) /\ b + (n + 1) \in 1 .. Len(r)
        /\ a + (n + 1) - 1 = a + n /\ b + (n + 1) - 1 = b + n /\ a \in 0 .. Len(s) /\ b \in 0 .. Len(r)
        /\ a + n \in 0 .. Len(s) /\ b + n \in 0 .. Len(r)
    BY <1>0
  <2>2. g[a + (n + 1)] = g[a + n] + s[a + (n + 1)]
    BY <2>1 DEF Sums
  <2>3. h[b + (n + 1)] = h[b + n] + r[b + (n + 1)]
    BY <2>1 DEF Sums
  <2>4. s[a + (n + 1)] = r[b + (n + 1)]
    BY <2>1
  <2>5. g[a] \in Nat /\ h[b] \in Nat /\ g[a + n] \in Nat /\ h[b + n] \in Nat
    BY <2>1 DEF Sums
  <2>6. r[b + (n + 1)] \in Nat
    BY <2>1
  <2>7. g[a + n] + h[b] = h[b + n] + g[a]
    BY <2>1
  <2>9. (g[a + n] + r[b + (n + 1)]) + h[b] = (h[b + n] + r[b + (n + 1)]) + g[a]
    <3> DEFINE u == g[a + n]
               v == h[b]
               w == h[b + n]
               x == g[a]
               y == r[b + (n + 1)]
    <3>1. u \in Nat /\ v \in Nat /\ w \in Nat /\ x \in Nat /\ y \in Nat /\ u + v = w + x
      BY <2>5, <2>6, <2>7
    <3> HIDE DEF u, v, w, x, y
    <3>2. (u + y) + v = (w + y) + x
      BY ONLY <3>1
    <3> QED BY <3>2 DEF u, v, w, x, y
  <2> QED BY <2>2, <2>3, <2>4, <2>9
<1>3. T = Nat
  <2>1. T \in SUBSET Nat
    OBVIOUS
  <2> HIDE DEF T
  <2> QED BY <1>1, <1>2, <2>1, AllNumbers
<1>4. m \in 0 .. m
  OBVIOUS
<1> QED BY <1>3, <1>4

\* Partial sums never fall, and stay where nothing is added.
LEMMA SumsRise ==
    ASSUME NEW s \in Seq(Nat), NEW g, Sums(s, g), NEW a \in Nat, NEW m \in Nat, a + m <= Len(s)
    PROVE  /\ g[a] <= g[a + m]
           /\ (\A i \in 1 .. m : s[a + i] = 0) => g[a + m] = g[a]
<1> DEFINE T == {n \in Nat : n \in 0 .. m => /\ g[a] <= g[a + n]
                                             /\ (\A i \in 1 .. m : s[a + i] = 0) => g[a + n] = g[a]}
<1>0. Len(s) \in Nat
  OBVIOUS
<1>1. 0 \in T
  <2>1. a + 0 = a /\ a \in 0 .. Len(s)
    BY <1>0
  <2>2. g[a] \in Nat
    BY <2>1 DEF Sums
  <2>3. g[a] <= g[a + 0] /\ g[a + 0] = g[a]
    BY <2>1, <2>2
  <2> QED BY <2>3
<1>2. ASSUME NEW n \in T PROVE n + 1 \in T
  <2> SUFFICES ASSUME n + 1 \in 0 .. m
               PROVE  /\ g[a] <= g[a + (n + 1)]
                      /\ (\A i \in 1 .. m : s[a + i] = 0) => g[a + (n + 1)] = g[a]
    OBVIOUS
  <2>1. n \in 0 .. m /\ n + 1 \in 1 .. m /\ a + (n + 1) \in 1 .. Len(s) /\ a + (n + 1) - 1 = a + n
        /\ a \in 0 .. Len(s) /\ a + n \in 0 .. Len(s)
    BY <1>0
  <2>2. g[a + (n + 1)] = g[a + n] + s[a + (n + 1)]
    BY <2>1 DEF Sums
  <2>5. g[a] \in Nat /\ g[a + n] \in Nat
    BY <2>1 DEF Sums
  <2>6. s[a + (n + 1)] \in Nat
    BY <2>1
  <2>7. g[a] <= g[a + n] /\ ((\A i \in 1 .. m : s[a + i] = 0) => g[a + n] = g[a])
    BY <2>1
  <2>8. g[a] <= g[a + (n + 1)]
    BY <2>2, <2>5, <2>6, <2>7
  <2>9. ASSUME \A i \in 1 .. m : s[a + i] = 0 PROVE g[a + (n + 1)] = g[a]
    <3>1. s[a + (n + 1)] = 0 /\ g[a + n] = g[a]
      BY <2>1, <2>7, <2>9
    <3> QED BY <2>2, <2>5, <3>1
  <2> QED BY <2>8, <2>9
<1>3. T = Nat
  <2>1. T \in SUBSET Nat
    OBVIOUS
  <2> HIDE DEF T
  <2> QED BY <1>1, <1>2, <2>1, AllNumbers
<1>4. m \in 0 .. m
  OBVIOUS
<1> QED BY <1>3, <1>4

\* The sizes of a stage, type by type.
Sizes1(p, m) == [i \in 1 .. m |-> IF CountedTypes[i][1] = p THEN setting.last[CountedTypes[i][2]] ELSE 0]

LEMMA SizesTypes ==
    ASSUME MigrationTypes, NEW p, NEW m \in 0 .. Len(CountedTypes)
    PROVE  Sizes1(p, m) \in Seq(Nat) /\ Len(Sizes1(p, m)) = m /\ m \in Nat
<1>1. CountedTypes \in Seq(Trackers)
  BY CountedTypesAre
<1>2. m \in Nat /\ \A i \in 1 .. m : CountedTypes[i] \in Trackers
  BY <1>1
<1>3. \A t \in Trackers : setting.last[t[2]] \in Nat
  BY TrackerFacts DEF MigrationTypes
<1>4. \A i \in 1 .. m : (IF CountedTypes[i][1] = p THEN setting.last[CountedTypes[i][2]] ELSE 0) \in Nat
  BY <1>2, <1>3
<1> QED BY <1>2, <1>4 DEF Sizes1

\* What is counted of a stage, type by type.
Counts(p, m) == [i \in 1 .. m |-> IF CountedTypes[i][1] = p THEN EntityCount(CountedTypes[i]) ELSE 0]

LEMMA CountsTypes ==
    ASSUME MigrationTypes, NEW p, NEW m \in 0 .. Len(CountedTypes)
    PROVE  Counts(p, m) \in Seq(Nat) /\ Len(Counts(p, m)) = m /\ m \in Nat
<1>1. CountedTypes \in Seq(Trackers)
  BY CountedTypesAre
<1>2. m \in Nat /\ \A i \in 1 .. m : CountedTypes[i] \in Trackers
  BY <1>1
<1>3. \A t \in Trackers : EntityCount(t) \in Nat
  BY ColumnTypes
<1>4. \A i \in 1 .. m : (IF CountedTypes[i][1] = p THEN EntityCount(CountedTypes[i]) ELSE 0) \in Nat
  BY <1>2, <1>3
<1> QED BY <1>2, <1>4 DEF Counts

\* The source has all of the types that are transformed and loaded, and the folders.
LEMMA SourceHasMore ==
    ASSUME MigrationTypes, NEW p \in {"transformed", "loaded"}
    PROVE  LastUpTo(p, Len(CountedTypes)) <= LastUpTo("source", Len(CountedTypes))
<1> DEFINE K == Len(ReadKinds)
           L == Len(CountedTypes)
           d == IF p = "transformed" THEN 1 + K ELSE 1 + 2 * K
           s == Sizes1("source", L)
           r == Sizes1(p, L)
<1>1. K \in Nat /\ L = 3 * K + 1
  BY CountedTypesAre
<1>2. L \in 0 .. Len(CountedTypes)
  BY <1>1
<1>3. s \in Seq(Nat) /\ Len(s) = L /\ r \in Seq(Nat) /\ Len(r) = L
  BY <1>2, SizesTypes
<1>4. LastUpTo("source", L) = Total(s) /\ LastUpTo(p, L) = Total(r)
  BY DEF LastUpTo, Sizes1
<1>5. CountedTypes[1][1] = "source"
  BY CountedTypesAre
<1>6. \A i \in 1 .. K : /\ CountedTypes[1 + i] = <<"source", ReadKinds[i]>>
                        /\ CountedTypes[1 + K + i] = <<"transformed", ReadKinds[i]>>
                        /\ CountedTypes[1 + 2 * K + i] = <<"loaded", ReadKinds[i]>>
  BY CountedTypesAre
<1>7. \A i \in 1 .. L : /\ s[i] = IF CountedTypes[i][1] = "source" THEN setting.last[CountedTypes[i][2]] ELSE 0
                        /\ r[i] = IF CountedTypes[i][1] = p THEN setting.last[CountedTypes[i][2]] ELSE 0
  BY DEF Sizes1
<1>8. d \in Nat /\ d + K <= L /\ d >= 1
  BY <1>1
<1>9. ASSUME NEW i \in 1 .. K PROVE r[d + i] = s[1 + i]
  <2>1. CountedTypes[d + i] = <<p, ReadKinds[i]>>
    BY <1>6
  <2>2. d + i \in 1 .. L /\ 1 + i \in 1 .. L
    BY <1>1, <1>8
  <2>3. r[d + i] = setting.last[ReadKinds[i]]
    BY <1>7, <2>1, <2>2
  <2>4. s[1 + i] = setting.last[ReadKinds[i]]
    BY <1>6, <1>7, <2>2
  <2> QED BY <2>3, <2>4
<1>10. ASSUME NEW i \in 1 .. L, i \notin d + 1 .. d + K PROVE r[i] = 0
  <2>1. CASE i = 1
    BY <1>5, <1>7, <2>1
  <2>2. CASE i \in 2 .. 1 + K
    <3> DEFINE j == i - 1
    <3>1. j \in 1 .. K /\ 1 + j = i
      BY <1>1, <2>2
    <3> HIDE DEF j
    <3>2. CountedTypes[i][1] = "source"
      BY <1>6, <3>1
    <3> QED BY <1>7, <3>2
  <2>3. CASE i \in 2 + K .. 1 + 2 * K
    <3> DEFINE j == i - 1 - K
    <3>1. j \in 1 .. K /\ 1 + K + j = i
      BY <1>1, <2>3
    <3> HIDE DEF j
    <3>2. CountedTypes[i][1] = "transformed"
      BY <1>6, <3>1
    <3>3. p # "transformed"
      BY <1>1, <1>10, <2>3
    <3> QED BY <1>7, <3>2, <3>3
  <2>4. CASE i \in 2 + 2 * K .. 1 + 3 * K
    <3> DEFINE j == i - 1 - 2 * K
    <3>1. j \in 1 .. K /\ 1 + 2 * K + j = i
      BY <1>1, <2>4
    <3> HIDE DEF j
    <3>2. CountedTypes[i][1] = "loaded"
      BY <1>6, <3>1
    <3>3. p # "loaded"
      BY <1>1, <1>10, <2>4
    <3> QED BY <1>7, <3>2, <3>3
  <2> QED BY <1>1, <2>1, <2>2, <2>3, <2>4
<1> HIDE DEF s, r, d
<1>11. PICK g : Sums(s, g) /\ Total(s) = g[Len(s)]
  BY <1>3, TotalIs
<1>12. PICK h : Sums(r, h) /\ Total(r) = h[Len(r)]
  BY <1>3, TotalIs
<1> HIDE DEF K, L
<1>13. h[d] = 0
  <2>1. \A i \in 1 .. d : r[0 + i] = 0
    <3> TAKE i \in 1 .. d
    <3>1. i \in 1 .. L /\ i \notin d + 1 .. d + K /\ 0 + i = i
      BY <1>1, <1>8
    <3> QED BY <1>10, <3>1
  <2>2. 0 \in Nat /\ 0 + d = d /\ 0 + d <= Len(r)
    BY <1>1, <1>3, <1>8
  <2>3. h[0 + d] = h[0]
    BY <1>3, <1>8, <1>12, <2>1, <2>2, SumsRise
  <2> QED BY <1>12, <2>2, <2>3 DEF Sums
<1>14. g[1 + K] + h[d] = h[d + K] + g[1]
  <2> DEFINE a == 1
  <2>1. a + K <= Len(s) /\ d + K <= Len(r) /\ a \in Nat
    BY <1>1, <1>3, <1>8
  <2>2. \A i \in 1 .. K : s[a + i] = r[d + i]
    BY <1>9
  <2>3. s \in Seq(Nat) /\ r \in Seq(Nat) /\ Sums(s, g) /\ Sums(r, h) /\ d \in Nat /\ K \in Nat
    BY <1>1, <1>3, <1>8, <1>11, <1>12
  <2> HIDE DEF a
  <2>5. Stretch(s, a, r, d, K)
    BY <2>1, <2>2 DEF Stretch
  <2>4. g[a + K] + h[d] = h[d + K] + g[a]
    BY <2>1, <2>3, <2>5, SumsShift
  <2> QED BY <2>4 DEF a
<1>15. h[L] = h[d + K]
  <2> DEFINE m == L - (d + K)
  <2>1. m \in Nat /\ d + K \in Nat /\ (d + K) + m = L
    BY <1>1, <1>8
  <2>2. \A i \in 1 .. m : r[(d + K) + i] = 0
    <3> TAKE i \in 1 .. m
    <3>1. (d + K) + i \in 1 .. L /\ (d + K) + i \notin d + 1 .. d + K
      BY <1>1, <1>8
    <3> QED BY <1>10, <3>1
  <2> DEFINE a == d + K
  <2>3. a + m <= Len(r) /\ a \in Nat /\ m \in Nat /\ a + m = L /\ \A i \in 1 .. m : r[a + i] = 0
    BY <1>1, <1>3, <2>1, <2>2
  <2> HIDE DEF m, a
  <2>4. h[a + m] = h[a]
    BY <1>3, <1>12, <2>3, SumsRise
  <2> QED BY <2>3, <2>4 DEF a
<1>16. g[1 + K] <= g[L]
  <2> DEFINE m == L - (1 + K)
  <2>1. m \in Nat /\ 1 + K \in Nat /\ (1 + K) + m = L
    BY <1>1
  <2> HIDE DEF m
  <2>3. (1 + K) + m <= Len(s)
    BY <1>1, <1>3, <2>1
  <2>4. g[1 + K] <= g[(1 + K) + m]
    BY <1>3, <1>11, <2>1, <2>3, SumsRise
  <2> QED BY <2>1, <2>4
<1>17. g[1 + K] \in Nat /\ g[1] \in Nat /\ g[L] \in Nat /\ h[L] \in Nat /\ h[d + K] \in Nat
  <2>1. 1 + K \in 0 .. Len(s) /\ 1 \in 0 .. Len(s) /\ L \in 0 .. Len(s) /\ L \in 0 .. Len(r)
        /\ d + K \in 0 .. Len(r)
    BY <1>1, <1>3, <1>8
  <2> QED BY <1>11, <1>12, <2>1 DEF Sums
<1>18. h[L] <= g[L]
  BY <1>13, <1>14, <1>15, <1>16, <1>17
<1> QED BY <1>3, <1>4, <1>11, <1>12, <1>18 DEF L

\* No row has a start, so that no time is shown.
LEMMA NoTimesShown ==
    ASSUME MigrationTypes
    PROVE  NoTimes
<1>1. ASSUME NEW ts \in SUBSET Trackers PROVE ~ Timed(ts)
  <2>1. \A t \in ts : \A i \in DOMAIN batchRows[t] : ~ batchRows[t][i].started
    <3> TAKE t \in ts
    <3> TAKE i \in DOMAIN batchRows[t]
    <3>1. batchRows[t][i] \in RowType
      BY ColumnTypes
    <3> QED BY <3>1 DEF RowType
  <2> QED BY <2>1 DEF Timed
<1>2. ToSet(CountedTypes) \subseteq Trackers
  BY CountedTypesAre DEF ToSet
<1>3. TimedPhases = {}
  BY <1>1, <1>2 DEF TimedPhases
<1>4. ~ Timed(ToSet(CountedTypes))
  BY <1>1, <1>2
<1> QED BY <1>3, <1>4 DEF NoTimes, RatedPhases

LEMMA StatisticsShown ==
    ASSUME MigrationTypes, RowsFit
    PROVE  StatisticsAddUp
<1> SUFFICES ASSUME NEW t \in Trackers
             PROVE  /\ RowsWith(t, {"completed"}) + RowsWith(t, {"failed"})
                       + RowsWith(t, {"not_started", "in_progress"}) = Len(batchRows[t])
                    /\ Total(ProcessedCounts(t)) <= Total(ItemCounts(t)) \/ setting.shrunk
  <2>1. ASSUME NEW t \in Trackers,
               /\ RowsWith(t, {"completed"}) + RowsWith(t, {"failed"})
                  + RowsWith(t, {"not_started", "in_progress"}) = Len(batchRows[t])
               /\ Total(ProcessedCounts(t)) <= Total(ItemCounts(t)) \/ setting.shrunk
        PROVE  LET s == BatchStatistics(t)
               IN  /\ s.completed + s.failed + s.pending = s.total
                   /\ s.processed <= s.items \/ setting.shrunk
    BY <2>1 DEF BatchStatistics
  <2> QED BY <2>1 DEF StatisticsAddUp
<1> DEFINE m == Len(batchRows[t])
           A(ss) == {i \in 1 .. m : batchRows[t][i].status \in ss}
           a == A({"completed"})
           b == A({"failed"})
           c == A({"not_started", "in_progress"})
<1>1. m \in Nat /\ DOMAIN batchRows[t] = 1 .. m /\ \A n \in 1 .. m : batchRows[t][n] \in RowType
  BY ColumnTypes
<1>2. RowsWith(t, {"completed"}) = Cardinality(a) /\ RowsWith(t, {"failed"}) = Cardinality(b)
      /\ RowsWith(t, {"not_started", "in_progress"}) = Cardinality(c)
  BY <1>1 DEF RowsWith
<1>3. \A n \in 1 .. m : batchRows[t][n].status \in {"not_started", "in_progress", "completed", "failed"}
  BY <1>1 DEF RowType
<1>4. (a \cup b) \cup c = 1 .. m /\ a \cap b = {} /\ (a \cup b) \cap c = {}
  <2> HIDE DEF m
  <2> QED BY <1>3
<1>5. IsFiniteSet(1 .. m) /\ Cardinality(1 .. m) = m
  <2> HIDE DEF m
  <2>1. IsFiniteSet(1 .. m) /\ Cardinality(1 .. m) = IF 1 > m THEN 0 ELSE m - 1 + 1
    BY <1>1, FS_Interval
  <2> QED BY <1>1, <2>1
<1>6. a \subseteq 1 .. m /\ b \subseteq 1 .. m /\ c \subseteq 1 .. m
  OBVIOUS
<1> HIDE DEF m, a, b, c
<1>7. IsFiniteSet(a) /\ IsFiniteSet(b) /\ IsFiniteSet(c)
  BY <1>5, <1>6, FS_Subset
<1>8. IsFiniteSet(a \cup b) /\ Cardinality(a \cup b) = Cardinality(a) + Cardinality(b) - Cardinality(a \cap b)
  BY <1>7, FS_Union
<1>9. Cardinality((a \cup b) \cup c) = Cardinality(a \cup b) + Cardinality(c) - Cardinality((a \cup b) \cap c)
  BY <1>7, <1>8, FS_Union
<1>10. Cardinality({}) = 0 /\ Cardinality(a) \in Nat /\ Cardinality(b) \in Nat /\ Cardinality(c) \in Nat
  BY <1>7, FS_EmptySet, FS_CardinalityType
<1>15. Cardinality(a \cap b) = 0 /\ Cardinality((a \cup b) \cap c) = 0
  BY <1>4, <1>10
<1>12. Cardinality((a \cup b) \cup c) = Cardinality(a) + Cardinality(b) + Cardinality(c)
  <2> DEFINE ca == Cardinality(a)
             cb == Cardinality(b)
             cc == Cardinality(c)
             d == Cardinality(a \cup b)
             e == Cardinality((a \cup b) \cup c)
  <2>1. d = ca + cb - 0 /\ e = d + cc - 0 /\ ca \in Nat /\ cb \in Nat /\ cc \in Nat
    BY <1>8, <1>9, <1>10, <1>15
  <2> HIDE DEF ca, cb, cc, d, e
  <2>2. e = ca + cb + cc
    BY <2>1
  <2> QED BY <2>2 DEF ca, cb, cc, e
<1>13. RowsWith(t, {"completed"}) + RowsWith(t, {"failed"}) + RowsWith(t, {"not_started", "in_progress"})
       = Len(batchRows[t])
  BY <1>2, <1>4, <1>5, <1>12 DEF m
<1>14. ASSUME ~ setting.shrunk PROVE Total(ProcessedCounts(t)) <= Total(ItemCounts(t))
  <2>1. ProcessedCounts(t) \in Seq(Nat) /\ ItemCounts(t) \in Seq(Nat)
        /\ Len(ProcessedCounts(t)) = m /\ Len(ItemCounts(t)) = m
    BY ColumnTypes DEF m
  <2>2. \A n \in 1 .. m : batchRows[t][n].processed <= batchRows[t][n].items
    BY <1>14 DEF RowsFit, m
  <2>3. \A n \in 1 .. m : ProcessedCounts(t)[n] <= ItemCounts(t)[n]
    BY <1>1, <2>2 DEF ProcessedCounts, ItemCounts
  <2> QED BY <2>1, <2>3, TotalCompare
<1> QED BY <1>13, <1>14

\* A reading that only has the statistics left has counted every type.
LEMMA CountedAll ==
    ASSUME ReadingTypes, Counted
    PROVE  reading.todo # << >> /\ ReadSoFar = Len(CountedTypes)
<1>1. reading.todo = << <<"rest">> >>
  BY DEF Counted, Query
<1>2. Len(reading.todo) = 1 /\ reading.todo # << >>
  BY <1>1
<1> QED BY <1>2 DEF ReadSoFar

LEMMA CompletedShown ==
    ASSUME MigrationTypes, ReadingTypes, ReadingKnows
    PROVE  CompletedIsFinal
<1> SUFFICES ASSUME Counted, NEW p \in reading.state PROVE reading[p] = CountNow(p)
  BY DEF CompletedIsFinal
<1>1. reading[p] = CountedUpTo(p, Len(CountedTypes))
  BY CountedAll DEF ReadingKnows
<1>2. DOMAIN CountedTypes = 1 .. Len(CountedTypes)
  BY CountedTypesAre
<1>3. CountNow(p) = CountedUpTo(p, Len(CountedTypes))
  BY <1>2 DEF CountNow, CountedUpTo
<1> QED BY <1>1, <1>3

LEMMA SourceShown ==
    ASSUME MigrationTypes, ReadingTypes, ReadingKnows, SourceWhole
    PROVE  NeverPastTheSource
<1> SUFFICES ASSUME Counted, ~ reading.grown, ~ setting.shrunk, NEW p \in {"transformed", "loaded"}
             PROVE  reading[p] <= reading.source
  <2>1. ASSUME \A p \in {"transformed", "loaded"} : reading[p] <= reading.source
        PROVE  reading.transformed <= reading.source /\ reading.loaded <= reading.source
    BY <2>1
  <2> QED BY <2>1 DEF NeverPastTheSource
<1> DEFINE L == Len(CountedTypes)
<1>0. L \in 0 .. Len(CountedTypes)
  BY CountedTypesAre
<1>1. reading.todo # << >> /\ ReadSoFar = L
  BY CountedAll
<1>2. reading.source = CountedUpTo("source", L)
  BY <1>1 DEF ReadingKnows
<1>3. reading[p] \in Nat /\ reading.source \in Nat
  BY DEF ReadingTypes, ReadingType
<1>4. CASE reading[p] > 0
  <2>1. phases["source"] = "completed" /\ reading[p] <= LastUpTo(p, L)
    BY <1>1, <1>4 DEF ReadingKnows
  <2>2. \A k \in EntityTypes : EntityCount(<<"source", k>>) = setting.last[k]
    <3> TAKE k \in EntityTypes
    <3>1. Exact(k)
      BY <2>1 DEF SourceWhole, Extracted
    <3> QED BY <3>1, ExactCount
  <2>3. ASSUME NEW i \in 1 .. L, CountedTypes[i][1] = "source"
        PROVE  EntityCount(CountedTypes[i]) = setting.last[CountedTypes[i][2]]
    <3>1. CountedTypes[i] \in Trackers
      BY CountedTypesAre
    <3>2. CountedTypes[i] = <<"source", CountedTypes[i][2]>> /\ CountedTypes[i][2] \in EntityTypes
      BY <2>3, <3>1, TrackerFacts
    <3> QED BY <2>2, <3>2
  <2>4. CountedUpTo("source", L) = LastUpTo("source", L)
    <3>1. [i \in 1 .. L |-> IF CountedTypes[i][1] = "source" THEN EntityCount(CountedTypes[i]) ELSE 0]
          = [i \in 1 .. L |-> IF CountedTypes[i][1] = "source" THEN setting.last[CountedTypes[i][2]] ELSE 0]
      BY <2>3
    <3> QED BY <3>1 DEF CountedUpTo, LastUpTo
  <2>5. LastUpTo(p, L) <= LastUpTo("source", L)
    BY SourceHasMore
  <2>6. LastUpTo(p, L) \in Nat /\ LastUpTo("source", L) \in Nat
    <3>1. LastUpTo(p, L) = Total(Sizes1(p, L)) /\ LastUpTo("source", L) = Total(Sizes1("source", L))
      BY DEF LastUpTo, Sizes1
    <3>2. Sizes1(p, L) \in Seq(Nat) /\ Sizes1("source", L) \in Seq(Nat)
      BY <1>0, SizesTypes
    <3> QED BY <3>1, <3>2, TotalNat
  <2> HIDE DEF L
  <2> QED BY <1>2, <1>3, <2>1, <2>4, <2>5, <2>6
<1>5. CASE ~ reading[p] > 0
  BY <1>3, <1>5
<1> QED BY <1>4, <1>5

LEMMA DashboardShows ==
    ASSUME DashboardInv
    PROVE  DashboardSound
  BY NoTimesShown, StatisticsShown, CompletedShown, SourceShown DEF DashboardInv, DashboardSound

-----------------------------------------------------------------------------
(***************************************************************************)
(* The steps of the dashboard's model keep the invariant.                  *)
(***************************************************************************)

LEMMA TrackerHead ==
    ASSUME MigrationTypes, WorkShape, work.trackers # << >>
    PROVE  /\ Tracker \in Trackers /\ Stage(Tracker) = work.phase /\ work.phase \in Stages
           /\ phases[work.phase] = "in_progress"
           /\ Tail(work.trackers) \in Seq(Trackers)
           /\ \A i \in 1 .. Len(Tail(work.trackers)) : Stage(Tail(work.trackers)[i]) = work.phase
           /\ \A x : x \notin ToSet(Tail(work.trackers)) => x \notin ToSet(work.trackers) \/ x = Tracker
           /\ Tracker \in ToSet(work.trackers)
<1> DEFINE s == work.trackers
           r == Tail(s)
<1>1. s \in Seq(Trackers) /\ s # << >> /\ Len(s) \in Nat /\ Len(s) # 0 /\ DOMAIN s = 1 .. Len(s)
  BY DEF MigrationTypes
<1>2. Tracker = s[1] /\ 1 \in 1 .. Len(s)
  BY <1>1 DEF Tracker
<1>3. r \in Seq(Trackers) /\ Len(r) = Len(s) - 1 /\ DOMAIN r = 1 .. Len(s) - 1
      /\ \A i \in 1 .. Len(s) - 1 : r[i] = s[i + 1] /\ i + 1 \in 1 .. Len(s)
  BY <1>1, HeadTailProperties
<1>4. \A i \in 1 .. Len(s) : s[i] \in Trackers /\ Stage(s[i]) = work.phase
  BY <1>1 DEF WorkShape
<1> HIDE DEF s, r
<1>5. \A i \in 1 .. Len(r) : Stage(r[i]) = work.phase
  BY <1>3, <1>4
<1>6. ASSUME NEW x, x \notin ToSet(r) PROVE x \notin ToSet(s) \/ x = s[1]
  <2> SUFFICES ASSUME x \in ToSet(s), x # s[1] PROVE FALSE
    OBVIOUS
  <2>1. PICK i \in 1 .. Len(s) : x = s[i]
    BY <1>1 DEF ToSet
  <2>2. i - 1 \in 1 .. Len(s) - 1 /\ (i - 1) + 1 = i
    BY <1>1, <2>1
  <2>3. r[i - 1] = x /\ i - 1 \in DOMAIN r
    BY <1>3, <2>1, <2>2
  <2> QED BY <1>6, <2>3 DEF ToSet
<1>7. s[1] \in ToSet(s)
  BY <1>1, <1>2 DEF ToSet
<1>8. work.phase \in Stages
  <2>1. Stage(s[1]) = work.phase /\ s[1] \in Trackers
    BY <1>2, <1>4
  <2> QED BY <2>1, TrackerFacts
<1>9. phases[work.phase] = "in_progress"
  BY <1>8 DEF WorkShape, Stages
<1> QED BY <1>2, <1>3, <1>4, <1>5, <1>6, <1>7, <1>8, <1>9 DEF s, r

\* The n-th row of a tracker is written, or added: it becomes r.
Written(t, n, r) ==
    /\ batchRows' \in [Trackers -> Seq(RowType)]
    /\ \A u \in Trackers : u # t => batchRows'[u] = batchRows[u]
    /\ Len(batchRows'[t]) = IF n \in 1 .. Len(batchRows[t]) THEN Len(batchRows[t]) ELSE Len(batchRows[t]) + 1
    /\ n \in 1 .. Len(batchRows'[t])
    /\ \A i \in 1 .. Len(batchRows'[t]) : i # n => i \in 1 .. Len(batchRows[t]) /\ batchRows'[t][i] = batchRows[t][i]
    /\ batchRows'[t][n] = r

LEMMA RowReplaced ==
    ASSUME MigrationTypes, NEW t \in Trackers, NEW n \in 1 .. Len(batchRows[t]), NEW r \in RowType,
           batchRows' = [batchRows EXCEPT ![t] = [@ EXCEPT ![n] = r]]
    PROVE  Written(t, n, r)
<1>1. batchRows[t] \in Seq(RowType) /\ batchRows \in [Trackers -> Seq(RowType)]
  BY DEF MigrationTypes
<1> DEFINE s == [batchRows[t] EXCEPT ![n] = r]
<1>2. s \in Seq(RowType) /\ Len(s) = Len(batchRows[t]) /\ s[n] = r
      /\ \A i \in 1 .. Len(batchRows[t]) : i # n => s[i] = batchRows[t][i]
  BY <1>1
<1>3. batchRows' = [batchRows EXCEPT ![t] = s]
  OBVIOUS
<1> HIDE DEF s
<1>4. batchRows'[t] = s /\ (\A u \in Trackers : u # t => batchRows'[u] = batchRows[u])
      /\ batchRows' \in [Trackers -> Seq(RowType)]
  BY <1>1, <1>2, <1>3
<1> QED BY <1>2, <1>4 DEF Written

LEMMA RowAdded ==
    ASSUME MigrationTypes, NEW t \in Trackers, NEW r \in RowType,
           batchRows' = [batchRows EXCEPT ![t] = Append(@, r)]
    PROVE  Written(t, Len(batchRows[t]) + 1, r)
<1>1. batchRows[t] \in Seq(RowType) /\ batchRows \in [Trackers -> Seq(RowType)]
  BY DEF MigrationTypes
<1> DEFINE s == Append(batchRows[t], r)
           m == Len(batchRows[t])
<1>2. s \in Seq(RowType) /\ Len(s) = m + 1 /\ s[m + 1] = r /\ m \in Nat
      /\ \A i \in 1 .. m : s[i] = batchRows[t][i]
  BY <1>1
<1>3. batchRows' = [batchRows EXCEPT ![t] = s]
  OBVIOUS
<1> HIDE DEF s
<1>4. batchRows'[t] = s /\ (\A u \in Trackers : u # t => batchRows'[u] = batchRows[u])
      /\ batchRows' \in [Trackers -> Seq(RowType)]
  BY <1>1, <1>2, <1>3
<1> HIDE DEF m
<1>5. m + 1 \notin 1 .. m /\ m + 1 \in 1 .. m + 1 /\ \A i \in 1 .. m + 1 : i # m + 1 => i \in 1 .. m
  BY <1>2
<1>6. Written(t, m + 1, r)
  BY <1>2, <1>4, <1>5 DEF Written, m
<1> QED BY <1>6 DEF m

\* create_entity_batch_state keeps the count of the row there is.
LEMMA CreateWrites ==
    ASSUME MigrationTypes, NEW t \in Trackers, NEW n \in Nat, n > 0, n <= Len(batchRows[t]) + 1,
           NEW items \in Nat, CreateEntityBatchState(t, n, items)
    PROVE  \E r \in RowType :
             /\ Written(t, n, r) /\ r.items = items
             /\ r.processed = IF n \in 1 .. Len(batchRows[t]) THEN batchRows[t][n].processed ELSE 0
<1> DEFINE m == Len(batchRows[t])
<1>1. m \in Nat /\ DOMAIN batchRows[t] = 1 .. m /\ \A i \in 1 .. m : batchRows[t][i] \in RowType
  BY ColumnTypes
<1>2. CASE n \in 1 .. m
  <2> DEFINE r == [batchRows[t][n] EXCEPT !.items = items, !.status = "not_started"]
  <2>1. r \in RowType /\ r.items = items /\ r.processed = batchRows[t][n].processed
    BY <1>1, <1>2 DEF RowType
  <2>2. batchRows' = [batchRows EXCEPT ![t][n].items = items, ![t][n].status = "not_started"]
    BY <1>1, <1>2 DEF CreateEntityBatchState
  <2>3. batchRows' = [batchRows EXCEPT ![t] = [@ EXCEPT ![n] = r]]
    <3>1. batchRows \in [Trackers -> Seq(RowType)] /\ batchRows[t] \in Seq(RowType)
      BY DEF MigrationTypes
    <3>2. batchRows[t] = [i \in 1 .. m |-> batchRows[t][i]]
      BY <1>1, <3>1
    <3> QED BY <1>1, <1>2, <2>2, <3>1, <3>2
  <2> HIDE DEF r
  <2>4. Written(t, n, r)
    BY <1>2, <2>1, <2>3, RowReplaced
  <2> QED BY <1>2, <2>1, <2>4
<1>3. CASE n \notin 1 .. m
  <2>1. n = m + 1
    BY <1>1, <1>3
  <2>2. Fresh(items) \in RowType /\ Fresh(items).items = items /\ Fresh(items).processed = 0
    BY DEF Fresh, RowType
  <2>3. batchRows' = [batchRows EXCEPT ![t] = Append(@, Fresh(items))]
    BY <1>1, <1>3 DEF CreateEntityBatchState
  <2>4. Written(t, n, Fresh(items))
    BY <2>1, <2>2, <2>3, RowAdded
  <2> QED BY <1>3, <2>2, <2>4
<1> QED BY <1>2, <1>3

\* update_entity_batch_state keeps the number of entities.
LEMMA UpdateWrites ==
    ASSUME MigrationTypes, NEW t \in Trackers, NEW n \in 1 .. Len(batchRows[t]), NEW count \in Nat,
           NEW outcome \in {"completed", "failed"}, UpdateEntityBatchState(t, n, count, outcome)
    PROVE  \E r \in RowType :
             /\ Written(t, n, r) /\ r.items = batchRows[t][n].items /\ r.processed = count
<1> DEFINE m == Len(batchRows[t])
           q == batchRows[t][n]
           r == [q EXCEPT !.processed = count, !.status = outcome,
                          !.completed = IF outcome = "completed" THEN TRUE ELSE q.completed]
<1>1. m \in Nat /\ DOMAIN batchRows[t] = 1 .. m /\ \A i \in 1 .. m : batchRows[t][i] \in RowType
  BY ColumnTypes
<1>2. q \in RowType
  BY <1>1
<1>3. r.processed = count /\ r.items = q.items
  BY <1>2 DEF RowType
<1>4. r \in RowType
  <2> HIDE DEF q
  <2> QED BY <1>2 DEF RowType
<1>5. batchRows' = [batchRows EXCEPT ![t] = [@ EXCEPT ![n] = r]]
  BY DEF UpdateEntityBatchState
<1> HIDE DEF r
<1>6. Written(t, n, r)
  BY <1>4, <1>5, RowReplaced
<1> QED BY <1>3, <1>4, <1>6

\* What a type counts is read off its own rows.
LEMMA CountKept ==
    ASSUME NEW t, batchRows'[t] = batchRows[t]
    PROVE  EntityCount(t)' = EntityCount(t)
  BY DEF EntityCount, ItemCounts, CompletedCounts

\* A step of the migration keeps what a reading knows.
LEMMA ReadingKept ==
    ASSUME ReadingTypes, ReadingKnows,
           reading'.todo = reading.todo, reading'.state = reading.state,
           \A p \in Stages : reading'[p] = reading[p],
           ~ reading'.grown /\ reading.todo # << >> =>
               ~ reading.grown /\ \A t \in Trackers : t[1] = "source" => EntityCount(t)' = EntityCount(t),
           \A p \in Stages : phases[p] = "completed" =>
               /\ phases'[p] = "completed"
               /\ \A t \in Trackers : t[1] = p => EntityCount(t)' = EntityCount(t),
           ~ setting'.shrunk => ~ setting.shrunk,
           phases["source"] = "completed" => setting'.last = setting.last
    PROVE  ReadingKnows'
<1> SUFFICES ASSUME reading'.todo # << >> PROVE ReadingKnows'
  BY DEF ReadingKnows
<1> DEFINE L == Len(CountedTypes)
<1>0. reading.todo # << >>
  OBVIOUS
<1>1. ReadSoFar' = ReadSoFar
  BY DEF ReadSoFar
<1>2. PICK m \in 0 .. L : m = ReadSoFar
  <2>1. L \in Nat
    BY CountedTypesAre
  <2>2. Len(reading.todo) \in Nat
    BY DEF ReadingTypes, ReadingType
  <2> DEFINE l == Len(reading.todo)
             r == ReadSoFar
  <2> HIDE DEF l, L
  <2>3. r = IF l <= 2 THEN L ELSE IF l >= L + 2 THEN 0 ELSE L + 2 - l
    BY DEF ReadSoFar, l, L
  <2>4. l \in Nat
    BY <2>2 DEF l
  <2> HIDE DEF r
  <2>5. r \in 0 .. L
    BY <2>1, <2>3, <2>4
  <2> QED BY <2>5 DEF r
<1>3. \A i \in 1 .. m : CountedTypes[i] \in Trackers
  <2>1. CountedTypes \in Seq(Trackers)
    BY CountedTypesAre
  <2> QED BY <1>2, <2>1
<1>4. ASSUME NEW p, \A t \in Trackers : t[1] = p => EntityCount(t)' = EntityCount(t)
      PROVE  CountedUpTo(p, m)' = CountedUpTo(p, m)
  <2>1. \A i \in 1 .. m : CountedTypes[i][1] = p => EntityCount(CountedTypes[i])' = EntityCount(CountedTypes[i])
    BY <1>3, <1>4
  <2>2. [i \in 1 .. m |-> IF CountedTypes[i][1] = p THEN EntityCount(CountedTypes[i])' ELSE 0]
        = [i \in 1 .. m |-> IF CountedTypes[i][1] = p THEN EntityCount(CountedTypes[i]) ELSE 0]
    BY <2>1
  <2> QED BY <2>2 DEF CountedUpTo
<1>5. ASSUME NEW p \in reading.state
      PROVE  phases'[p] = "completed" /\ reading'[p] = CountedUpTo(p, m)'
  <2>1. p \in Stages
    BY DEF ReadingTypes, ReadingType
  <2>2. phases[p] = "completed" /\ reading[p] = CountedUpTo(p, m)
    BY <1>0, <1>2 DEF ReadingKnows
  <2> QED BY <1>4, <2>1, <2>2
<1>6. ASSUME ~ reading'.grown PROVE reading'.source = CountedUpTo("source", m)'
  <2>1. ~ reading.grown /\ \A t \in Trackers : t[1] = "source" => EntityCount(t)' = EntityCount(t)
    BY <1>0, <1>6
  <2>2. reading.source = CountedUpTo("source", m)
    BY <1>0, <1>2, <2>1 DEF ReadingKnows
  <2>3. reading'.source = reading.source
    BY DEF Stages
  <2> QED BY <1>4, <2>1, <2>2, <2>3
<1>7. ASSUME ~ setting'.shrunk, NEW p \in {"transformed", "loaded"}, reading'[p] > 0
      PROVE  phases'["source"] = "completed" /\ reading'[p] <= LastUpTo(p, m)'
  <2>1. reading'[p] = reading[p]
    BY DEF Stages
  <2>2. phases["source"] = "completed" /\ reading[p] <= LastUpTo(p, m)
    BY <1>0, <1>2, <1>7, <2>1 DEF ReadingKnows
  <2>3. phases'["source"] = "completed" /\ setting'.last = setting.last
    BY <2>2 DEF Stages
  <2>4. LastUpTo(p, m)' = LastUpTo(p, m)
    BY <2>3 DEF LastUpTo
  <2> QED BY <2>1, <2>2, <2>3, <2>4
<1>8. Len(reading'.todo) <= Len(ReadPlan)
      /\ reading'.todo = SubSeq(ReadPlan, Len(ReadPlan) - Len(reading'.todo) + 1, Len(ReadPlan))
  BY <1>0 DEF ReadingKnows
<1>9. m = 0 => \A p \in Stages : reading'[p] = 0
  BY <1>0, <1>2 DEF ReadingKnows
<1> QED BY <1>1, <1>2, <1>5, <1>6, <1>7, <1>8, <1>9 DEF ReadingKnows

LEMMA RowsFitKept ==
    ASSUME RowsFit, batchRows' = batchRows, kept' = kept, setting'.last = setting.last,
           setting'.shrunk = setting.shrunk
    PROVE  RowsFit'
<1>1. \A t : SizeOf(t)' = SizeOf(t)
  BY DEF SizeOf
<1>2. \A n, t : Capacity(n, SizeOf(t)') = Capacity(n, SizeOf(t))
  BY <1>1
<1> QED BY <1>1, <1>2 DEF RowsFit

LEMMA ExactKept ==
    ASSUME NEW k, batchRows'[<<"source", k>>] = batchRows[<<"source", k>>],
           setting'.last[k] = setting.last[k], Exact(k)
    PROVE  Exact(k)'
  BY DEF Exact

LEMMA StartPhaseKeeps ==
    ASSUME DashboardInv, NEW i \in DOMAIN PhaseNames, StartPhase(i)
    PROVE  DashboardInv'
<1> USE DEF DashboardInv
<1> DEFINE p == PhaseNames[i]
<1>1. /\ DOMAIN PhaseNames = {1, 2, 3}
      /\ PhaseNames[1] = "source" /\ PhaseNames[2] = "transformed" /\ PhaseNames[3] = "loaded"
  BY DEF PhaseNames
<1>2. p \in Stages
  BY <1>1 DEF Stages
<1>3. /\ work.phase = "none" /\ phases[p] \in {"not_started", "in_progress", "failed"}
      /\ i > 1 => phases[PhaseNames[i - 1]] = "completed"
      /\ phases' = [phases EXCEPT ![p] = "in_progress"]
      /\ work' = [Resting EXCEPT !.phase = p, !.trackers = TrackersOf(p)]
      /\ setting' = [setting EXCEPT !.attempts = @ + 1]
      /\ UNCHANGED <<batchRows, kept, reading>>
  BY DEF StartPhase, CanStart
<1>4. TrackersOf(p) \in Seq(Trackers) /\ \A j \in 1 .. Len(TrackersOf(p)) : Stage(TrackersOf(p)[j]) = p
  BY <1>2, TrackersAre
<1>5. work' = [phase |-> p, trackers |-> TrackersOf(p), batches |-> << >>, made |-> 0, done |-> 0]
  BY <1>3 DEF Resting
<1>6. /\ setting' \in [db : Databases, shrunk : BOOLEAN, attempts : Nat, readings : Nat,
                       last : [EntityTypes -> Nat]]
      /\ setting'.last = setting.last /\ setting'.shrunk = setting.shrunk
  <2> DEFINE a == setting.attempts + 1
  <2>1. a \in Nat
    BY DEF MigrationTypes
  <2>2. setting' = [setting EXCEPT !.attempts = a]
    BY <1>3
  <2> HIDE DEF a
  <2> QED BY <2>1, <2>2 DEF MigrationTypes
<1>7. /\ phases' \in [Stages -> {"not_started", "in_progress", "completed", "failed"}]
      /\ phases'[p] = "in_progress" /\ \A q \in Stages : q # p => phases'[q] = phases[q]
  BY <1>2, <1>3 DEF MigrationTypes
<1>8. MigrationTypes'
  <2>1. work' \in [phase : Stages \cup {"none"}, trackers : Seq(Trackers), batches : Seq(SUBSET Nat),
                   made : Nat, done : Nat]
    <3>1. << >> \in Seq(SUBSET Nat) /\ 0 \in Nat
      OBVIOUS
    <3> QED BY <1>2, <1>4, <1>5, <3>1
  <2> QED BY <1>3, <1>6, <1>7, <2>1 DEF MigrationTypes
<1>9. ReadingTypes'
  BY <1>3 DEF ReadingTypes
<1>10. WorkShape'
  BY <1>2, <1>4, <1>5, <1>7 DEF WorkShape, Stages
<1>11. PhaseOrder'
  <2>1. CASE i = 1
    BY <1>1, <1>3, <1>7, <2>1 DEF PhaseOrder, Stages
  <2>2. CASE i = 2
    <3>1. phases["source"] = "completed"
      BY <1>1, <1>3, <2>2
    <3> QED BY <1>1, <1>3, <1>7, <2>2, <3>1 DEF PhaseOrder, Stages
  <2>3. CASE i = 3
    <3>1. phases["transformed"] = "completed"
      BY <1>1, <1>3, <2>3
    <3> QED BY <1>1, <1>3, <1>7, <2>3, <3>1 DEF PhaseOrder, Stages
  <2> QED BY <1>1, <2>1, <2>2, <2>3
<1>12. RowsFit'
  BY <1>3, <1>6, RowsFitKept
<1>13. SourceWhole'
  <2> SUFFICES ASSUME ~ setting'.shrunk, NEW k \in EntityTypes, Extracted(k)' PROVE Exact(k)'
    BY DEF SourceWhole
  <2>1. phases["source"] = "completed"
    <3>1. CASE phases'["source"] = "completed"
      BY <1>7, <3>1 DEF Stages
    <3>2. CASE phases'["source"] # "completed"
      <4>1. work'.phase = "source" /\ <<"source", k>> \notin ToSet(work'.trackers)
        BY <3>2 DEF Extracted
      <4>2. p = "source" /\ work'.trackers = TrackersOf("source")
        BY <1>5, <4>1
      <4> QED BY <4>1, <4>2, TrackersAre
    <3> QED BY <3>1, <3>2
  <2>2. Exact(k)
    BY <1>6, <2>1 DEF SourceWhole, Extracted
  <2> QED BY <1>3, <1>6, <2>2, ExactKept
<1>14. ReadingKnows'
  <2>1. \A t : EntityCount(t)' = EntityCount(t)
    BY <1>3, CountKept
  <2>2. \A q \in Stages : phases[q] = "completed" => phases'[q] = "completed"
    BY <1>3, <1>7
  <2> QED BY <1>3, <1>6, <2>1, <2>2, ReadingKept
<1> QED BY <1>8, <1>9, <1>10, <1>11, <1>12, <1>13, <1>14

LEMMA EndPhaseKeeps ==
    ASSUME DashboardInv, EndPhase
    PROVE  DashboardInv'
<1> USE DEF DashboardInv
<1> DEFINE p == work.phase
<1>1. /\ p # "none" /\ work.trackers = << >>
      /\ phases' = [phases EXCEPT ![p] = "completed"]
      /\ work' = Resting /\ UNCHANGED <<batchRows, kept, reading, setting>>
  BY DEF EndPhase
<1>2. p \in Stages /\ phases[p] = "in_progress"
  BY <1>1 DEF MigrationTypes, WorkShape
<1>3. /\ phases' \in [Stages -> {"not_started", "in_progress", "completed", "failed"}]
      /\ phases'[p] = "completed" /\ \A q \in Stages : q # p => phases'[q] = phases[q]
  BY <1>1, <1>2 DEF MigrationTypes
<1>4. MigrationTypes'
  <2>1. work' \in [phase : Stages \cup {"none"}, trackers : Seq(Trackers), batches : Seq(SUBSET Nat),
                   made : Nat, done : Nat]
    BY <1>1 DEF Resting
  <2> QED BY <1>1, <1>3, <2>1 DEF MigrationTypes
<1>5. ReadingTypes'
  BY <1>1 DEF ReadingTypes
<1>6. WorkShape'
  BY <1>1 DEF WorkShape, Resting
<1>7. PhaseOrder'
  BY <1>1, <1>2, <1>3 DEF PhaseOrder, Stages
<1>8. RowsFit'
  BY <1>1, RowsFitKept
<1>9. SourceWhole'
  <2> SUFFICES ASSUME ~ setting'.shrunk, NEW k \in EntityTypes, Extracted(k)' PROVE Exact(k)'
    BY DEF SourceWhole
  <2>1. phases'["source"] = "completed"
    BY <1>1 DEF Extracted, Resting
  <2>2. Extracted(k)
    <3>1. CASE p = "source"
      <4>1. ToSet(work.trackers) = {}
        BY <1>1 DEF ToSet
      <4> QED BY <3>1, <4>1 DEF Extracted
    <3>2. CASE p # "source"
      BY <1>3, <2>1, <3>2 DEF Extracted, Stages
    <3> QED BY <3>1, <3>2
  <2>3. Exact(k)
    BY <1>1, <2>2 DEF SourceWhole
  <2> QED BY <1>1, <2>3, ExactKept
<1>10. ReadingKnows'
  <2>1. \A t : EntityCount(t)' = EntityCount(t)
    BY <1>1, CountKept
  <2>2. \A q \in Stages : phases[q] = "completed" => phases'[q] = "completed"
    BY <1>3
  <2> QED BY <1>1, <2>1, <2>2, ReadingKept
<1> QED BY <1>4, <1>5, <1>6, <1>7, <1>8, <1>9, <1>10

LEMMA StopPhaseKeeps ==
    ASSUME DashboardInv, StopPhase
    PROVE  DashboardInv'
<1> USE DEF DashboardInv
<1> DEFINE p == work.phase
<1>1. /\ work.trackers # << >>
      /\ phases' = [phases EXCEPT ![p] = "failed"] \/ phases' = phases
      /\ work' = Resting /\ UNCHANGED <<batchRows, kept, reading, setting>>
  BY DEF StopPhase
<1>2. p \in Stages /\ phases[p] = "in_progress"
  BY <1>1, TrackerHead
<1>3. /\ phases' \in [Stages -> {"not_started", "in_progress", "completed", "failed"}]
      /\ phases'[p] \in {"in_progress", "failed"} /\ \A q \in Stages : q # p => phases'[q] = phases[q]
  BY <1>1, <1>2 DEF MigrationTypes
<1>4. MigrationTypes'
  <2>1. work' \in [phase : Stages \cup {"none"}, trackers : Seq(Trackers), batches : Seq(SUBSET Nat),
                   made : Nat, done : Nat]
    BY <1>1 DEF Resting
  <2> QED BY <1>1, <1>3, <2>1 DEF MigrationTypes
<1>5. ReadingTypes'
  BY <1>1 DEF ReadingTypes
<1>6. WorkShape'
  BY <1>1 DEF WorkShape, Resting
<1>7. PhaseOrder'
  BY <1>1, <1>2, <1>3 DEF PhaseOrder, Stages
<1>8. RowsFit'
  BY <1>1, RowsFitKept
<1>9. SourceWhole'
  <2> SUFFICES ASSUME ~ setting'.shrunk, NEW k \in EntityTypes, Extracted(k)' PROVE Exact(k)'
    BY DEF SourceWhole
  <2>1. phases'["source"] = "completed"
    BY <1>1 DEF Extracted, Resting
  <2>2. Extracted(k)
    BY <1>3, <2>1 DEF Extracted, Stages
  <2>3. Exact(k)
    BY <1>1, <2>2 DEF SourceWhole
  <2> QED BY <1>1, <2>3, ExactKept
<1>10. ReadingKnows'
  <2>1. \A t : EntityCount(t)' = EntityCount(t)
    BY <1>1, CountKept
  <2>2. \A q \in Stages : phases[q] = "completed" => phases'[q] = "completed"
    BY <1>2, <1>3
  <2> QED BY <1>1, <2>1, <2>2, ReadingKept
<1> QED BY <1>4, <1>5, <1>6, <1>7, <1>8, <1>9, <1>10

LEMMA ListEntitiesKeeps ==
    ASSUME DashboardInv, ListEntities
    PROVE  DashboardInv'
<1> USE DEF DashboardInv
<1>0. PICK t : t = Tracker
  OBVIOUS
<1> DEFINE k == t[2]
<1>1. /\ work.trackers # << >> /\ work.batches = << >>
      /\ UNCHANGED <<batchRows, phases, kept, reading>>
  BY DEF ListEntities
<1>2. PICK items \in IF t[1] = "source" THEN {1 .. n : n \in Extents(k)} ELSE {kept[Input(t)]} :
        /\ work' = IF items = {} THEN NextTracker ELSE [work EXCEPT !.batches = Batched(items)]
        /\ setting' = IF t[1] # "source" THEN setting
                      ELSE [setting EXCEPT !.last[k] = Cardinality(items),
                                           !.shrunk = @ \/ Cardinality(items) < setting.last[k]]
  BY <1>0 DEF ListEntities
<1>3. /\ t \in Trackers /\ Stage(t) = work.phase /\ work.phase \in Stages
      /\ phases[work.phase] = "in_progress" /\ Tail(work.trackers) \in Seq(Trackers)
      /\ \A i \in 1 .. Len(Tail(work.trackers)) : Stage(Tail(work.trackers)[i]) = work.phase
      /\ \A x : x \notin ToSet(Tail(work.trackers)) => x \notin ToSet(work.trackers) \/ x = t
      /\ t \in ToSet(work.trackers)
  BY <1>0, <1>1, TrackerHead
<1>4. k \in EntityTypes /\ (t[1] = "source" => t = <<"source", k>>) /\ (t[1] # "source" => Input(t) \in Trackers)
      /\ (t[1] # "source" => work.phase # "source") /\ (t[1] = "source" => work.phase = "source")
  BY <1>3, TrackerFacts DEF Stage
<1>5. items \in SUBSET Nat /\ IsFiniteSet(items) /\ (t[1] # "source" => items = kept[Input(t)])
      /\ (t[1] = "source" => items = 1 .. Cardinality(items))
  <2>1. CASE t[1] = "source"
    <3>1. PICK n \in Extents(k) : items = 1 .. n
      BY <1>2, <2>1
    <3>2. n \in Nat
      BY <1>4, DashAssumption
    <3>3. IsFiniteSet(1 .. n) /\ Cardinality(1 .. n) = IF 1 > n THEN 0 ELSE n - 1 + 1
      BY <3>2, FS_Interval
    <3>4. Cardinality(items) = n
      BY <3>1, <3>2, <3>3
    <3> QED BY <2>1, <3>1, <3>2, <3>3, <3>4
  <2>2. CASE t[1] # "source"
    <3>1. items = kept[Input(t)]
      BY <1>2, <2>2
    <3> QED BY <1>4, <2>2, <3>1 DEF MigrationTypes
  <2> QED BY <2>1, <2>2
<1>6. Cardinality(items) \in Nat
  BY <1>5, FS_CardinalityType
<1> DEFINE c == Cardinality(items)
<1>7. /\ setting' \in [db : Databases, shrunk : BOOLEAN, attempts : Nat, readings : Nat,
                       last : [EntityTypes -> Nat]]
      /\ ~ setting'.shrunk => ~ setting.shrunk
      /\ t[1] # "source" => setting' = setting
      /\ t[1] = "source" =>
           /\ setting'.last[k] = c /\ \A j \in EntityTypes : j # k => setting'.last[j] = setting.last[j]
           /\ ~ setting'.shrunk => setting.last[k] <= c
  <2>1. CASE t[1] # "source"
    BY <1>2, <2>1 DEF MigrationTypes
  <2>2. CASE t[1] = "source"
    <3> DEFINE b == setting.shrunk \/ c < setting.last[k]
               l == [setting.last EXCEPT ![k] = c]
    <3>1. b \in BOOLEAN
      BY Zenon DEF MigrationTypes
    <3>2. setting' = [setting EXCEPT !.last = l, !.shrunk = b]
      BY <1>2, <2>2
    <3>3. setting.last \in [EntityTypes -> Nat]
      BY DEF MigrationTypes
    <3>4. l \in [EntityTypes -> Nat] /\ l[k] = c /\ \A j \in EntityTypes : j # k => l[j] = setting.last[j]
      BY <1>4, <1>6, <3>3
    <3>5. ~ b => ~ setting.shrunk /\ setting.last[k] <= c
      BY <1>4, <1>6, <3>3
    <3> HIDE DEF b, l
    <3>6. setting'.last = l /\ setting'.shrunk = b
          /\ setting' \in [db : Databases, shrunk : BOOLEAN, attempts : Nat, readings : Nat,
                           last : [EntityTypes -> Nat]]
      BY <3>1, <3>2, <3>4 DEF MigrationTypes
    <3> QED BY <2>2, <3>4, <3>5, <3>6
  <2> QED BY <2>1, <2>2
<1>8. /\ Batched(items) \in Seq(SUBSET Nat) /\ Len(Batched(items)) = BatchCount(c)
      /\ items # {} => Batched(items) # << >> /\ 0 < Len(Batched(items))
      /\ 0 \in Nat /\ Len(Batched(items)) \in Nat
  <2>1. Len(Batched(items)) = BatchCount(c) /\ Batched(items) \in Seq(SUBSET items)
    BY <1>5, CutFacts
  <2>2. SUBSET items \subseteq SUBSET Nat
    BY <1>5
  <2>3. Batched(items) \in Seq(SUBSET Nat)
    BY <2>1, <2>2, SeqWider
  <2>4. ASSUME items # {} PROVE 0 < BatchCount(c)
    <3>1. c # 0
      BY <1>5, <2>4, FS_EmptySet
    <3>2. 0 * TrackedSize = 0 /\ 0 \in Nat
      BY DashAssumption
    <3>3. 0 * TrackedSize < c
      BY <1>6, <3>1, <3>2
    <3> QED BY <1>6, <3>2, <3>3, BatchCountFacts
  <2>5. BatchCount(c) \in Nat
    BY <1>6, BatchCountFacts
  <2>6. BatchCount(c) > 0 => Batched(items) # << >>
    BY <2>1, <2>5
  <2> QED BY <2>1, <2>3, <2>4, <2>5, <2>6
<1>9. ASSUME items = {} PROVE WorkShape' /\ SourceWhole'
  <2>1. work' = [work EXCEPT !.trackers = Tail(@), !.batches = << >>, !.made = 0, !.done = 0]
    BY <1>2, <1>9 DEF NextTracker
  <2>2. work'.phase = work.phase /\ work'.trackers = Tail(work.trackers) /\ work'.batches = << >>
        /\ work'.made = 0 /\ work'.done = 0
        /\ work' \in [phase : Stages \cup {"none"}, trackers : Seq(Trackers), batches : Seq(SUBSET Nat),
                      made : Nat, done : Nat]
    <3>1. << >> \in Seq(SUBSET Nat) /\ 0 \in Nat
      OBVIOUS
    <3> QED BY <1>3, <2>1, <3>1 DEF MigrationTypes
  <2>3. WorkShape'
    BY <1>1, <1>3, <2>2 DEF WorkShape, Stages
  <2>4. c = 0
    BY <1>9, FS_EmptySet
  <2>5. SourceWhole'
    <3> SUFFICES ASSUME ~ setting'.shrunk, NEW j \in EntityTypes, Extracted(j)' PROVE Exact(j)'
      BY DEF SourceWhole
    <3>0. ~ setting.shrunk
      BY <1>7
    <3>1. CASE t[1] # "source"
      <4>1. phases["source"] = "completed"
        BY <1>1, <1>4, <2>2, <3>1 DEF Extracted
      <4>2. Exact(j)
        BY <3>0, <4>1 DEF SourceWhole, Extracted
      <4> QED BY <1>1, <1>7, <3>1, <4>2, ExactKept
    <3>2. CASE t[1] = "source" /\ j = k
      <4>1. setting'.last[j] = 0 /\ setting.last[j] = 0
        <5>1. setting.last[j] \in Nat /\ setting.last[j] <= 0
          BY <1>7, <2>4, <3>2 DEF MigrationTypes
        <5> QED BY <1>7, <2>4, <3>2, <5>1
      <4>2. Len(batchRows[<<"source", j>>]) <= BatchCount(0) /\ BatchCount(0) = 0
        BY <3>0, <4>1, BatchCountFacts DEF RowsFit
      <4>3. Len(batchRows[<<"source", j>>]) = 0
        BY <4>2, TrackerFacts, ColumnTypes
      <4> QED BY <1>1, <4>1, <4>2, <4>3 DEF Exact
    <3>3. CASE t[1] = "source" /\ j # k
      <4>1. phases["source"] # "completed" /\ work.phase = "source"
        BY <1>3, <1>4, <3>3
      <4>2. <<"source", j>> \notin ToSet(Tail(work.trackers))
        BY <1>1, <2>2, <4>1 DEF Extracted
      <4>3. <<"source", j>> # t
        BY <1>4, <3>3
      <4>4. Exact(j)
        BY <1>3, <3>0, <4>1, <4>2, <4>3 DEF SourceWhole, Extracted
      <4>5. setting'.last[j] = setting.last[j]
        BY <1>7, <3>3
      <4> QED BY <1>1, <4>4, <4>5, ExactKept
    <3> QED BY <3>1, <3>2, <3>3
  <2> QED BY <2>3, <2>5
<1>10. ASSUME items # {} PROVE WorkShape' /\ SourceWhole'
  <2>1. work' = [work EXCEPT !.batches = Batched(items)]
    BY <1>2, <1>10
  <2>2. work'.phase = work.phase /\ work'.trackers = work.trackers /\ work'.batches = Batched(items)
        /\ work'.made = 0 /\ work'.done = 0
        /\ work' \in [phase : Stages \cup {"none"}, trackers : Seq(Trackers), batches : Seq(SUBSET Nat),
                      made : Nat, done : Nat]
    BY <1>1, <1>8, <2>1 DEF MigrationTypes, WorkShape
  <2>3. Tracker' = t
    BY <1>0, <2>2 DEF Tracker
  <2>4. Listed(t)' = items
    <3>1. CASE t[1] = "source"
      BY <1>5, <1>7, <3>1 DEF Listed
    <3>2. CASE t[1] # "source"
      BY <1>1, <1>5, <3>2 DEF Listed
    <3> QED BY <3>1, <3>2
  <2>5. WorkShape'
    <3>1. work'.phase = "none" => work' = Resting
      BY <1>3, <2>2 DEF Stages
    <3>2. work'.phase # "none" => phases'[work'.phase] = "in_progress"
      BY <1>1, <1>3, <2>2
    <3>3. \A i \in 1 .. Len(work'.trackers) : Stage(work'.trackers[i]) = work'.phase
      BY <2>2 DEF WorkShape
    <3>4. work'.batches # << >> /\ work'.batches = Batched(Listed(Tracker)')
      BY <1>8, <1>10, <2>2, <2>3, <2>4
    <3>5. /\ work'.trackers # << >>
          /\ work'.made <= Len(work'.batches) /\ work'.done < Len(work'.batches)
          /\ work'.made <= Len(batchRows'[Tracker'])
      <4>1. Len(batchRows[t]) \in Nat
        BY <1>3, ColumnTypes
      <4> QED BY <1>1, <1>8, <1>10, <2>2, <2>3, <4>1
    <3>6. \A n \in 1 .. work'.made : FALSE
      BY <2>2
    <3> QED BY <3>1, <3>2, <3>3, <3>4, <3>5, <3>6 DEF WorkShape
  <2>6. SourceWhole'
    <3> SUFFICES ASSUME ~ setting'.shrunk, NEW j \in EntityTypes, Extracted(j)' PROVE Exact(j)'
      BY DEF SourceWhole
    <3>0. ~ setting.shrunk
      BY <1>7
    <3>1. CASE t[1] # "source"
      <4>1. phases["source"] = "completed"
        BY <1>1, <1>4, <2>2, <3>1 DEF Extracted
      <4>2. Exact(j)
        BY <3>0, <4>1 DEF SourceWhole, Extracted
      <4> QED BY <1>1, <1>7, <3>1, <4>2, ExactKept
    <3>2. CASE t[1] = "source"
      <4>1. phases["source"] # "completed" /\ work.phase = "source"
        BY <1>3, <1>4, <3>2
      <4>2. <<"source", j>> \notin ToSet(work.trackers)
        BY <1>1, <2>2, <4>1 DEF Extracted
      <4>3. <<"source", j>> # t /\ j # k
        BY <1>3, <1>4, <3>2, <4>2
      <4>4. Exact(j)
        BY <3>0, <4>1, <4>2 DEF SourceWhole, Extracted
      <4>5. setting'.last[j] = setting.last[j]
        BY <1>7, <3>2, <4>3
      <4> QED BY <1>1, <4>4, <4>5, ExactKept
    <3> QED BY <3>1, <3>2
  <2> QED BY <2>5, <2>6
<1>11. MigrationTypes'
  <2>1. work' \in [phase : Stages \cup {"none"}, trackers : Seq(Trackers), batches : Seq(SUBSET Nat),
                   made : Nat, done : Nat]
    <3>1. CASE items = {}
      <4>1. work' = [work EXCEPT !.trackers = Tail(@), !.batches = << >>, !.made = 0, !.done = 0]
        BY <1>2, <3>1 DEF NextTracker
      <4>2. << >> \in Seq(SUBSET Nat) /\ 0 \in Nat
        OBVIOUS
      <4> QED BY <1>3, <4>1, <4>2 DEF MigrationTypes
    <3>2. CASE items # {}
      <4>1. work' = [work EXCEPT !.batches = Batched(items)]
        BY <1>2, <3>2
      <4> QED BY <1>8, <4>1 DEF MigrationTypes
    <3> QED BY <3>1, <3>2
  <2> QED BY <1>1, <1>7, <2>1 DEF MigrationTypes
<1>12. ReadingTypes' /\ PhaseOrder'
  BY <1>1 DEF ReadingTypes, PhaseOrder
<1>13. RowsFit'
  <2> SUFFICES ASSUME ~ setting'.shrunk PROVE RowsFit'
    BY DEF RowsFit
  <2>0. ~ setting.shrunk
    BY <1>7
  <2>1. \A j \in EntityTypes : /\ setting.last[j] \in Nat /\ setting'.last[j] \in Nat
                               /\ setting.last[j] <= setting'.last[j]
    <3> TAKE j \in EntityTypes
    <3>1. setting.last[j] \in Nat /\ setting'.last[j] \in Nat
      BY <1>7 DEF MigrationTypes
    <3>2. CASE t[1] # "source"
      BY <1>7, <3>1, <3>2
    <3>3. CASE t[1] = "source" /\ j = k
      BY <1>7, <3>1, <3>3
    <3>4. CASE t[1] = "source" /\ j # k
      BY <1>7, <3>1, <3>4
    <3> QED BY <3>1, <3>2, <3>3, <3>4
  <2>2. ASSUME NEW u \in Trackers PROVE SizeOf(u) \in Nat /\ SizeOf(u)' \in Nat /\ SizeOf(u) <= SizeOf(u)'
    <3>1. SizeOf(u) \in Nat
      BY SizeFacts
    <3>2. CASE u[1] = "source"
      BY <2>1, <3>2, TrackerFacts DEF SizeOf
    <3>3. CASE u[1] # "source"
      <4>1. SizeOf(u)' = SizeOf(u)
        BY <1>1, <3>3 DEF SizeOf
      <4> QED BY <3>1, <4>1
    <3> QED BY <3>2, <3>3
  <2>3. ASSUME NEW u \in Trackers, NEW n \in 1 .. Len(batchRows[u])
        PROVE  /\ batchRows[u][n].processed <= batchRows[u][n].items
               /\ batchRows[u][n].items <= Capacity(n, SizeOf(u)')
    <3> DEFINE it == batchRows[u][n].items
               s1x == SizeOf(u)
               s2x == SizeOf(u)'
    <3>1. batchRows[u][n].processed <= it /\ it <= Capacity(n, s1x)
      BY <2>0 DEF RowsFit
    <3>2. n \in Nat /\ n > 0 /\ it \in Nat
      <4>1. Len(batchRows[u]) \in Nat /\ batchRows[u][n] \in RowType
        BY ColumnTypes
      <4>2. n \in Nat /\ n > 0
        BY <4>1
      <4>3. it \in Nat
        BY <4>1 DEF RowType
      <4> QED BY <4>2, <4>3
    <3>3. s1x \in Nat /\ s2x \in Nat /\ s1x <= s2x
      BY <2>2
    <3> HIDE DEF it, s1x, s2x
    <3>4. Capacity(n, s1x) \in Nat /\ Capacity(n, s2x) \in Nat /\ Capacity(n, s1x) <= Capacity(n, s2x)
      BY <3>2, <3>3, CapacityFacts
    <3>5. it <= Capacity(n, s2x)
      BY <3>1, <3>2, <3>4
    <3> QED BY <3>1, <3>5 DEF it, s2x
  <2>4. ASSUME NEW j \in EntityTypes
        PROVE  /\ kept[<<"source", j>>] \subseteq 1 .. setting'.last[j]
               /\ Len(batchRows[<<"source", j>>]) <= BatchCount(setting'.last[j])
    <3>1. kept[<<"source", j>>] \subseteq 1 .. setting.last[j]
          /\ Len(batchRows[<<"source", j>>]) <= BatchCount(setting.last[j])
      BY <2>0 DEF RowsFit
    <3>2. 1 .. setting.last[j] \subseteq 1 .. setting'.last[j]
      BY <2>1
    <3>3. BatchCount(setting.last[j]) <= BatchCount(setting'.last[j])
          /\ BatchCount(setting.last[j]) \in Nat /\ BatchCount(setting'.last[j]) \in Nat
      BY <2>1, BatchCountGrows, BatchCountFacts
    <3>4. Len(batchRows[<<"source", j>>]) \in Nat
      BY TrackerFacts, ColumnTypes
    <3> QED BY <3>1, <3>2, <3>3, <3>4
  <2>5. \A j \in ToSet(ReadKinds) : kept[<<"transformed", j>>] \subseteq kept[<<"source", j>>]
    BY <2>0 DEF RowsFit
  <2> QED BY <1>1, <2>3, <2>4, <2>5 DEF RowsFit
<1>14. ReadingKnows'
  <2>1. \A u : EntityCount(u)' = EntityCount(u)
    BY <1>1, CountKept
  <2>2. phases["source"] = "completed" => setting'.last = setting.last
    BY <1>3, <1>4, <1>7
  <2> QED BY <1>1, <1>7, <2>1, <2>2, ReadingKept
<1>15. WorkShape' /\ SourceWhole'
  BY <1>9, <1>10
<1> QED BY <1>11, <1>12, <1>13, <1>14, <1>15

\* The tracker at work, and its batches.
LEMMA TrackerBatches ==
    ASSUME MigrationTypes, WorkShape, work.batches # << >>, NEW t, t = Tracker
    PROVE  /\ work.trackers # << >>
           /\ t \in Trackers /\ Stage(t) = work.phase /\ t \in ToSet(work.trackers)
           /\ phases[work.phase] = "in_progress" /\ work.phase \in Stages
           /\ work.batches = Batched(Listed(t))
           /\ work.made \in Nat /\ work.done \in Nat /\ Len(work.batches) \in Nat
           /\ SizeOf(t) \in Nat
           /\ Len(work.batches) = BatchCount(SizeOf(t))
           /\ \A n \in 1 .. Len(work.batches) :
                /\ work.batches[n] \subseteq Listed(t)
                /\ Cardinality(work.batches[n]) = Capacity(n, SizeOf(t))
                /\ Capacity(n, SizeOf(t)) \in Nat
<1>1. work.trackers # << >> /\ work.batches = Batched(Listed(t))
  BY DEF WorkShape
<1>2. t \in Trackers /\ Stage(t) = work.phase /\ t \in ToSet(work.trackers)
      /\ phases[work.phase] = "in_progress" /\ work.phase \in Stages
  BY <1>1, TrackerHead
<1>3. SizeOf(t) \in Nat /\ Listed(t) \in SUBSET Nat /\ IsFiniteSet(Listed(t))
      /\ Cardinality(Listed(t)) = SizeOf(t)
  BY <1>2, SizeFacts
<1>4. work.made \in Nat /\ work.done \in Nat /\ Len(work.batches) \in Nat
  BY DEF MigrationTypes
<1>5. Len(work.batches) = BatchCount(SizeOf(t))
      /\ \A n \in 1 .. Len(work.batches) :
           /\ work.batches[n] \subseteq Listed(t)
           /\ Cardinality(work.batches[n]) = Capacity(n, SizeOf(t))
  BY <1>1, <1>3, CutFacts
<1>6. \A n \in 1 .. Len(work.batches) : Capacity(n, SizeOf(t)) \in Nat
  <2> TAKE n \in 1 .. Len(work.batches)
  <2>1. n \in Nat /\ n > 0
    BY <1>4
  <2> QED BY <1>3, <2>1, CapacityFacts
<1> QED BY <1>1, <1>2, <1>3, <1>4, <1>5, <1>6

\* A phase at work is not complete, and the source is when another is at work.
LEMMA OthersComplete ==
    ASSUME MigrationTypes, PhaseOrder, NEW t \in Trackers, Stage(t) = work.phase,
           phases[work.phase] = "in_progress"
    PROVE  /\ \A p \in Stages : phases[p] = "completed" => t[1] # p
           /\ t[1] # "source" => phases["source"] = "completed"
<1>1. ASSUME NEW p \in Stages, phases[p] = "completed", t[1] = p PROVE FALSE
  <2>1. Stage(t) = p
    BY <1>1 DEF Stage, Stages
  <2> QED BY <1>1, <2>1
<1>2. ASSUME t[1] # "source" PROVE phases["source"] = "completed"
  <2>1. Stage(t) \in {"transformed", "loaded"}
    BY <1>2, TrackerFacts DEF Stages
  <2> QED BY <2>1 DEF PhaseOrder
<1> QED BY <1>1, <1>2

LEMMA InitializeBatchesKeeps ==
    ASSUME DashboardInv, InitializeBatches
    PROVE  DashboardInv'
<1> USE DEF DashboardInv
<1>0. PICK t : t = Tracker
  OBVIOUS
<1> DEFINE n == work.made + 1
           N == SizeOf(t)
           b == Len(work.batches)
<1>1. /\ work.made < b /\ CreateEntityBatchState(t, n, Cardinality(work.batches[n]))
      /\ work' = [work EXCEPT !.made = @ + 1]
      /\ reading' = [reading EXCEPT !.grown = reading.todo # << >> /\ (@ \/ t[1] = "source")]
      /\ UNCHANGED <<phases, kept, setting>>
  BY <1>0 DEF InitializeBatches
<1>2. work.batches # << >>
  BY <1>1 DEF MigrationTypes
<1>3. /\ work.trackers # << >>
      /\ t \in Trackers /\ Stage(t) = work.phase /\ t \in ToSet(work.trackers)
      /\ phases[work.phase] = "in_progress" /\ work.phase \in Stages
      /\ work.batches = Batched(Listed(t))
      /\ work.made \in Nat /\ work.done \in Nat /\ b \in Nat /\ N \in Nat
      /\ b = BatchCount(N)
      /\ \A i \in 1 .. b : /\ Cardinality(work.batches[i]) = Capacity(i, N)
                           /\ Capacity(i, N) \in Nat
  BY <1>0, <1>2, TrackerBatches
<1>4. n \in Nat /\ n > 0 /\ n <= b /\ n \in 1 .. b /\ n # 0 /\ \A i \in 1 .. n : i # n => i \in 1 .. work.made
  BY <1>1, <1>3
<1>5. /\ work.made <= Len(batchRows[t]) /\ n <= Len(batchRows[t]) + 1 /\ Len(batchRows[t]) \in Nat
      /\ \A i \in 1 .. work.made : batchRows[t][i].items = Capacity(i, N)
      /\ work.done < b
  <2>1. work.made <= Len(batchRows[t]) /\ Len(batchRows[t]) \in Nat
    BY <1>0, <1>2, <1>3, ColumnTypes DEF WorkShape
  <2> QED BY <1>0, <1>2, <1>3, <2>1 DEF WorkShape
<1>6. PICK r \in RowType :
        /\ Written(t, n, r) /\ r.items = Capacity(n, N)
        /\ r.processed = IF n \in 1 .. Len(batchRows[t]) THEN batchRows[t][n].processed ELSE 0
  <2> DEFINE c == Capacity(n, N)
  <2>1. c \in Nat /\ CreateEntityBatchState(t, n, c)
    BY <1>1, <1>3, <1>4
  <2>2. n \in Nat /\ n > 0 /\ n <= Len(batchRows[t]) + 1 /\ t \in Trackers
    BY <1>3, <1>4, <1>5
  <2> HIDE DEF c, n
  <2>3. \E r \in RowType :
          /\ Written(t, n, r) /\ r.items = c
          /\ r.processed = IF n \in 1 .. Len(batchRows[t]) THEN batchRows[t][n].processed ELSE 0
    BY <2>1, <2>2, CreateWrites
  <2> QED BY <2>3 DEF c
<1> HIDE DEF n, N, b
<1>7. /\ work'.phase = work.phase /\ work'.trackers = work.trackers /\ work'.batches = work.batches
      /\ work'.made = n /\ work'.done = work.done
      /\ work' \in [phase : Stages \cup {"none"}, trackers : Seq(Trackers), batches : Seq(SUBSET Nat),
                    made : Nat, done : Nat]
  <2>1. work' = [work EXCEPT !.made = n]
    BY <1>1 DEF n
  <2> QED BY <1>4, <2>1 DEF MigrationTypes
<1>8. Tracker' = t /\ SizeOf(t)' = N /\ Listed(t)' = Listed(t)
  <2>1. Tracker' = t
    BY <1>0, <1>7 DEF Tracker
  <2> QED BY <1>1, <2>1 DEF SizeOf, Listed, N
<1>9. /\ batchRows' \in [Trackers -> Seq(RowType)]
      /\ \A u \in Trackers : u # t => batchRows'[u] = batchRows[u]
      /\ Len(batchRows'[t]) = IF n \in 1 .. Len(batchRows[t]) THEN Len(batchRows[t]) ELSE Len(batchRows[t]) + 1
      /\ n \in 1 .. Len(batchRows'[t])
      /\ \A i \in 1 .. Len(batchRows'[t]) :
            i # n => i \in 1 .. Len(batchRows[t]) /\ batchRows'[t][i] = batchRows[t][i]
      /\ batchRows'[t][n] = r
  BY <1>6 DEF Written
<1>10. \A u \in Trackers : u # t => EntityCount(u)' = EntityCount(u)
  BY <1>9, CountKept
<1>11. /\ \A p \in Stages : phases[p] = "completed" => t[1] # p
       /\ t[1] # "source" => phases["source"] = "completed"
  BY <1>3, OthersComplete
<1>12. MigrationTypes'
  BY <1>1, <1>7, <1>9 DEF MigrationTypes
<1>13. /\ reading'.todo = reading.todo /\ reading'.state = reading.state
       /\ \A p \in Stages : reading'[p] = reading[p]
       /\ ~ reading'.grown /\ reading.todo # << >> => ~ reading.grown /\ t[1] # "source"
       /\ ReadingTypes'
  <2> DEFINE g == reading.todo # << >> /\ (reading.grown \/ t[1] = "source")
  <2>1. reading' = [reading EXCEPT !.grown = g]
    BY <1>1
  <2>2. g \in BOOLEAN
    BY Zenon DEF ReadingTypes, ReadingType
  <2>3. ~ g /\ reading.todo # << >> => ~ reading.grown /\ t[1] # "source"
    BY Zenon
  <2> HIDE DEF g
  <2>4. /\ reading'.todo = reading.todo /\ reading'.state = reading.state /\ reading'.grown = g
        /\ reading'.source = reading.source /\ reading'.transformed = reading.transformed
        /\ reading'.loaded = reading.loaded /\ ReadingTypes'
    BY <2>1, <2>2 DEF ReadingTypes, ReadingType
  <2>5. \A p \in Stages : reading'[p] = reading[p]
    BY <2>4 DEF Stages
  <2> QED BY <2>3, <2>4, <2>5
<1>14. WorkShape'
  <2>1. work'.phase = "none" => work' = Resting
    BY <1>3, <1>7 DEF Stages
  <2>2. work'.phase # "none" => phases'[work'.phase] = "in_progress"
    BY <1>1, <1>3, <1>7
  <2>3. \A i \in 1 .. Len(work'.trackers) : Stage(work'.trackers[i]) = work'.phase
    BY <1>7 DEF WorkShape
  <2>4. /\ work'.batches # << >> /\ work'.trackers # << >>
        /\ work'.batches = Batched(Listed(Tracker)')
    BY <1>2, <1>3, <1>7, <1>8
  <2>5. /\ work'.made <= Len(work'.batches) /\ work'.done < Len(work'.batches)
        /\ work'.made <= Len(batchRows'[Tracker'])
    <3>1. Len(batchRows'[t]) \in Nat
      BY <1>3, <1>9
    <3>2. n <= Len(batchRows'[t])
      BY <1>4, <1>9, <3>1
    <3> QED BY <1>4, <1>5, <1>7, <1>8, <3>2 DEF b
  <2>6. \A i \in 1 .. work'.made : batchRows'[Tracker'][i].items = Capacity(i, SizeOf(Tracker)')
    <3> SUFFICES ASSUME NEW i \in 1 .. n PROVE batchRows'[t][i].items = Capacity(i, N)
      BY <1>7, <1>8
    <3>1. CASE i = n
      BY <1>6, <1>9, <3>1
    <3>2. CASE i # n
      <4>1. i \in 1 .. Len(batchRows'[t])
        <5>1. Len(batchRows'[t]) \in Nat
          BY <1>3, <1>9
        <5> QED BY <1>4, <1>9, <5>1
      <4>2. i \in 1 .. work.made
        BY <1>4, <3>2
      <4> QED BY <1>5, <1>9, <3>2, <4>1, <4>2
    <3> QED BY <3>1, <3>2
  <2> QED BY <2>1, <2>2, <2>3, <2>4, <2>5, <2>6 DEF WorkShape
<1>15. PhaseOrder'
  <2>1. ASSUME NEW u \in Trackers, u[1] # "source", batchRows'[u] # << >> PROVE phases["source"] = "completed"
    <3>1. CASE u = t
      BY <1>11, <2>1, <3>1
    <3>2. CASE u # t
      BY <1>9, <2>1, <3>2 DEF PhaseOrder
    <3> QED BY <3>1, <3>2
  <2> QED BY <1>1, <2>1 DEF PhaseOrder
<1>16. RowsFit'
  <2> SUFFICES ASSUME ~ setting.shrunk PROVE RowsFit'
    BY <1>1 DEF RowsFit
  <2>1. \A u : SizeOf(u)' = SizeOf(u)
    BY <1>1 DEF SizeOf
  <2>2. ASSUME NEW u \in Trackers, NEW i \in 1 .. Len(batchRows'[u])
        PROVE  /\ batchRows'[u][i].processed <= batchRows'[u][i].items
               /\ batchRows'[u][i].items <= Capacity(i, SizeOf(u))
    <3>1. CASE u # t \/ i # n
      <4>1. i \in 1 .. Len(batchRows[u]) /\ batchRows'[u][i] = batchRows[u][i]
        BY <1>9, <3>1
      <4> QED BY <4>1 DEF RowsFit
    <3>2. CASE u = t /\ i = n
      <4>1. batchRows'[u][i] = r /\ r.items = Capacity(n, N) /\ Capacity(n, N) \in Nat
        BY <1>3, <1>4, <1>6, <1>9, <3>2
      <4>2. r.processed <= r.items
        <5>1. CASE n \in 1 .. Len(batchRows[t])
          <6> DEFINE c == batchRows[t][n].processed
                     it == batchRows[t][n].items
          <6>1. c \in Nat /\ it \in Nat
            <7>1. batchRows[t][n] \in RowType
              BY <1>3, <5>1, ColumnTypes
            <7> QED BY <7>1 DEF RowType
          <6>2. c <= it /\ it <= Capacity(n, N)
            BY <1>3, <5>1 DEF RowsFit, N
          <6>3. r.processed = c
            BY <1>6, <5>1
          <6> HIDE DEF c, it
          <6> QED BY <4>1, <6>1, <6>2, <6>3
        <5>2. CASE n \notin 1 .. Len(batchRows[t])
          BY <1>6, <4>1, <5>2
        <5> QED BY <5>1, <5>2
      <4> QED BY <3>2, <4>1, <4>2 DEF N
    <3> QED BY <3>1, <3>2
  <2>3. ASSUME NEW k \in EntityTypes PROVE Len(batchRows'[<<"source", k>>]) <= BatchCount(setting.last[k])
    <3> DEFINE u == <<"source", k>>
               c == BatchCount(setting.last[k])
    <3>1. u \in Trackers
      BY TrackerFacts
    <3>2. Len(batchRows[u]) <= c
      BY DEF RowsFit
    <3>3. CASE u # t
      BY <1>9, <3>1, <3>2, <3>3
    <3>4. CASE u = t
      <4>1. N = setting.last[k]
        BY <3>4 DEF N, SizeOf
      <4>2. n <= c /\ c \in Nat
        BY <1>3, <1>4, <4>1
      <4>3. Len(batchRows'[t]) = IF n \in 1 .. Len(batchRows[t]) THEN Len(batchRows[t]) ELSE Len(batchRows[t]) + 1
        BY <1>9
      <4>4. n = work.made + 1 /\ n <= Len(batchRows[t]) + 1
        BY <1>5 DEF n
      <4> DEFINE l == Len(batchRows[t])
                 m == Len(batchRows'[t])
      <4>5. l \in Nat /\ l <= c /\ m = (IF n \in 1 .. l THEN l ELSE l + 1) /\ n <= l + 1
        BY <1>5, <3>2, <3>4, <4>3, <4>4
      <4> HIDE DEF c, l, m
      <4>6. m <= c
        BY <1>4, <4>2, <4>5
      <4> QED BY <3>4, <4>6 DEF m, c
    <3> QED BY <3>3, <3>4
  <2>4. \A k \in EntityTypes : kept[<<"source", k>>] \subseteq 1 .. setting.last[k]
    BY DEF RowsFit
  <2>5. \A k \in ToSet(ReadKinds) : kept[<<"transformed", k>>] \subseteq kept[<<"source", k>>]
    BY DEF RowsFit
  <2> QED BY <1>1, <2>1, <2>2, <2>3, <2>4, <2>5 DEF RowsFit
<1>17. SourceWhole'
  <2> SUFFICES ASSUME ~ setting.shrunk, NEW k \in EntityTypes, Extracted(k)' PROVE Exact(k)'
    BY <1>1 DEF SourceWhole
  <2>1. Extracted(k)
    BY <1>1, <1>7 DEF Extracted
  <2>2. <<"source", k>> # t
    <3> SUFFICES ASSUME <<"source", k>> = t PROVE FALSE
      OBVIOUS
    <3>1. t[1] = "source"
      BY Zenon
    <3> QED BY <1>3, <1>11, <2>1, <3>1 DEF Extracted, Stages
  <2>3. Exact(k)
    BY <2>1 DEF SourceWhole
  <2> QED BY <1>1, <1>9, <2>2, <2>3, TrackerFacts, ExactKept
<1>18. ReadingKnows'
  <2>1. ~ reading'.grown /\ reading.todo # << >> =>
          ~ reading.grown /\ \A u \in Trackers : u[1] = "source" => EntityCount(u)' = EntityCount(u)
    BY <1>10, <1>13
  <2>2. \A p \in Stages : phases[p] = "completed" =>
          /\ phases'[p] = "completed"
          /\ \A u \in Trackers : u[1] = p => EntityCount(u)' = EntityCount(u)
    BY <1>1, <1>10, <1>11
  <2> QED BY <1>1, <1>13, <2>1, <2>2, ReadingKept
<1> QED BY <1>12, <1>13, <1>14, <1>15, <1>16, <1>17, <1>18

\* A batch is done: its row is written, and what it stored is kept.
LEMMA BatchDone ==
    ASSUME DashboardInv, work.batches # << >>, work.made = Len(work.batches),
           NEW t, t = Tracker, NEW n, n = work.done + 1, BatchEnds(n),
           NEW r \in RowType, Written(t, n, r), n \in 1 .. Len(batchRows[t]),
           r.items = batchRows[t][n].items, r.processed <= Cardinality(work.batches[n]),
           kept' = kept \/ kept' = [kept EXCEPT ![t] = @ \cup work.batches[n]],
           UNCHANGED <<phases, reading, setting>>
    PROVE  DashboardInv'
<1> USE DEF DashboardInv
<1> DEFINE N == SizeOf(t)
           b == Len(work.batches)
<1>1. /\ work.trackers # << >>
      /\ t \in Trackers /\ Stage(t) = work.phase /\ t \in ToSet(work.trackers)
      /\ phases[work.phase] = "in_progress" /\ work.phase \in Stages
      /\ work.batches = Batched(Listed(t))
      /\ work.made \in Nat /\ work.done \in Nat /\ b \in Nat /\ N \in Nat
      /\ b = BatchCount(N)
      /\ \A i \in 1 .. b : /\ work.batches[i] \subseteq Listed(t)
                           /\ Cardinality(work.batches[i]) = Capacity(i, N)
                           /\ Capacity(i, N) \in Nat
  BY TrackerBatches
<1>2. /\ Tail(work.trackers) \in Seq(Trackers)
      /\ \A i \in 1 .. Len(Tail(work.trackers)) : Stage(Tail(work.trackers)[i]) = work.phase
      /\ \A x : x \notin ToSet(Tail(work.trackers)) => x \notin ToSet(work.trackers) \/ x = t
  BY <1>1, TrackerHead
<1>3. /\ b <= Len(batchRows[t]) /\ Len(batchRows[t]) \in Nat /\ work.done < b
      /\ \A i \in 1 .. b : batchRows[t][i].items = Capacity(i, N)
  <2>1. Len(batchRows[t]) \in Nat
    BY <1>1, ColumnTypes
  <2> QED BY <2>1 DEF WorkShape
<1>4. n \in 1 .. b
  BY <1>1, <1>3
<1>5. /\ batchRows' \in [Trackers -> Seq(RowType)]
      /\ \A u \in Trackers : u # t => batchRows'[u] = batchRows[u]
      /\ Len(batchRows'[t]) = Len(batchRows[t])
      /\ \A i \in 1 .. Len(batchRows[t]) : i # n => batchRows'[t][i] = batchRows[t][i]
      /\ batchRows'[t][n] = r
  BY DEF Written
<1> HIDE DEF N, b
<1>6. /\ \A u \in Trackers : Len(batchRows'[u]) = Len(batchRows[u])
      /\ \A u \in Trackers : \A i \in 1 .. Len(batchRows[u]) : batchRows'[u][i].items = batchRows[u][i].items
  BY <1>5
<1>7. /\ \A p \in Stages : phases[p] = "completed" => t[1] # p
      /\ t[1] # "source" => phases["source"] = "completed"
  BY <1>1, OthersComplete
<1>8. t[1] # "source" => Input(t) \in Trackers /\ Input(t) # t
  BY <1>1, TrackerFacts
<1>9. /\ kept' \in [Trackers -> SUBSET Nat]
      /\ \A u \in Trackers : /\ IsFiniteSet(kept'[u]) /\ kept[u] \subseteq kept'[u]
                             /\ u # t => kept'[u] = kept[u]
      /\ kept'[t] \subseteq kept[t] \cup Listed(t)
  <2>1. kept \in [Trackers -> SUBSET Nat] /\ \A u \in Trackers : IsFiniteSet(kept[u])
    BY DEF MigrationTypes
  <2>2. CASE kept' = kept
    BY <2>1, <2>2
  <2>3. CASE kept' = [kept EXCEPT ![t] = @ \cup work.batches[n]]
    <3> DEFINE X == work.batches[n]
    <3>1. X \subseteq Listed(t) /\ Listed(t) \in SUBSET Nat /\ IsFiniteSet(Listed(t))
      BY <1>1, <1>4, SizeFacts
    <3>2. IsFiniteSet(X)
      BY <3>1, FS_Subset
    <3>3. IsFiniteSet(kept[t] \cup X)
      BY <1>1, <2>1, <3>2, FS_Union
    <3> HIDE DEF X
    <3>4. kept' \in [Trackers -> SUBSET Nat]
      BY <2>1, <2>3, <3>1 DEF X
    <3>5. kept'[t] = kept[t] \cup X /\ \A u \in Trackers : u # t => kept'[u] = kept[u]
      BY <1>1, <2>1, <2>3 DEF X
    <3> QED BY <2>1, <3>1, <3>3, <3>4, <3>5
  <2> QED BY <2>2, <2>3
<1>10. Listed(t)' = Listed(t) /\ SizeOf(t)' = N
  <2>1. CASE t[1] = "source"
    BY <2>1 DEF Listed, SizeOf, N
  <2>2. CASE t[1] # "source"
    <3>1. kept'[Input(t)] = kept[Input(t)]
      BY <1>8, <1>9, <2>2
    <3> QED BY <2>2, <3>1 DEF Listed, SizeOf, N
  <2> QED BY <2>1, <2>2
<1>11. ASSUME NEW u \in Trackers
       PROVE  SizeOf(u) \in Nat /\ SizeOf(u)' \in Nat /\ SizeOf(u) <= SizeOf(u)'
  <2>1. SizeOf(u) \in Nat
    BY SizeFacts
  <2>2. CASE u[1] = "source"
    <3>1. SizeOf(u)' = SizeOf(u)
      BY <2>2 DEF SizeOf
    <3> QED BY <2>1, <3>1
  <2>3. CASE u[1] # "source"
    <3> DEFINE v == Input(u)
               x == kept[v]
               y == kept'[v]
    <3>1. v \in Trackers
      BY <2>3, TrackerFacts
    <3>2. IsFiniteSet(y) /\ x \subseteq y
      BY <1>9, <3>1
    <3>3. Cardinality(x) <= Cardinality(y) /\ Cardinality(y) \in Nat
      BY <3>2, FS_Subset, FS_CardinalityType
    <3>4. SizeOf(u) = Cardinality(x) /\ SizeOf(u)' = Cardinality(y)
      BY <2>3 DEF SizeOf, Input
    <3> QED BY <2>1, <3>3, <3>4
  <2> QED BY <2>2, <2>3
<1>12. /\ work'.phase = work.phase
       /\ work' \in [phase : Stages \cup {"none"}, trackers : Seq(Trackers), batches : Seq(SUBSET Nat),
                     made : Nat, done : Nat]
       /\ \/ /\ n # b /\ work'.trackers = work.trackers /\ work'.batches = work.batches
             /\ work'.made = work.made /\ work'.done = n
          \/ /\ n = b /\ work'.trackers = Tail(work.trackers) /\ work'.batches = << >>
             /\ work'.made = 0 /\ work'.done = 0
  <2>1. CASE n = b
    <3>1. work' = [work EXCEPT !.trackers = Tail(@), !.batches = << >>, !.made = 0, !.done = 0]
      BY <2>1 DEF BatchEnds, NextTracker, b
    <3>2. << >> \in Seq(SUBSET Nat) /\ 0 \in Nat
      OBVIOUS
    <3> QED BY <1>2, <2>1, <3>1, <3>2 DEF MigrationTypes
  <2>2. CASE n # b
    <3>1. work' = [work EXCEPT !.done = n]
      BY <2>2 DEF BatchEnds, b
    <3>2. n \in Nat
      BY <1>4
    <3> QED BY <2>2, <3>1, <3>2 DEF MigrationTypes
  <2> QED BY <2>1, <2>2
<1>13. MigrationTypes' /\ ReadingTypes'
  <2>1. MigrationTypes'
    BY <1>5, <1>9, <1>12 DEF MigrationTypes
  <2> QED BY <2>1 DEF ReadingTypes
<1>14. WorkShape'
  <2>1. work'.phase = "none" => work' = Resting
    BY <1>1, <1>12 DEF Stages
  <2>2. work'.phase # "none" => phases'[work'.phase] = "in_progress"
    BY <1>1, <1>12
  <2>3. \A i \in 1 .. Len(work'.trackers) : Stage(work'.trackers[i]) = work'.phase
    <3>1. CASE work'.trackers = work.trackers
      BY <1>12, <3>1 DEF WorkShape
    <3>2. CASE work'.trackers = Tail(work.trackers)
      BY <1>2, <1>12, <3>2
    <3> QED BY <1>12, <3>1, <3>2
  <2>4. work'.batches = << >> => work'.made = 0 /\ work'.done = 0
    BY <1>12
  <2>5. ASSUME work'.batches # << >>
        PROVE  /\ work'.trackers # << >> /\ work'.batches = Batched(Listed(Tracker)')
               /\ work'.made <= Len(work'.batches) /\ work'.done < Len(work'.batches)
               /\ work'.made <= Len(batchRows'[Tracker'])
               /\ \A i \in 1 .. work'.made : batchRows'[Tracker'][i].items = Capacity(i, SizeOf(Tracker)')
    <3>1. n # b /\ work'.trackers = work.trackers /\ work'.batches = work.batches
          /\ work'.made = b /\ work'.done = n
      BY <1>12, <2>5 DEF b
    <3>2. Tracker' = t
      BY <3>1 DEF Tracker
    <3>3. \A i \in 1 .. b : i \in 1 .. Len(batchRows[t])
      BY <1>1, <1>3
    <3>4. \A i \in 1 .. b : batchRows'[t][i].items = Capacity(i, N)
      BY <1>1, <1>3, <1>6, <3>3
    <3>5. n < b
      BY <1>1, <1>4, <3>1
    <3>6. work'.batches = Batched(Listed(Tracker)')
      BY <1>1, <1>10, <3>1, <3>2
    <3>7. Len(batchRows'[t]) = Len(batchRows[t])
      BY <1>5
    <3> QED BY <1>1, <1>3, <1>10, <3>1, <3>2, <3>4, <3>5, <3>6, <3>7 DEF b
  <2> QED BY <2>1, <2>2, <2>3, <2>4, <2>5 DEF WorkShape
<1>15. PhaseOrder'
  <2>1. \A u \in Trackers : batchRows'[u] # << >> => batchRows[u] # << >>
    <3>1. \A u \in Trackers : batchRows[u] \in Seq(RowType) /\ batchRows'[u] \in Seq(RowType)
      BY <1>5 DEF MigrationTypes
    <3>2. \A u \in Trackers : batchRows[u] = << >> <=> Len(batchRows[u]) = 0
      BY <3>1
    <3>3. \A u \in Trackers : batchRows'[u] = << >> <=> Len(batchRows'[u]) = 0
      BY <3>1
    <3> QED BY <1>6, <3>2, <3>3
  <2> QED BY <2>1 DEF PhaseOrder
<1>16. RowsFit'
  <2> SUFFICES ASSUME ~ setting.shrunk PROVE RowsFit'
    BY DEF RowsFit
  <2>1. ASSUME NEW u \in Trackers, NEW i \in 1 .. Len(batchRows[u])
        PROVE  /\ batchRows'[u][i].processed <= batchRows'[u][i].items
               /\ batchRows'[u][i].items <= Capacity(i, SizeOf(u)')
    <3> DEFINE it == batchRows[u][i].items
               x == SizeOf(u)
               y == SizeOf(u)'
    <3>1. batchRows[u][i].processed <= it /\ it <= Capacity(i, x)
      BY DEF RowsFit
    <3>2. batchRows'[u][i].items = it
      BY <1>6
    <3>3. i \in Nat /\ i > 0
      BY ColumnTypes
    <3>4. it \in Nat
      <4>1. batchRows[u][i] \in RowType
        BY ColumnTypes
      <4> QED BY <4>1 DEF RowType
    <3>5. x \in Nat /\ y \in Nat /\ x <= y
      BY <1>11
    <3>6. batchRows'[u][i].processed <= it
      <4>1. CASE u = t /\ i = n
        <5>1. it = Capacity(n, N) /\ Cardinality(work.batches[n]) = Capacity(n, N)
          BY <1>1, <1>3, <1>4, <4>1
        <5>2. batchRows'[u][i].processed = r.processed
          BY <1>5, <4>1
        <5> HIDE DEF it
        <5> QED BY <5>1, <5>2
      <4>2. CASE u # t \/ i # n
        <5>1. batchRows'[u][i] = batchRows[u][i]
          BY <1>5, <4>2
        <5> QED BY <3>1, <5>1
      <4> QED BY <4>1, <4>2
    <3> HIDE DEF it, x, y
    <3>7. Capacity(i, x) \in Nat /\ Capacity(i, y) \in Nat /\ Capacity(i, x) <= Capacity(i, y)
      BY <3>3, <3>5, CapacityFacts
    <3>8. it <= Capacity(i, y)
      BY <3>1, <3>4, <3>7
    <3> QED BY <3>2, <3>6, <3>8 DEF it, y
  <2>2. ASSUME NEW k \in EntityTypes
        PROVE  /\ kept'[<<"source", k>>] \subseteq 1 .. setting.last[k]
               /\ Len(batchRows'[<<"source", k>>]) <= BatchCount(setting.last[k])
    <3> DEFINE u == <<"source", k>>
    <3>1. u \in Trackers
      BY TrackerFacts
    <3>2. kept[u] \subseteq 1 .. setting.last[k] /\ Len(batchRows[u]) <= BatchCount(setting.last[k])
      BY DEF RowsFit
    <3>3. kept'[u] \subseteq 1 .. setting.last[k]
      <4>1. CASE u # t
        BY <1>9, <3>1, <3>2, <4>1
      <4>2. CASE u = t
        <5>1. Listed(t) = 1 .. setting.last[k]
          BY <4>2 DEF Listed
        <5> QED BY <1>9, <3>2, <4>2, <5>1
      <4> QED BY <4>1, <4>2
    <3> QED BY <1>6, <3>1, <3>2, <3>3
  <2>3. ASSUME NEW k \in ToSet(ReadKinds) PROVE kept'[<<"transformed", k>>] \subseteq kept'[<<"source", k>>]
    <3> DEFINE u == <<"transformed", k>>
               v == <<"source", k>>
    <3>1. u \in Trackers /\ v \in Trackers
      BY TrackerFacts
    <3>2. kept[u] \subseteq kept[v] /\ kept[v] \subseteq kept'[v]
      BY <1>9, <3>1 DEF RowsFit
    <3>3. CASE u # t
      BY <1>9, <3>1, <3>2, <3>3
    <3>4. CASE u = t
      <4>1. Listed(t) = kept[v]
        BY <3>4 DEF Listed, Input
      <4> QED BY <1>9, <3>2, <3>4, <4>1
    <3> QED BY <3>3, <3>4
  <2>4. \A u \in Trackers : Len(batchRows'[u]) = Len(batchRows[u])
    BY <1>6
  <2> QED BY <2>1, <2>2, <2>3, <2>4 DEF RowsFit
<1>17. SourceWhole'
  <2> SUFFICES ASSUME ~ setting.shrunk, NEW k \in EntityTypes, Extracted(k)' PROVE Exact(k)'
    BY DEF SourceWhole
  <2> DEFINE u == <<"source", k>>
  <2>1. u \in Trackers
    BY TrackerFacts
  <2>2. Exact(k)
    <3>1. CASE Extracted(k)
      BY <3>1 DEF SourceWhole
    <3>2. CASE ~ Extracted(k)
      <4>1. phases["source"] # "completed" /\ work.phase = "source" /\ u \in ToSet(work.trackers)
            /\ u \notin ToSet(work'.trackers)
        BY <1>12, <3>2 DEF Extracted
      <4>2. n = b /\ u = t
        BY <1>2, <1>12, <4>1
      <4>3. N = setting.last[k]
        BY <4>2 DEF N, SizeOf
      <4>4. Len(batchRows[u]) <= BatchCount(setting.last[k])
        BY DEF RowsFit
      <4>5. Len(batchRows[u]) = BatchCount(setting.last[k])
        <5> DEFINE l == Len(batchRows[u])
        <5>1. l \in Nat /\ b <= l /\ l <= b
          BY <1>1, <1>3, <4>2, <4>3, <4>4
        <5> HIDE DEF l
        <5>2. l = b
          BY <1>1, <5>1
        <5> QED BY <1>1, <4>3, <5>2 DEF l
      <4>6. \A i \in 1 .. Len(batchRows[u]) : batchRows[u][i].items = Capacity(i, setting.last[k])
        BY <1>1, <1>3, <4>2, <4>3, <4>5
      <4> QED BY <4>5, <4>6 DEF Exact
    <3> QED BY <3>1, <3>2
  <2>3. Len(batchRows'[u]) = Len(batchRows[u])
        /\ \A i \in 1 .. Len(batchRows[u]) : batchRows'[u][i].items = batchRows[u][i].items
    BY <1>6, <2>1
  <2> QED BY <2>2, <2>3 DEF Exact
<1>18. ReadingKnows'
  <2>1. ASSUME NEW u \in Trackers, u[1] = "source" PROVE EntityCount(u)' = EntityCount(u)
    <3>1. DOMAIN batchRows'[u] = DOMAIN batchRows[u] /\ DOMAIN batchRows[u] = 1 .. Len(batchRows[u])
      <4>1. batchRows'[u] \in Seq(RowType) /\ batchRows[u] \in Seq(RowType)
        BY <1>5 DEF MigrationTypes
      <4> QED BY <1>6, <4>1
    <3>2. \A i \in DOMAIN batchRows[u] : batchRows'[u][i].items = batchRows[u][i].items
      BY <1>6, <3>1
    <3>3. ItemCounts(u)' = ItemCounts(u)
      BY <3>1, <3>2 DEF ItemCounts
    <3> QED BY <2>1, <3>3 DEF EntityCount
  <2>2. \A u \in Trackers : u # t => EntityCount(u)' = EntityCount(u)
    BY <1>5, CountKept
  <2>3. \A p \in Stages : phases[p] = "completed" =>
          /\ phases'[p] = "completed"
          /\ \A u \in Trackers : u[1] = p => EntityCount(u)' = EntityCount(u)
    BY <1>7, <2>2
  <2> QED BY <2>1, <2>3, ReadingKept
<1> QED BY <1>13, <1>14, <1>15, <1>16, <1>17, <1>18

\* The batch that is done next, and its row.
LEMMA NextBatch ==
    ASSUME DashboardInv, work.batches # << >>, work.made = Len(work.batches),
           NEW t, t = Tracker, NEW n, n = work.done + 1
    PROVE  /\ t \in Trackers /\ n \in 1 .. Len(batchRows[t])
           /\ Cardinality(work.batches[n]) \in Nat
<1>1. /\ t \in Trackers /\ work.done \in Nat /\ Len(work.batches) \in Nat
      /\ \A i \in 1 .. Len(work.batches) : Cardinality(work.batches[i]) \in Nat
  BY TrackerBatches DEF DashboardInv
<1>2. Len(work.batches) <= Len(batchRows[t]) /\ work.done < Len(work.batches) /\ Len(batchRows[t]) \in Nat
  BY <1>1, ColumnTypes DEF DashboardInv, WorkShape
<1>3. n \in 1 .. Len(work.batches) /\ n \in 1 .. Len(batchRows[t])
  BY <1>1, <1>2
<1> QED BY <1>1, <1>3

LEMMA StoreBatchKeeps ==
    ASSUME DashboardInv, StoreBatch
    PROVE  DashboardInv'
<1>0. PICK t, n : t = Tracker /\ n = work.done + 1
  OBVIOUS
<1>1. /\ work.batches # << >> /\ work.made = Len(work.batches) /\ BatchEnds(n)
      /\ UNCHANGED <<phases, reading, setting>>
      /\ \/ /\ UpdateEntityBatchState(t, n, Cardinality(work.batches[n]), "completed")
            /\ kept' = [kept EXCEPT ![t] = @ \cup work.batches[n]]
         \/ UpdateEntityBatchState(t, n, 0, "failed") /\ UNCHANGED kept
  BY <1>0 DEF StoreBatch
<1>2. t \in Trackers /\ n \in 1 .. Len(batchRows[t]) /\ Cardinality(work.batches[n]) \in Nat
  BY <1>0, <1>1, NextBatch
<1>3. MigrationTypes
  BY DEF DashboardInv
<1>4. CASE /\ UpdateEntityBatchState(t, n, Cardinality(work.batches[n]), "completed")
           /\ kept' = [kept EXCEPT ![t] = @ \cup work.batches[n]]
  <2>1. PICK r \in RowType : /\ Written(t, n, r) /\ r.items = batchRows[t][n].items
                             /\ r.processed = Cardinality(work.batches[n])
    BY <1>2, <1>3, <1>4, UpdateWrites
  <2>2. r.processed <= Cardinality(work.batches[n])
    BY <1>2, <2>1
  <2> QED BY <1>0, <1>1, <1>2, <1>4, <2>1, <2>2, BatchDone
<1>5. CASE UpdateEntityBatchState(t, n, 0, "failed") /\ UNCHANGED kept
  <2>0. 0 \in Nat
    OBVIOUS
  <2>1. PICK r \in RowType : /\ Written(t, n, r) /\ r.items = batchRows[t][n].items /\ r.processed = 0
    BY <1>2, <1>3, <1>5, <2>0, UpdateWrites
  <2>2. r.processed <= Cardinality(work.batches[n])
    BY <1>2, <2>1
  <2> QED BY <1>0, <1>1, <1>2, <1>5, <2>1, <2>2, BatchDone
<1> QED BY <1>1, <1>4, <1>5

LEMMA LoadBatchKeeps ==
    ASSUME DashboardInv, LoadBatch
    PROVE  DashboardInv'
<1>0. PICK t, n : t = Tracker /\ n = work.done + 1
  OBVIOUS
<1>1. /\ work.batches # << >> /\ work.made = Len(work.batches) /\ BatchEnds(n)
      /\ UNCHANGED <<phases, kept, reading, setting>>
      /\ \E count \in 0 .. Cardinality(work.batches[n]) : UpdateEntityBatchState(t, n, count, "completed")
  BY <1>0 DEF LoadBatch
<1>2. t \in Trackers /\ n \in 1 .. Len(batchRows[t]) /\ Cardinality(work.batches[n]) \in Nat
  BY <1>0, <1>1, NextBatch
<1>3. MigrationTypes
  BY DEF DashboardInv
<1>4. PICK count \in 0 .. Cardinality(work.batches[n]) : UpdateEntityBatchState(t, n, count, "completed")
  BY <1>1
<1>5. count \in Nat /\ count <= Cardinality(work.batches[n])
  BY <1>2
<1>6. PICK r \in RowType : Written(t, n, r) /\ r.items = batchRows[t][n].items /\ r.processed = count
  BY <1>2, <1>3, <1>4, <1>5, UpdateWrites
<1> QED BY <1>0, <1>1, <1>2, <1>5, <1>6, BatchDone

\* A step of a reading changes nothing else, and counts nothing otherwise.
LEMMA ReaderKeeps ==
    ASSUME DashboardInv, UNCHANGED <<batchRows, phases, kept, work>>,
           setting'.last = setting.last, setting'.shrunk = setting.shrunk,
           setting' \in [db : Databases, shrunk : BOOLEAN, attempts : Nat, readings : Nat,
                         last : [EntityTypes -> Nat]],
           ReadingTypes', ReadingKnows'
    PROVE  DashboardInv'
<1> USE DEF DashboardInv
<1>1. MigrationTypes' /\ PhaseOrder'
  BY DEF MigrationTypes, PhaseOrder
<1>2. Tracker' = Tracker
  BY DEF Tracker
<1>3. \A t : Listed(t)' = Listed(t) /\ SizeOf(t)' = SizeOf(t)
  BY DEF Listed, SizeOf
<1>4. WorkShape'
  <2>1. Listed(Tracker)' = Listed(Tracker) /\ SizeOf(Tracker)' = SizeOf(Tracker)
    BY <1>2 DEF Listed, SizeOf
  <2> QED BY <1>2, <2>1 DEF WorkShape
<1>5. RowsFit'
  BY RowsFitKept
<1>6. SourceWhole'
  <2> SUFFICES ASSUME ~ setting.shrunk, NEW k \in EntityTypes, Extracted(k)' PROVE Exact(k)'
    BY DEF SourceWhole
  <2>1. Extracted(k)
    BY DEF Extracted
  <2>2. Exact(k)
    BY <2>1 DEF SourceWhole
  <2> QED BY <2>2, ExactKept
<1> QED BY <1>1, <1>4, <1>5, <1>6

LEMMA NothingCounted ==
    ASSUME NEW p
    PROVE  CountedUpTo(p, 0) = 0 /\ LastUpTo(p, 0) = 0
<1>1. [i \in 1 .. 0 |-> IF CountedTypes[i][1] = p THEN EntityCount(CountedTypes[i]) ELSE 0] = << >>
  OBVIOUS
<1>2. [i \in 1 .. 0 |-> IF CountedTypes[i][1] = p THEN setting.last[CountedTypes[i][2]] ELSE 0] = << >>
  OBVIOUS
<1> QED BY <1>1, <1>2, TotalEmpty DEF CountedUpTo, LastUpTo

\* A reading that rests knows nothing.
LEMMA RestKnows ==
    ASSUME reading' = NotReading
    PROVE  ReadingTypes' /\ ReadingKnows'
<1>1. << >> \in Seq(PlanQueries) /\ 0 \in Nat
  OBVIOUS
<1>2. ReadingTypes'
  BY <1>1 DEF ReadingTypes, ReadingType, NotReading
<1>3. reading'.todo = << >>
  BY DEF NotReading
<1> QED BY <1>2, <1>3 DEF ReadingKnows

LEMMA StartReadingKeeps ==
    ASSUME DashboardInv, StartReading
    PROVE  DashboardInv'
<1> DEFINE L == Len(CountedTypes)
<1>1. PICK by \in {"dashboard", "report"} : reading' = [NotReading EXCEPT !.by = by, !.todo = ReadPlan]
  BY DEF StartReading
<1>2. setting' = [setting EXCEPT !.readings = @ + 1] /\ UNCHANGED <<batchRows, phases, kept, work>>
  BY DEF StartReading
<1>3. reading' = [by |-> by, todo |-> ReadPlan, state |-> {}, source |-> 0, transformed |-> 0,
                  loaded |-> 0, issues |-> 0, grown |-> FALSE]
  BY <1>1 DEF NotReading
<1>4. ReadPlan \in Seq(PlanQueries) /\ Len(ReadPlan) = L + 4 /\ L \in Nat
  BY ReadPlanIs, CountedTypesAre
<1>5. ReadingTypes'
  <2>1. 0 \in Nat /\ {} \in SUBSET Stages
    OBVIOUS
  <2> QED BY <1>3, <1>4, <2>1 DEF ReadingTypes, ReadingType
<1>6. ReadSoFar' = 0
  <2> HIDE DEF L
  <2>1. Len(reading'.todo) = L + 4
    BY <1>3, <1>4
  <2>2. ReadSoFar' = IF Len(reading'.todo) <= 2 THEN L
                     ELSE IF Len(reading'.todo) >= L + 2 THEN 0 ELSE L + 2 - Len(reading'.todo)
    BY DEF ReadSoFar, L
  <2> QED BY <1>4, <2>1, <2>2
<1>7. \A p \in Stages : reading'[p] = 0
  BY <1>3 DEF Stages
<1>8. ReadingKnows'
  <2>1. reading'.todo = SubSeq(ReadPlan, Len(ReadPlan) - Len(reading'.todo) + 1, Len(ReadPlan))
    <3>1. SubSeq(ReadPlan, 1, Len(ReadPlan)) = ReadPlan
      BY <1>4, SubSeqFull
    <3>2. Len(ReadPlan) - Len(ReadPlan) + 1 = 1
      BY <1>4
    <3> QED BY <1>3, <3>1, <3>2
  <2>2. Len(reading'.todo) <= Len(ReadPlan)
    BY <1>3, <1>4
  <2>3. \A p \in reading'.state : FALSE
    BY <1>3
  <2>4. reading'.source = CountedUpTo("source", 0)'
    <3>1. [i \in 1 .. 0 |-> IF CountedTypes[i][1] = "source" THEN EntityCount(CountedTypes[i])' ELSE 0] = << >>
      OBVIOUS
    <3>2. CountedUpTo("source", 0)' = 0
      BY <3>1, TotalEmpty DEF CountedUpTo
    <3> QED BY <1>3, <3>2
  <2>5. \A p \in {"transformed", "loaded"} : ~ (reading'[p] > 0)
    BY <1>3
  <2> QED BY <1>6, <1>7, <2>1, <2>2, <2>3, <2>4, <2>5 DEF ReadingKnows
<1>9. /\ setting' \in [db : Databases, shrunk : BOOLEAN, attempts : Nat, readings : Nat,
                       last : [EntityTypes -> Nat]]
      /\ setting'.last = setting.last /\ setting'.shrunk = setting.shrunk
  <2> DEFINE a == setting.readings + 1
  <2>1. a \in Nat
    BY DEF MigrationTypes, DashboardInv
  <2>2. setting' = [setting EXCEPT !.readings = a]
    BY <1>2
  <2> HIDE DEF a
  <2> QED BY <2>1, <2>2 DEF MigrationTypes, DashboardInv
<1> QED BY <1>2, <1>5, <1>8, <1>9, ReaderKeeps

\* The next query of a reading, and those after it.
LEMMA NextQuery ==
    ASSUME ReadingTypes, ReadingKnows, reading.todo # << >>,
           NEW L, L = Len(CountedTypes), NEW l, l = Len(reading.todo)
    PROVE  /\ L \in Nat /\ l \in 1 .. L + 4
           /\ Head(reading.todo) = ReadPlan[L + 5 - l]
           /\ Tail(reading.todo) \in Seq(PlanQueries) /\ Len(Tail(reading.todo)) = l - 1
           /\ Tail(reading.todo) = SubSeq(ReadPlan, L + 6 - l, L + 4)
           /\ ReadSoFar = IF l <= 2 THEN L ELSE IF l >= L + 2 THEN 0 ELSE L + 2 - l
<1>1. L \in Nat /\ Len(ReadPlan) = L + 4 /\ ReadPlan \in Seq(PlanQueries)
  BY ReadPlanIs, CountedTypesAre
<1>2. reading.todo \in Seq(PlanQueries)
  BY DEF ReadingTypes, ReadingType
<1>3. l \in Nat /\ l # 0 /\ l <= L + 4
  BY <1>1, <1>2 DEF ReadingKnows
<1> DEFINE m == L + 5 - l
           e == L + 4
<1>4. m \in 1 .. e /\ e \in m .. e /\ e - l + 1 = m /\ m + 1 = L + 6 - l
  BY ONLY <1>1, <1>3
<1>5. Len(ReadPlan) = e /\ reading.todo = SubSeq(ReadPlan, e - l + 1, e)
  BY <1>1 DEF ReadingKnows
<1> HIDE DEF m, e
<1>6. Head(reading.todo) = ReadPlan[m] /\ Tail(reading.todo) = SubSeq(ReadPlan, m + 1, e)
  <2>1. Head(SubSeq(ReadPlan, m, e)) = ReadPlan[m]
        /\ Tail(SubSeq(ReadPlan, m, e)) = SubSeq(ReadPlan, m + 1, e)
    <3>1. m \in 1 .. Len(ReadPlan) /\ e \in m .. Len(ReadPlan)
      BY <1>4, <1>5
    <3>2. ReadPlan \in Seq(PlanQueries)
      BY <1>1
    <3> QED BY ONLY <3>1, <3>2, HeadTailOfSubSeq
  <2> QED BY <1>4, <1>5, <2>1
<1>7. Tail(reading.todo) \in Seq(PlanQueries) /\ Len(Tail(reading.todo)) = l - 1
  BY <1>2, HeadTailProperties
<1>8. ReadSoFar = IF l <= 2 THEN L ELSE IF l >= L + 2 THEN 0 ELSE L + 2 - l
  BY DEF ReadSoFar
<1>9. l \in 1 .. L + 4
  BY <1>1, <1>3
<1> QED BY <1>1, <1>4, <1>6, <1>7, <1>8, <1>9 DEF m, e

\* The queries left after the next one, and how many types are counted then.
LEMMA QueriesLeft ==
    ASSUME ReadingTypes, ReadingKnows, reading.todo # << >>,
           NEW L, L = Len(CountedTypes), NEW l, l = Len(reading.todo),
           reading'.todo = Tail(reading.todo)
    PROVE  /\ Len(reading'.todo) <= Len(ReadPlan)
           /\ reading'.todo = SubSeq(ReadPlan, Len(ReadPlan) - Len(reading'.todo) + 1, Len(ReadPlan))
           /\ ReadSoFar' = IF l <= 3 THEN L ELSE IF l >= L + 3 THEN 0 ELSE L + 3 - l
<1>1. /\ L \in Nat /\ l \in 1 .. L + 4 /\ Len(reading'.todo) = l - 1
      /\ reading'.todo = SubSeq(ReadPlan, L + 6 - l, L + 4)
  BY NextQuery
<1>2. Len(ReadPlan) = L + 4
  BY ReadPlanIs
<1>3. (L + 4) - (l - 1) + 1 = L + 6 - l /\ l - 1 <= L + 4
  BY <1>1
<1>4. ReadSoFar' = IF l - 1 <= 2 THEN L ELSE IF l - 1 >= L + 2 THEN 0 ELSE L + 2 - (l - 1)
  BY <1>1 DEF ReadSoFar
<1>5. (l - 1 <= 2 <=> l <= 3) /\ (l - 1 >= L + 2 <=> l >= L + 3) /\ L + 2 - (l - 1) = L + 3 - l
  BY <1>1
<1>6. ReadSoFar' = IF l <= 3 THEN L ELSE IF l >= L + 3 THEN 0 ELSE L + 3 - l
  BY <1>4, <1>5, Zenon
<1> QED BY <1>1, <1>2, <1>3, <1>6

\* A query that counts nothing.
LEMMA NothingMore ==
    ASSUME ReadingTypes, ReadingKnows, UNCHANGED <<batchRows, phases, kept, work, setting>>,
           reading.todo # << >>, reading'.todo = Tail(reading.todo), ReadSoFar' = ReadSoFar,
           \A p \in Stages : reading'[p] = reading[p],
           reading'.grown = reading.grown,
           \A p \in reading'.state : p \in reading.state
               \/ (ReadSoFar = 0 /\ p \in Stages /\ phases[p] = "completed")
    PROVE  ReadingKnows'
<1> DEFINE L == Len(CountedTypes)
<1>0. PICK m : m = ReadSoFar
  OBVIOUS
<1>1. /\ Len(reading'.todo) <= Len(ReadPlan)
      /\ reading'.todo = SubSeq(ReadPlan, Len(ReadPlan) - Len(reading'.todo) + 1, Len(ReadPlan))
  BY QueriesLeft
<1>2. \A p : CountedUpTo(p, m)' = CountedUpTo(p, m) /\ LastUpTo(p, m)' = LastUpTo(p, m)
  <2>1. \A t : EntityCount(t)' = EntityCount(t)
    BY CountKept
  <2> QED BY <2>1 DEF CountedUpTo, LastUpTo
<1>3. m = 0 => \A p \in Stages : reading'[p] = 0
  BY <1>0 DEF ReadingKnows
<1>4. \A p \in reading'.state : phases[p] = "completed" /\ reading'[p] = CountedUpTo(p, m)
  <2> TAKE p \in reading'.state
  <2>1. CASE p \in reading.state
    <3>1. p \in Stages
      BY <2>1 DEF ReadingTypes, ReadingType
    <3> QED BY <1>0, <2>1, <3>1 DEF ReadingKnows
  <2>2. CASE m = 0 /\ p \in Stages /\ phases[p] = "completed"
    BY <1>3, <2>2, NothingCounted
  <2> QED BY <1>0, <2>1, <2>2
<1>5. ~ reading'.grown => reading'.source = CountedUpTo("source", m)
  BY <1>0 DEF ReadingKnows, Stages
<1>6. ~ setting.shrunk => \A p \in {"transformed", "loaded"} :
        reading'[p] > 0 => phases["source"] = "completed" /\ reading'[p] <= LastUpTo(p, m)
  BY <1>0 DEF ReadingKnows, Stages
<1> QED BY <1>0, <1>1, <1>2, <1>3, <1>4, <1>5, <1>6 DEF ReadingKnows

\* The count of one type more.
LEMMA OneTypeMore ==
    ASSUME MigrationTypes, NEW p, NEW m \in Nat, m < Len(CountedTypes)
    PROVE  LET q == CountedTypes[m + 1]
           IN  /\ CountedUpTo(p, m) \in Nat /\ LastUpTo(p, m) \in Nat
               /\ CountedUpTo(p, m + 1) = CountedUpTo(p, m) + (IF q[1] = p THEN EntityCount(q) ELSE 0)
               /\ LastUpTo(p, m + 1) = LastUpTo(p, m) + (IF q[1] = p THEN setting.last[q[2]] ELSE 0)
<1> DEFINE j == m + 1
           a == Counts(p, m)
           b == Counts(p, j)
           c == Sizes1(p, m)
           d == Sizes1(p, j)
           ec == IF CountedTypes[j][1] = p THEN EntityCount(CountedTypes[j]) ELSE 0
           lc == IF CountedTypes[j][1] = p THEN setting.last[CountedTypes[j][2]] ELSE 0
<1>1. m \in 0 .. Len(CountedTypes) /\ j \in 0 .. Len(CountedTypes) /\ j \in 1 .. j
      /\ \A i \in 1 .. m : i \in 1 .. j
  BY CountedTypesAre
<1>2. a \in Seq(Nat) /\ Len(a) = m /\ b \in Seq(Nat) /\ Len(b) = j
  BY <1>1, CountsTypes
<1>3. c \in Seq(Nat) /\ Len(c) = m /\ d \in Seq(Nat) /\ Len(d) = j
  BY <1>1, SizesTypes
<1>4. (\A i \in 1 .. m : a[i] = b[i]) /\ b[j] = ec
  BY <1>1 DEF Counts
<1>5. (\A i \in 1 .. m : c[i] = d[i]) /\ d[j] = lc
  BY <1>1 DEF Sizes1
<1>6. /\ CountedUpTo(p, m) = Total(a) /\ CountedUpTo(p, j) = Total(b)
      /\ LastUpTo(p, m) = Total(c) /\ LastUpTo(p, j) = Total(d)
  BY DEF CountedUpTo, LastUpTo, Counts, Sizes1
<1> HIDE DEF a, b, c, d, ec, lc
<1>7. Total(b) = Total(a) + ec /\ Total(a) \in Nat
  BY <1>2, <1>4, TotalLast, TotalNat
<1>8. Total(d) = Total(c) + lc /\ Total(c) \in Nat
  BY <1>3, <1>5, TotalLast, TotalNat
<1>9. /\ CountedUpTo(p, m) \in Nat /\ LastUpTo(p, m) \in Nat
      /\ CountedUpTo(p, j) = CountedUpTo(p, m) + ec
      /\ LastUpTo(p, j) = LastUpTo(p, m) + lc
  BY <1>6, <1>7, <1>8
<1> QED BY <1>9 DEF j, ec, lc

\* What is counted of a type transformed or loaded was extracted, and the source is complete.
LEMMA CountedInSource ==
    ASSUME MigrationTypes, PhaseOrder, RowsFit, ~ setting.shrunk, NEW q \in Trackers,
           q[1] \in {"transformed", "loaded"}
    PROVE  /\ EntityCount(q) <= setting.last[q[2]]
           /\ EntityCount(q) > 0 => phases["source"] = "completed"
<1> DEFINE k == q[2]
<1>1. k \in ToSet(ReadKinds) /\ k \in EntityTypes
  BY TrackerFacts
<1>2. SizeOf(q) = Cardinality(kept[Input(q)])
  BY DEF SizeOf
<1>3. kept[Input(q)] \subseteq 1 .. setting.last[k]
  <2>1. kept[<<"source", k>>] \subseteq 1 .. setting.last[k]
        /\ kept[<<"transformed", k>>] \subseteq kept[<<"source", k>>]
    BY <1>1 DEF RowsFit
  <2>2. Input(q) = <<"source", k>> \/ Input(q) = <<"transformed", k>>
    BY DEF Input
  <2> QED BY <2>1, <2>2
<1>4. SizeOf(q) <= setting.last[k]
  <2> DEFINE z == setting.last[k]
  <2>1. z \in Nat
    BY <1>1 DEF MigrationTypes
  <2>2. kept[Input(q)] \subseteq 1 .. z
    BY <1>3
  <2> HIDE DEF z
  <2>3. IsFiniteSet(1 .. z) /\ Cardinality(1 .. z) = IF 1 > z THEN 0 ELSE z - 1 + 1
    BY <2>1, FS_Interval
  <2>4. Cardinality(1 .. z) = z
    BY <2>1, <2>3
  <2>5. Cardinality(kept[Input(q)]) <= Cardinality(1 .. z)
    BY <2>2, <2>3, FS_Subset
  <2>6. SizeOf(q) <= z
    BY <1>2, <2>4, <2>5
  <2> QED BY <2>6 DEF z
<1>5. EntityCount(q) <= SizeOf(q)
  BY CountsFit
<1>6. EntityCount(q) \in Nat /\ SizeOf(q) \in Nat /\ setting.last[k] \in Nat
  <2>1. setting.last[k] \in Nat
    BY <1>1 DEF MigrationTypes
  <2> QED BY <2>1, ColumnTypes, SizeFacts
<1>7. EntityCount(q) <= setting.last[k]
  <2> DEFINE x == EntityCount(q)
             y == SizeOf(q)
             z == setting.last[k]
  <2>1. x \in Nat /\ y \in Nat /\ z \in Nat /\ x <= y /\ y <= z
    BY <1>4, <1>5, <1>6
  <2> HIDE DEF x, y, z
  <2>2. x <= z
    BY <2>1
  <2> QED BY <2>2 DEF x, z
<1>8. ASSUME EntityCount(q) > 0 PROVE phases["source"] = "completed"
  <2>1. CASE batchRows[q] # << >>
    BY <2>1 DEF PhaseOrder
  <2>2. CASE batchRows[q] = << >>
    <3>1. CompletedCounts(q) = << >>
      BY <2>2 DEF CompletedCounts
    <3>2. EntityCount(q) = 0
      BY <3>1, TotalEmpty DEF EntityCount
    <3> QED BY <1>8, <3>2
  <2> QED BY <2>1, <2>2
<1> QED BY <1>7, <1>8

\* A query for the count of a type.
LEMMA CountKnows ==
    ASSUME DashboardInv, UNCHANGED <<batchRows, phases, kept, work, setting>>,
           reading.todo # << >>,
           NEW L, L = Len(CountedTypes), NEW l, l = Len(reading.todo), l >= 3, l <= L + 2,
           NEW q, q = Head(reading.todo),
           reading' = [[reading EXCEPT !.todo = Tail(@)] EXCEPT ![q[1]] = @ + EntityCount(q)]
    PROVE  ReadingTypes' /\ ReadingKnows'
<1> USE DEF DashboardInv
<1>0. PICK m : m = L + 2 - l
  OBVIOUS
<1> DEFINE e == EntityCount(q)
           z == setting.last[q[2]]
<1>1. /\ L \in Nat /\ l \in 1 .. L + 4 /\ q = ReadPlan[L + 5 - l]
      /\ Tail(reading.todo) \in Seq(PlanQueries)
      /\ ReadSoFar = IF l <= 2 THEN L ELSE IF l >= L + 2 THEN 0 ELSE L + 2 - l
  BY NextQuery
<1>2. m \in Nat /\ m < L /\ ReadSoFar = m /\ m + 1 \in 1 .. L /\ (m + 1) + 2 = L + 5 - l
      /\ m + 1 = L + 3 - l /\ m + 1 # 0
  <2>1. L \in Nat /\ l \in Nat /\ l >= 3 /\ l <= L + 2
    BY <1>1
  <2>2. m \in Nat /\ m < L /\ m + 1 \in 1 .. L /\ (m + 1) + 2 = L + 5 - l
        /\ m + 1 = L + 3 - l /\ m + 1 # 0
    BY ONLY <1>0, <2>1
  <2>3. (IF l <= 2 THEN L ELSE IF l >= L + 2 THEN 0 ELSE L + 2 - l) = m
    BY ONLY <1>0, <2>1
  <2> QED BY <1>1, <2>2, <2>3
<1>3. q = CountedTypes[m + 1] /\ q \in Trackers /\ q[1] \in Stages
  <2>1. \A i \in 1 .. L : ReadPlan[i + 2] = CountedTypes[i]
    BY ReadPlanIs
  <2>2. CountedTypes \in Seq(Trackers) /\ \A i \in 1 .. L : CountedTypes[i][1] \in Stages
    BY CountedTypesAre
  <2>3. q = CountedTypes[m + 1]
    BY <1>1, <1>2, <2>1
  <2>4. m + 1 \in 1 .. L
    BY <1>2
  <2>5. CountedTypes[m + 1] \in Trackers
    BY <2>2, <2>4
  <2>6. CountedTypes[m + 1][1] \in Stages
    BY <2>2, <2>4
  <2> QED BY <2>3, <2>5, <2>6
<1>4. e \in Nat /\ z \in Nat
  <2>1. q[2] \in EntityTypes
    BY <1>3, TrackerFacts
  <2> QED BY <1>3, <2>1, ColumnTypes DEF MigrationTypes
<1> HIDE DEF e, z
<1>5. /\ reading'.todo = Tail(reading.todo) /\ reading'.state = reading.state
      /\ reading'.grown = reading.grown /\ ReadingTypes'
      /\ \A p \in Stages : reading'[p] = reading[p] + (IF q[1] = p THEN e ELSE 0)
      /\ \A p \in Stages : reading[p] \in Nat
  <2> DEFINE s == reading.source + e
             t == reading.transformed + e
             v == reading.loaded + e
             todo == Tail(reading.todo)
  <2>0. reading.source \in Nat /\ reading.transformed \in Nat /\ reading.loaded \in Nat
    BY DEF ReadingTypes, ReadingType
  <2>1. s \in Nat /\ t \in Nat /\ v \in Nat /\ todo \in Seq(PlanQueries)
    <3>1. s \in Nat /\ t \in Nat /\ v \in Nat
      BY ONLY <1>4, <2>0
    <3> QED BY <1>1, <3>1
  <2>2. reading' = [[reading EXCEPT !.todo = todo] EXCEPT ![q[1]] = @ + e]
    BY DEF e
  <2>3. CASE q[1] = "source"
    <3>1. reading' = [reading EXCEPT !.todo = todo, !.source = s]
      BY <2>2, <2>3 DEF ReadingTypes, ReadingType
    <3> HIDE DEF s, todo
    <3>2. /\ reading'.todo = todo /\ reading'.state = reading.state /\ reading'.grown = reading.grown
          /\ reading'.source = s /\ reading'.transformed = reading.transformed
          /\ reading'.loaded = reading.loaded /\ ReadingTypes'
      BY <2>1, <3>1 DEF ReadingTypes, ReadingType
    <3> QED BY <2>0, <2>3, <3>2 DEF Stages, s, todo
  <2>4. CASE q[1] = "transformed"
    <3>1. reading' = [reading EXCEPT !.todo = todo, !.transformed = t]
      BY <2>2, <2>4 DEF ReadingTypes, ReadingType
    <3> HIDE DEF t, todo
    <3>2. /\ reading'.todo = todo /\ reading'.state = reading.state /\ reading'.grown = reading.grown
          /\ reading'.source = reading.source /\ reading'.transformed = t
          /\ reading'.loaded = reading.loaded /\ ReadingTypes'
      BY <2>1, <3>1 DEF ReadingTypes, ReadingType
    <3> QED BY <2>0, <2>4, <3>2 DEF Stages, t, todo
  <2>5. CASE q[1] = "loaded"
    <3>1. reading' = [reading EXCEPT !.todo = todo, !.loaded = v]
      BY <2>2, <2>5 DEF ReadingTypes, ReadingType
    <3> HIDE DEF v, todo
    <3>2. /\ reading'.todo = todo /\ reading'.state = reading.state /\ reading'.grown = reading.grown
          /\ reading'.source = reading.source /\ reading'.transformed = reading.transformed
          /\ reading'.loaded = v /\ ReadingTypes'
      BY <2>1, <3>1 DEF ReadingTypes, ReadingType
    <3> QED BY <2>0, <2>5, <3>2 DEF Stages, v, todo
  <2> QED BY <1>3, <2>3, <2>4, <2>5 DEF Stages
<1>6. ReadSoFar' = m + 1
  <2>1. ReadSoFar' = IF l <= 3 THEN L ELSE IF l >= L + 3 THEN 0 ELSE L + 3 - l
    BY <1>5, QueriesLeft
  <2>2. L \in Nat /\ l \in Nat /\ l >= 3 /\ l <= L + 2
    BY <1>1
  <2>3. (IF l <= 3 THEN L ELSE IF l >= L + 3 THEN 0 ELSE L + 3 - l) = m + 1
    BY ONLY <1>0, <2>2
  <2> QED BY <2>1, <2>3
<1>7. /\ Len(reading'.todo) <= Len(ReadPlan)
      /\ reading'.todo = SubSeq(ReadPlan, Len(ReadPlan) - Len(reading'.todo) + 1, Len(ReadPlan))
  BY <1>5, QueriesLeft
<1>8. PICK i : i = m + 1
  OBVIOUS
<1>9. \A p : CountedUpTo(p, i)' = CountedUpTo(p, i) /\ LastUpTo(p, i)' = LastUpTo(p, i)
  <2>1. \A t : EntityCount(t)' = EntityCount(t)
    BY CountKept
  <2> QED BY <2>1 DEF CountedUpTo, LastUpTo
<1>10. \A p : /\ CountedUpTo(p, m) \in Nat /\ LastUpTo(p, m) \in Nat
              /\ CountedUpTo(p, i) = CountedUpTo(p, m) + (IF q[1] = p THEN e ELSE 0)
              /\ LastUpTo(p, i) = LastUpTo(p, m) + (IF q[1] = p THEN z ELSE 0)
  BY <1>2, <1>3, <1>8, OneTypeMore DEF e, z
<1>11. \A p \in reading'.state : phases[p] = "completed" /\ reading'[p] = CountedUpTo(p, i)
  <2> TAKE p \in reading'.state
  <2>1. p \in Stages /\ p \in reading.state
    BY <1>5 DEF ReadingTypes, ReadingType
  <2>2. phases[p] = "completed" /\ reading[p] = CountedUpTo(p, m)
    BY <1>2, <2>1 DEF ReadingKnows
  <2>3. reading'[p] = reading[p] + (IF q[1] = p THEN e ELSE 0)
    BY <1>5, <2>1
  <2> QED BY <1>10, <2>2, <2>3
<1>12. ~ reading'.grown => reading'.source = CountedUpTo("source", i)
  <2> SUFFICES ASSUME ~ reading'.grown PROVE reading'.source = CountedUpTo("source", i)
    OBVIOUS
  <2>1. reading.source = CountedUpTo("source", m)
    BY <1>2, <1>5 DEF ReadingKnows
  <2>2. reading'.source = reading.source + (IF q[1] = "source" THEN e ELSE 0)
    BY <1>5 DEF Stages
  <2> QED BY <1>10, <2>1, <2>2
<1>13. ASSUME ~ setting.shrunk, NEW p \in {"transformed", "loaded"}, reading'[p] > 0
       PROVE  phases["source"] = "completed" /\ reading'[p] <= LastUpTo(p, i)
  <2> DEFINE x == reading[p]
             y == reading'[p]
             a == LastUpTo(p, m)
             b == LastUpTo(p, i)
  <2>0. p \in Stages
    BY DEF Stages
  <2>1. x \in Nat /\ a \in Nat /\ y = x + (IF q[1] = p THEN e ELSE 0)
        /\ b = a + (IF q[1] = p THEN z ELSE 0)
    BY <1>5, <1>10, <2>0
  <2>2. x > 0 => phases["source"] = "completed" /\ x <= a
    BY <1>2, <1>13 DEF ReadingKnows
  <2>3. q[1] = p => e <= z /\ (e > 0 => phases["source"] = "completed")
    BY <1>3, <1>13, CountedInSource DEF e, z
  <2>4. y > 0
    BY <1>13
  <2> HIDE DEF x, y, a, b
  <2>5. CASE q[1] = p
    <3>1. y = x + e /\ b = a + z /\ e <= z
      BY <2>1, <2>3, <2>5
    <3>2. x > 0 \/ e > 0
      BY <1>4, <2>1, <2>4, <3>1
    <3>3. x <= a
      BY <2>1, <2>2
    <3>4. y <= b
      BY <1>4, <2>1, <3>1, <3>3
    <3> QED BY <2>2, <2>3, <2>5, <3>2, <3>4 DEF y, b
  <2>6. CASE q[1] # p
    <3>1. y = x /\ b = a
      BY <2>1, <2>6
    <3> QED BY <2>2, <2>4, <3>1 DEF y, b
  <2> QED BY <2>5, <2>6
<1>14. ReadSoFar' = i /\ i # 0
  BY <1>2, <1>6, <1>8
<1>15. ReadingKnows'
  BY <1>7, <1>9, <1>11, <1>12, <1>13, <1>14 DEF ReadingKnows
<1> QED BY <1>5, <1>15

LEMMA ReadNextKeeps ==
    ASSUME DashboardInv, ReadNext
    PROVE  DashboardInv'
<1> USE DEF DashboardInv
<1>0. PICK q, l, L, todo : /\ q = Head(reading.todo) /\ l = Len(reading.todo) /\ L = Len(CountedTypes)
                           /\ todo = Tail(reading.todo)
  OBVIOUS
<1> DEFINE left == [reading EXCEPT !.todo = Tail(@)]
<1>1. /\ reading.todo # << >> /\ UNCHANGED <<batchRows, phases, kept, work, setting>>
      /\ reading' = CASE q = <<"state">> -> [left EXCEPT !.state = Completed]
                      [] q = <<"mappings">> -> IF MappingsRaise THEN NotReading ELSE left
                      [] q = <<"issues">> -> [left EXCEPT !.issues = ShownIssues]
                      [] q = <<"rest">> -> NotReading
                      [] OTHER -> [left EXCEPT ![q[1]] = @ + EntityCount(q)]
  BY <1>0 DEF ReadNext
<1>2. /\ L \in Nat /\ l \in 1 .. L + 4 /\ q = ReadPlan[L + 5 - l]
      /\ todo \in Seq(PlanQueries)
      /\ ReadSoFar = IF l <= 2 THEN L ELSE IF l >= L + 2 THEN 0 ELSE L + 2 - l
  BY <1>0, <1>1, NextQuery
<1>3. L = 3 * Len(ReadKinds) + 1 /\ Len(ReadKinds) \in Nat
  BY <1>0, CountedTypesAre
<1>4. ASSUME ReadingTypes', ReadingKnows' PROVE DashboardInv'
  <2>1. setting' \in [db : Databases, shrunk : BOOLEAN, attempts : Nat, readings : Nat,
                      last : [EntityTypes -> Nat]]
    BY <1>1 DEF MigrationTypes
  <2> QED BY <1>1, <1>4, <2>1, ReaderKeeps
<1>5. CASE reading' = NotReading
  BY <1>4, <1>5, RestKnows
<1>6. ASSUME reading'.todo = todo
      PROVE  ReadSoFar' = IF l <= 3 THEN L ELSE IF l >= L + 3 THEN 0 ELSE L + 3 - l
  BY <1>0, <1>1, <1>6, QueriesLeft
<1>7. CASE l = L + 4
  <2>1. q = <<"state">>
    <3>1. L + 5 - l = 1
      BY <1>2, <1>7
    <3> QED BY <1>2, <3>1, ReadPlanIs
  <2>2. reading' = [reading EXCEPT !.todo = todo, !.state = Completed]
    BY <1>0, <1>1, <2>1
  <2>3. Completed \in SUBSET Stages /\ \A p \in Completed : p \in Stages /\ phases[p] = "completed"
    BY StagesAre DEF Completed
  <2>4. /\ reading'.todo = todo /\ reading'.state = Completed /\ reading'.grown = reading.grown
        /\ reading'.source = reading.source /\ reading'.transformed = reading.transformed
        /\ reading'.loaded = reading.loaded /\ ReadingTypes'
    BY <1>2, <2>2, <2>3 DEF ReadingTypes, ReadingType
  <2>5. ReadSoFar' = 0 /\ ReadSoFar = 0
    <3>1. ReadSoFar' = IF l <= 3 THEN L ELSE IF l >= L + 3 THEN 0 ELSE L + 3 - l
      BY <1>6, <2>4
    <3>2. L \in Nat /\ L > 0
      BY <1>2, <1>3
    <3> QED BY <1>2, <1>7, <3>1, <3>2
  <2>6. \A p \in Stages : reading'[p] = reading[p]
    BY <2>4 DEF Stages
  <2>7. ReadingKnows'
    BY <1>0, <1>1, <2>3, <2>4, <2>5, <2>6, NothingMore
  <2> QED BY <1>4, <2>4, <2>7
<1>8. ASSUME l = L + 3 \/ l = 2, reading'.todo = todo, reading'.state = reading.state,
             reading'.grown = reading.grown, reading'.source = reading.source,
             reading'.transformed = reading.transformed, reading'.loaded = reading.loaded
      PROVE  ReadingKnows'
  <2>1. ReadSoFar' = ReadSoFar
    <3>1. ReadSoFar' = IF l <= 3 THEN L ELSE IF l >= L + 3 THEN 0 ELSE L + 3 - l
      BY <1>6, <1>8
    <3>2. L \in Nat /\ L > 0
      BY <1>2, <1>3
    <3> QED BY <1>2, <1>8, <3>1, <3>2
  <2>2. \A p \in Stages : reading'[p] = reading[p]
    BY <1>8 DEF Stages
  <2> QED BY <1>0, <1>1, <1>8, <2>1, <2>2, NothingMore
<1>9. CASE l = L + 3
  <2>1. q = <<"mappings">>
    <3>1. L + 5 - l = 2
      BY <1>2, <1>9
    <3> QED BY <1>2, <3>1, ReadPlanIs
  <2>2. reading' = NotReading \/ reading' = [reading EXCEPT !.todo = todo]
    <3>1. reading' = IF MappingsRaise THEN NotReading ELSE left
      BY <1>1, <2>1
    <3>2. left = [reading EXCEPT !.todo = todo]
      BY <1>0
    <3> HIDE DEF left
    <3> QED BY <3>1, <3>2
  <2>3. CASE reading' = [reading EXCEPT !.todo = todo]
    <3>1. /\ reading'.todo = todo /\ reading'.state = reading.state /\ reading'.grown = reading.grown
          /\ reading'.source = reading.source /\ reading'.transformed = reading.transformed
          /\ reading'.loaded = reading.loaded /\ ReadingTypes'
      BY <1>2, <2>3 DEF ReadingTypes, ReadingType
    <3> QED BY <1>4, <1>8, <1>9, <3>1
  <2> QED BY <1>5, <2>2, <2>3
<1>10. CASE l = 2
  <2>1. q = <<"issues">>
    <3>1. L + 5 - l = L + 3
      BY <1>2, <1>10
    <3> QED BY <1>0, <1>2, <3>1, ReadPlanIs
  <2>2. reading' = [reading EXCEPT !.todo = todo, !.issues = 0]
    BY <1>0, <1>1, <2>1 DEF ShownIssues
  <2>3. /\ reading'.todo = todo /\ reading'.state = reading.state /\ reading'.grown = reading.grown
        /\ reading'.source = reading.source /\ reading'.transformed = reading.transformed
        /\ reading'.loaded = reading.loaded /\ ReadingTypes'
    BY <1>2, <2>2 DEF ReadingTypes, ReadingType
  <2> QED BY <1>4, <1>8, <1>10, <2>3
<1>11. CASE l = 1
  <2>1. q = <<"rest">>
    <3>1. L + 5 - l = L + 4
      BY <1>2, <1>11
    <3> QED BY <1>0, <1>2, <3>1, ReadPlanIs
  <2>2. reading' = NotReading
    BY <1>1, <2>1
  <2> QED BY <1>5, <2>2
<1>12. CASE l >= 3 /\ l <= L + 2
  <2>1. q \in Trackers
    <3>1. L + 3 - l \in 1 .. L /\ (L + 3 - l) + 2 = L + 5 - l
      BY <1>2, <1>12
    <3>2. \A i \in 1 .. L : ReadPlan[i + 2] = CountedTypes[i]
      BY <1>0, ReadPlanIs
    <3>3. CountedTypes \in Seq(Trackers)
      BY CountedTypesAre
    <3>4. q = CountedTypes[L + 3 - l]
      BY <1>2, <3>1, <3>2
    <3>5. CountedTypes[L + 3 - l] \in Trackers
      <4> DEFINE j == L + 3 - l
      <4>1. j \in 1 .. Len(CountedTypes)
        BY <1>0, <3>1
      <4> HIDE DEF j
      <4>2. CountedTypes[j] \in Trackers
        BY <3>3, <4>1
      <4> QED BY <4>2 DEF j
    <3> QED BY <3>4, <3>5
  <2>2. q # <<"state">> /\ q # <<"mappings">> /\ q # <<"issues">> /\ q # <<"rest">>
    <3>1. q = <<q[1], q[2]>>
      BY <2>1, TrackerFacts
    <3>2. Len(<<q[1], q[2]>>) = 2 /\ \A x : Len(<<x>>) = 1
      OBVIOUS
    <3> QED BY <3>1, <3>2
  <2>3. reading' = [left EXCEPT ![q[1]] = @ + EntityCount(q)]
    BY <1>1, <2>2
  <2>4. ReadingTypes' /\ ReadingKnows'
    BY <1>0, <1>1, <1>12, <2>3, CountKnows
  <2> QED BY <1>4, <2>4
<1>13. l = L + 4 \/ l = L + 3 \/ l = 2 \/ l = 1 \/ (l >= 3 /\ l <= L + 2)
  BY <1>2
<1> QED BY <1>7, <1>9, <1>10, <1>11, <1>12, <1>13

LEMMA DashStarts ==
    ASSUME DashInit
    PROVE  DashboardInv
<1>1. /\ batchRows = [t \in Trackers |-> << >>] /\ phases = [p \in ToSet(PhaseNames) |-> "not_started"]
      /\ kept = [t \in Trackers |-> {}] /\ work = Resting /\ reading = NotReading
      /\ setting \in [db : Databases, shrunk : {FALSE}, attempts : {0}, readings : {0},
                      last : {[k \in EntityTypes |-> 0]}]
  BY DEF DashInit
<1>2. /\ setting \in [db : Databases, shrunk : BOOLEAN, attempts : Nat, readings : Nat,
                      last : [EntityTypes -> Nat]]
      /\ \A k \in EntityTypes : setting.last[k] = 0
  <2> DEFINE z == [k \in EntityTypes |-> 0]
  <2>1. z \in [EntityTypes -> Nat] /\ \A k \in EntityTypes : z[k] = 0
    OBVIOUS
  <2> HIDE DEF z
  <2>2. setting \in [db : Databases, shrunk : {FALSE}, attempts : {0}, readings : {0}, last : {z}]
    BY <1>1 DEF z
  <2>3. setting.last = z
    BY <2>2
  <2>4. setting \in [db : Databases, shrunk : BOOLEAN, attempts : Nat, readings : Nat,
                     last : [EntityTypes -> Nat]]
    <3>1. setting.db \in Databases
          /\ setting = [db |-> setting.db, shrunk |-> FALSE, attempts |-> 0, readings |-> 0, last |-> z]
      BY <2>2
    <3>2. 0 \in Nat /\ FALSE \in BOOLEAN /\ z \in [EntityTypes -> Nat]
      BY <2>1
    <3> DEFINE d == setting.db
               r == [db |-> d, shrunk |-> FALSE, attempts |-> 0, readings |-> 0, last |-> z]
    <3>3. d \in Databases /\ setting = r
      BY <3>1
    <3> HIDE DEF d
    <3>4. r \in [db : Databases, shrunk : BOOLEAN, attempts : Nat, readings : Nat,
                 last : [EntityTypes -> Nat]]
      BY <3>2, <3>3
    <3> HIDE DEF r
    <3> QED BY <3>3, <3>4
  <2> QED BY <2>1, <2>3, <2>4
<1>3. /\ << >> \in Seq(RowType) /\ << >> \in Seq(Trackers) /\ << >> \in Seq(SUBSET Nat)
      /\ << >> \in Seq(PlanQueries) /\ Len(<< >>) = 0 /\ 0 \in Nat
  OBVIOUS
<1>4. \A t \in Trackers : batchRows[t] = << >> /\ kept[t] = {}
  BY <1>1
<1>5. phases = [p \in Stages |-> "not_started"]
  BY <1>1, StagesAre
<1>6. MigrationTypes
  <2>1. IsFiniteSet({})
    BY FS_EmptySet
  <2>2. work \in [phase : Stages \cup {"none"}, trackers : Seq(Trackers), batches : Seq(SUBSET Nat),
                  made : Nat, done : Nat]
    BY <1>1, <1>3 DEF Resting
  <2> QED BY <1>1, <1>2, <1>3, <1>4, <1>5, <2>1, <2>2 DEF MigrationTypes
<1>7. ReadingTypes
  BY <1>1, <1>3 DEF ReadingTypes, ReadingType, NotReading
<1>8. WorkShape
  <2>1. work.phase = "none" /\ work.trackers = << >> /\ work.batches = << >> /\ work.made = 0 /\ work.done = 0
    BY <1>1 DEF Resting
  <2> QED BY <1>1, <1>3, <2>1 DEF WorkShape
<1>9. PhaseOrder
  BY <1>4, <1>5 DEF PhaseOrder, Stages
<1>10. \A k \in EntityTypes : batchRows[<<"source", k>>] = << >> /\ kept[<<"source", k>>] = {}
  BY <1>4, TrackerFacts
<1>11. \A k \in EntityTypes : BatchCount(setting.last[k]) = 0
  <2> TAKE k \in EntityTypes
  <2>1. setting.last[k] \in Nat /\ setting.last[k] = 0
    BY <1>2
  <2> QED BY <2>1, BatchCountFacts
<1>12. RowsFit
  <2>1. \A t \in Trackers : \A n \in 1 .. Len(batchRows[t]) : FALSE
    BY <1>3, <1>4
  <2>2. \A k \in EntityTypes : /\ kept[<<"source", k>>] \subseteq 1 .. setting.last[k]
                               /\ Len(batchRows[<<"source", k>>]) <= BatchCount(setting.last[k])
    <3> TAKE k \in EntityTypes
    <3>1. Len(batchRows[<<"source", k>>]) = 0 /\ kept[<<"source", k>>] = {}
      BY <1>3, <1>10
    <3> QED BY <1>11, <3>1
  <2>3. \A k \in ToSet(ReadKinds) : kept[<<"transformed", k>>] \subseteq kept[<<"source", k>>]
    BY <1>4, TrackerFacts
  <2> QED BY <2>1, <2>2, <2>3 DEF RowsFit
<1>13. SourceWhole
  <2>1. \A k \in EntityTypes : Exact(k)
    <3> TAKE k \in EntityTypes
    <3>1. Len(batchRows[<<"source", k>>]) = 0
      BY <1>3, <1>10
    <3> QED BY <1>11, <3>1 DEF Exact
  <2> QED BY <2>1 DEF SourceWhole
<1>14. ReadingKnows
  BY <1>1 DEF ReadingKnows, NotReading
<1> QED BY <1>6, <1>7, <1>8, <1>9, <1>12, <1>13, <1>14 DEF DashboardInv

LEMMA DashRests ==
    ASSUME DashboardInv, UNCHANGED dashVars
    PROVE  DashboardInv'
<1>1. UNCHANGED <<batchRows, phases, kept, work, reading, setting>>
  BY DEF dashVars
<1>2. ReadingTypes'
  BY <1>1 DEF ReadingTypes, DashboardInv
<1>3. ReadingKnows'
  <2>1. \A t : EntityCount(t)' = EntityCount(t)
    BY <1>1, CountKept
  <2> QED BY <1>1, <2>1, ReadingKept DEF DashboardInv
<1>4. setting' \in [db : Databases, shrunk : BOOLEAN, attempts : Nat, readings : Nat,
                    last : [EntityTypes -> Nat]]
  BY <1>1 DEF MigrationTypes, DashboardInv
<1> QED BY <1>1, <1>2, <1>3, <1>4, ReaderKeeps

LEMMA DashKeeps ==
    ASSUME DashboardInv, [DashNext]_dashVars
    PROVE  DashboardInv'
  BY StartPhaseKeeps, ListEntitiesKeeps, InitializeBatchesKeeps, StoreBatchKeeps, LoadBatchKeeps,
     EndPhaseKeeps, StopPhaseKeeps, StartReadingKeeps, ReadNextKeeps, DashRests DEF DashNext

\* Whoever reads a migration while it runs sees a phase as completed only with its final
\* counts, no more transformed or loaded than there is, statistics that add up, and no times.
THEOREM DashboardIsSound == DashSpec => []DashboardSound
<1>1. DashInit => DashboardInv
  BY DashStarts
<1>2. DashboardInv /\ [DashNext]_dashVars => DashboardInv'
  BY DashKeeps
<1>3. DashboardInv => DashboardSound
  BY DashboardShows
<1> QED BY <1>1, <1>2, <1>3, PTL DEF DashSpec

-----------------------------------------------------------------------------
(***************************************************************************)
(* The databases side by side.                                             *)
(***************************************************************************)

\* The component at work keeps its invariant, the other one rests.
THEOREM DatabasesAreSound == StoresSpec => []DatabasesSound
<1> DEFINE Inv == SnapshotInv /\ DashboardInv
<1>1. StoresInit => Inv
  BY SnapshotInit, DashStarts DEF StoresInit
<1>2. Inv /\ [StoresNext]_storesVars => Inv'
  <2> SUFFICES ASSUME SnapshotInv, DashboardInv, [StoresNext]_storesVars PROVE SnapshotInv' /\ DashboardInv'
    OBVIOUS
  <2>1. [StoreNext]_storeVars
    BY DEF StoresNext, Only, storesVars
  <2>2. [DashNext]_dashVars
    BY DEF StoresNext, Only, storesVars
  <2> QED BY <2>1, <2>2, SnapshotStep, DashKeeps
<1>3. Inv => DatabasesSound
  BY SnapshotInvMeans, DashboardShows DEF DatabasesSound
<1> QED BY <1>1, <1>2, <1>3, PTL DEF StoresSpec
=============================================================================
