--------------------------- MODULE PageTables_proofs ---------------------------
(***************************************************************************)
(* Proofs about PageTables and InitPaging: for every number of entries,    *)
(* every heap, memory map and sequence of calls, the tables form a tree,   *)
(* create_mapping stays on the processor's path, implements AddressSpace,  *)
(* and init_paging keeps the memory in use where it is.                    *)
(*                                                                         *)
(* The walk is first described as a function of the tables alone, so that  *)
(* what an entry or a new table changes of it can be said of any two sets  *)
(* of tables.                                                              *)
(***************************************************************************)
EXTENDS InitPaging, IntegerFacts

-----------------------------------------------------------------------------
(* Pages and their indices.                                                *)

(* The pages are the aligned addresses below VIRT_END, itself aligned. *)
LEMMA PagesAligned ==
  /\ VIRT_END \in Nat /\ VIRT_END % PAGE_SIZE = 0
  /\ \A a \in Nat : a \in Pages <=> a % PAGE_SIZE = 0 /\ a < VIRT_END
  /\ Pages \subseteq Nat
<1>1. PICK k \in Nat : k = ENTRIES * ENTRIES * ENTRIES * ENTRIES
  <2>1. ENTRIES \in Nat
    BY PageTablesAssumption
  <2>2. ENTRIES * ENTRIES \in Nat
    BY <2>1, SMT
  <2>3. ENTRIES * ENTRIES * ENTRIES \in Nat
    BY <2>1, <2>2, SMT
  <2>4. ENTRIES * ENTRIES * ENTRIES * ENTRIES \in Nat
    BY <2>1, <2>3, SMT
  <2>5. QED BY <2>4
<1>2. VIRT_END = k * 4096
  <2>1. VIRT_END = k * PAGE_SIZE
    BY <1>1, Zenon DEF VIRT_END
  <2>2. QED BY <2>1, SMT DEF PAGE_SIZE
<1>3. VIRT_END \in Nat /\ VIRT_END % 4096 = 0 /\ VIRT_END \div 4096 = k
  BY <1>2, SMT
<1>4. Pages = {4096 * n : n \in 0 .. k - 1}
  BY <1>3 DEF Pages, PAGE_SIZE
<1>5. ASSUME NEW a \in Nat PROVE a \in Pages <=> a % 4096 = 0 /\ a < VIRT_END
  <2>1. CASE a % 4096 = 0 /\ a < VIRT_END
    <3>1. a = 4096 * (a \div 4096) /\ a \div 4096 \in 0 .. k - 1
      BY <1>2, <2>1, SMT
    <3>2. QED BY <1>4, <2>1, <3>1
  <2>2. CASE a \in Pages
    <3>1. PICK n \in 0 .. k - 1 : a = 4096 * n
      BY <1>4, <2>2
    <3>2. QED BY <1>2, <2>2, <3>1, SMT
  <2>3. QED BY <2>1, <2>2
<1>6. Pages \subseteq Nat
  BY <1>4, SMT
<1>7. QED BY <1>3, <1>5, <1>6 DEF PAGE_SIZE

(* What a table of each level covers: ENTRIES times what the one below     *)
(* does, and the PML4 everything.                                          *)
LEMMA Shifts ==
  /\ Shift(1) = PAGE_SIZE
  /\ \A l \in 1 .. 4 : Shift(l) \in Nat \ {0}
  /\ \A l \in 1 .. 3 : Shift(l + 1) = Shift(l) * ENTRIES
  /\ Shift(4) * ENTRIES = VIRT_END
<1>1. ENTRIES \in Nat \ {0}
  BY PageTablesAssumption
<1>2. /\ Shift(1) = PAGE_SIZE /\ Shift(2) = PAGE_SIZE * ENTRIES
      /\ Shift(3) = PAGE_SIZE * ENTRIES * ENTRIES
      /\ Shift(4) = PAGE_SIZE * ENTRIES * ENTRIES * ENTRIES
  BY DEF Shift
<1>3. /\ Shift(2) = Shift(1) * ENTRIES
      /\ Shift(3) = Shift(2) * ENTRIES
      /\ Shift(4) = Shift(3) * ENTRIES
  BY <1>2, Zenon
<1>4. Shift(1) \in Nat \ {0}
  BY <1>2 DEF PAGE_SIZE
<1>5. \A x \in Nat \ {0} : x * ENTRIES \in Nat \ {0}
  BY <1>1, SMT
<1>6. Shift(2) \in Nat \ {0}
  BY <1>3, <1>4, <1>5, Zenon
<1>7. Shift(3) \in Nat \ {0}
  BY <1>3, <1>5, <1>6, Zenon
<1>8. Shift(4) \in Nat \ {0}
  BY <1>3, <1>5, <1>7, Zenon
<1>9. \A l \in 1 .. 4 : Shift(l) \in Nat \ {0}
  <2>1. \A l \in 1 .. 4 : l = 1 \/ l = 2 \/ l = 3 \/ l = 4
    OBVIOUS
  <2>2. QED BY <1>4, <1>6, <1>7, <1>8, <2>1, Zenon
<1>10. \A l \in 1 .. 3 : Shift(l + 1) = Shift(l) * ENTRIES
  <2>1. \A l \in 1 .. 3 : (l = 1 /\ l + 1 = 2) \/ (l = 2 /\ l + 1 = 3) \/ (l = 3 /\ l + 1 = 4)
    OBVIOUS
  <2>2. QED BY <1>3, <2>1, Zenon
<1>11. Shift(4) * ENTRIES = VIRT_END
  <2>1. PICK e \in Nat, p \in Nat : e = ENTRIES /\ p = PAGE_SIZE
    BY <1>1 DEF PAGE_SIZE
  <2>2. p * e * e * e * e = e * e * e * e * p
    BY SMT
  <2>3. QED BY <1>2, <2>1, <2>2, Zenon DEF VIRT_END
<1>12. QED BY <1>2, <1>9, <1>10, <1>11, Zenon

(* An index lies in its table. *)
LEMMA IndexInTable ==
  ASSUME NEW a \in Nat, NEW l \in 1 .. 4
  PROVE  calc_index(a, l) \in 0 .. ENTRIES - 1
<1>1. PICK s \in Nat \ {0} : s = Shift(l)
  BY Shifts
<1>2. PICK e \in Nat \ {0} : e = ENTRIES
  BY PageTablesAssumption
<1>3. (a \div s) % e \in 0 .. e - 1
  BY SMT
<1>4. QED BY <1>1, <1>2, <1>3, Zenon DEF calc_index

(* Two numbers with the same low digits agree on all of them. *)
LEMMA SameDigits ==
  ASSUME NEW x \in Nat, NEW y \in Nat, NEW s \in Nat \ {0}, NEW e \in Nat \ {0},
         x % s = y % s, (x \div s) % e = (y \div s) % e
  PROVE  x % (s * e) = y % (s * e)
<1>1. (x % s) + s * ((x \div s) % e) = x % (s * e)
  BY LowDigits, Zenon
<1>2. (y % s) + s * ((y \div s) % e) = y % (s * e)
  BY LowDigits, Zenon
<1>3. QED BY <1>1, <1>2, Zenon

(* Its four indices tell a page from all others. *)
LEMMA IndicesDetermine ==
  ASSUME NEW a \in Pages, NEW b \in Pages,
         \A l \in 1 .. 4 : calc_index(a, l) = calc_index(b, l)
  PROVE  a = b
<1>1. a \in Nat /\ b \in Nat /\ a < VIRT_END /\ b < VIRT_END
      /\ a % PAGE_SIZE = 0 /\ b % PAGE_SIZE = 0 /\ VIRT_END \in Nat
  BY PagesAligned
<1>2. ENTRIES \in Nat \ {0}
  BY PageTablesAssumption
<1>3. ASSUME NEW l \in 1 .. 4, a % Shift(l) = b % Shift(l)
      PROVE  a % (Shift(l) * ENTRIES) = b % (Shift(l) * ENTRIES)
  <2>1. Shift(l) \in Nat \ {0}
    BY Shifts
  <2>2. (a \div Shift(l)) % ENTRIES = (b \div Shift(l)) % ENTRIES
    BY Zenon DEF calc_index
  <2>3. PICK s \in Nat \ {0}, e \in Nat \ {0} : s = Shift(l) /\ e = ENTRIES
    BY <1>2, <2>1, Zenon
  <2>4. a % s = b % s /\ (a \div s) % e = (b \div s) % e
    BY <1>3, <2>2, <2>3, Zenon
  <2>5. a \in Nat /\ b \in Nat
    BY <1>1
  <2>6. a % (s * e) = b % (s * e)
    BY <2>4, <2>5, SameDigits, Zenon
  <2>7. QED BY <2>3, <2>6, Zenon
<1>4. a % Shift(1) = b % Shift(1)
  BY <1>1, Shifts, Zenon
<1>5. a % Shift(2) = b % Shift(2)
  <2>1. Shift(2) = Shift(1) * ENTRIES
    <3>1. 1 \in 1 .. 3 /\ 1 + 1 = 2
      OBVIOUS
    <3>2. QED BY <3>1, Shifts, Zenon
  <2>2. 1 \in 1 .. 4
    OBVIOUS
  <2>3. QED BY <1>3, <1>4, <2>1, <2>2, Zenon
<1>6. a % Shift(3) = b % Shift(3)
  <2>1. Shift(3) = Shift(2) * ENTRIES
    <3>1. 2 \in 1 .. 3 /\ 2 + 1 = 3
      OBVIOUS
    <3>2. QED BY <3>1, Shifts, Zenon
  <2>2. 2 \in 1 .. 4
    OBVIOUS
  <2>3. QED BY <1>3, <1>5, <2>1, <2>2, Zenon
<1>7. a % Shift(4) = b % Shift(4)
  <2>1. Shift(4) = Shift(3) * ENTRIES
    <3>1. 3 \in 1 .. 3 /\ 3 + 1 = 4
      OBVIOUS
    <3>2. QED BY <3>1, Shifts, Zenon
  <2>2. 3 \in 1 .. 4
    OBVIOUS
  <2>3. QED BY <1>3, <1>6, <2>1, <2>2, Zenon
<1>8. a % VIRT_END = b % VIRT_END
  <2>1. 4 \in 1 .. 4
    OBVIOUS
  <2>2. QED BY <1>3, <1>7, <2>1, Shifts, Zenon
<1>9. PICK v \in Nat : v = VIRT_END
  BY <1>1
<1>10. a = a % v /\ b = b % v
  BY <1>1, <1>9, SMT
<1>11. QED BY <1>8, <1>9, <1>10, Zenon

-----------------------------------------------------------------------------
(* The walk, as a function of the tables.                                  *)

Frame == {f \in Nat \ {0} : f % PAGE_SIZE = 0}

Entry(T, t, i) == IF t \in DOMAIN T THEN T[t][i] ELSE 0

Child(T, t, i) == IF is_present(Entry(T, t, i)) THEN FrameOf(Entry(T, t, i)) ELSE 0

Path(T, r, a) ==
  LET t3 == Child(T, r, calc_index(a, 4))
      t2 == Child(T, t3, calc_index(a, 3))
  IN  <<Child(T, t2, calc_index(a, 2)), t2, t3, r>>

Translated(T, r, a) ==
  LET value == Entry(T, Path(T, r, a)[1], calc_index(a, 1))
  IN  IF is_present(value)
      THEN [phys |-> FrameOf(value), attr |-> value % PAGE_SIZE]
      ELSE NotMapped

(* What a word of an address and attributes says. *)
LEMMA WordOf ==
  ASSUME NEW f \in Nat, f % PAGE_SIZE = 0,
         NEW attr \in {NotPresent, ReadWriteKernel, ReadWriteIo}
  PROVE  /\ f + attr \in Nat
         /\ FrameOf(f + attr) = f
         /\ (f + attr) % PAGE_SIZE = attr
         /\ is_present(f + attr) <=> attr % 2 = 1
BY DEF PAGE_SIZE, NotPresent, ReadWriteKernel, ReadWriteIo, FrameOf, is_present

(* Zero is the entry of a cleared table; it leads nowhere. *)
LEMMA ZeroIsAbsent == ~is_present(0)
BY DEF is_present

(* Reached and Translate are these functions of the tables. *)
LEMMA WalkOfTables ==
  /\ \A a : Reached(a) = Path(tables, root, a)
  /\ \A a : Translate(a) = Translated(tables, root, a)
<1>1. \A a : Reached(a) = Path(tables, root, a)
  BY Zenon DEF Reached, Path, Child, Entry
<1>2. \A a : Translate(a) = Translated(tables, root, a)
  BY <1>1, Zenon DEF Translate, Translated, Entry
<1>3. QED BY <1>1, <1>2

(* And so they are after a step. *)
LEMMA WalkOfTablesNext ==
  /\ \A a : Reached(a)' = Path(tables', root', a)
  /\ \A a : Translate(a)' = Translated(tables', root', a)
<1>1. \A a : Reached(a)' = Path(tables', root', a)
  BY Zenon DEF Reached, Path, Child, Entry
<1>2. \A a : Translate(a)' = Translated(tables', root', a)
  BY <1>1, Zenon DEF Translate, Translated, Entry
<1>3. QED BY <1>1, <1>2

(* A path begins at the PML4; each table on it is a child of the one above. *)
LEMMA PathSteps ==
  ASSUME NEW T, NEW r, NEW a
  PROVE  /\ Path(T, r, a)[4] = r
         /\ \A l \in 1 .. 3 :
              Path(T, r, a)[l] = Child(T, Path(T, r, a)[l + 1], calc_index(a, l + 1))
<1>1. PICK t1, t2, t3 : /\ t3 = Child(T, r, calc_index(a, 4))
                        /\ t2 = Child(T, t3, calc_index(a, 3))
                        /\ t1 = Child(T, t2, calc_index(a, 2))
  OBVIOUS
<1>2. Path(T, r, a) = <<t1, t2, t3, r>>
  BY <1>1, Zenon DEF Path
<1>3. /\ Path(T, r, a)[1] = t1 /\ Path(T, r, a)[2] = t2
      /\ Path(T, r, a)[3] = t3 /\ Path(T, r, a)[4] = r
  BY <1>2
<1>4. \A l \in 1 .. 3 : (l = 1 /\ l + 1 = 2) \/ (l = 2 /\ l + 1 = 3) \/ (l = 3 /\ l + 1 = 4)
  OBVIOUS
<1>5. QED BY <1>1, <1>3, <1>4, Zenon

(* Pages with the same indices down to a level have the same tables there. *)
LEMMA PathsAgree ==
  ASSUME NEW T, NEW r, NEW a, NEW b, NEW l \in 1 .. 4,
         \A k \in l + 1 .. 4 : calc_index(a, k) = calc_index(b, k)
  PROVE  Path(T, r, a)[l] = Path(T, r, b)[l]
<1> DEFINE A == Path(T, r, a)
           B == Path(T, r, b)
<1>1. A[4] = B[4]
  BY PathSteps
<1>2. ASSUME NEW k \in 1 .. 3, k >= l, A[k + 1] = B[k + 1]
      PROVE  A[k] = B[k]
  <2>1. k + 1 \in l + 1 .. 4
    BY <1>2
  <2>2. calc_index(a, k + 1) = calc_index(b, k + 1)
    BY <2>1
  <2>3. A[k] = Child(T, A[k + 1], calc_index(a, k + 1))
    BY PathSteps
  <2>4. B[k] = Child(T, B[k + 1], calc_index(b, k + 1))
    BY PathSteps
  <2>5. QED BY <1>2, <2>2, <2>3, <2>4, Zenon
<1> HIDE DEF A, B
<1>3. l <= 3 => A[3] = B[3]
  <2>1. 3 \in 1 .. 3 /\ 3 + 1 = 4 /\ (l <= 3 => 3 >= l)
    OBVIOUS
  <2>2. QED BY <1>1, <1>2, <2>1, Zenon
<1>4. l <= 2 => A[2] = B[2]
  <2>1. 2 \in 1 .. 3 /\ 2 + 1 = 3 /\ (l <= 2 => 2 >= l /\ l <= 3)
    OBVIOUS
  <2>2. QED BY <1>2, <1>3, <2>1, Zenon
<1>5. l = 1 => A[1] = B[1]
  <2>1. 1 \in 1 .. 3 /\ 1 + 1 = 2 /\ (l = 1 => 1 >= l /\ l <= 2)
    OBVIOUS
  <2>2. QED BY <1>2, <1>4, <2>1, Zenon
<1>6. l = 1 \/ (l = 2 /\ l <= 2) \/ (l = 3 /\ l <= 3) \/ l = 4
  OBVIOUS
<1>7. A[l] = B[l]
  BY <1>1, <1>3, <1>4, <1>5, <1>6, Zenon
<1>8. QED BY <1>7 DEF A, B

-----------------------------------------------------------------------------
(* The tree of the tables.                                                 *)

Typed(T, r) ==
  /\ T \in [DOMAIN T -> [0 .. ENTRIES - 1 -> Nat]]
  /\ DOMAIN T \subseteq Frame
  /\ r \in DOMAIN T

(* What is present above the PTs leads to a table, but never to the PML4. *)
Closed(T, r) ==
  \A a \in Pages, l \in 1 .. 3 :
    /\ Path(T, r, a)[l + 1] \in DOMAIN T
    /\ is_present(T[Path(T, r, a)[l + 1]][calc_index(a, l + 1)])
    => Path(T, r, a)[l] \in DOMAIN T \ {r}

(* Pages that share a table share it at one level, and all indices above. *)
Apart(T, r) ==
  \A a, b \in Pages, l, m \in 1 .. 4 :
    /\ Path(T, r, a)[l] \in DOMAIN T
    /\ Path(T, r, a)[l] = Path(T, r, b)[m]
    => l = m /\ \A k \in l + 1 .. 4 : calc_index(a, k) = calc_index(b, k)

(* Every table but the PML4 is on the path of some page. *)
Covered(T, r) ==
  \A f \in DOMAIN T \ {r} : \E a \in Pages, l \in 1 .. 3 : Path(T, r, a)[l] = f

Tree(T, r) == Typed(T, r) /\ Closed(T, r) /\ Apart(T, r) /\ Covered(T, r)

(* No table is at address 0, so nothing is found below what is absent. *)
LEMMA NothingBelowZero ==
  ASSUME NEW T, NEW r, Typed(T, r)
  PROVE  /\ 0 \notin DOMAIN T
         /\ \A i : Entry(T, 0, i) = 0 /\ Child(T, 0, i) = 0
<1>1. 0 \notin DOMAIN T
  BY DEF Typed, Frame
<1>2. \A i : Entry(T, 0, i) = 0
  BY <1>1 DEF Entry
<1>3. QED BY <1>1, <1>2, ZeroIsAbsent, Zenon DEF Child

(* A path leads through tables until an entry is absent. *)
LEMMA OnPath ==
  ASSUME NEW T, NEW r, Tree(T, r), NEW a \in Pages, NEW l \in 1 .. 4
  PROVE  Path(T, r, a)[l] \in DOMAIN T \cup {0}
<1>1. CASE l = 4
  BY <1>1, PathSteps DEF Tree, Typed
<1>2. CASE l \in 1 .. 3
  <2> DEFINE t == Path(T, r, a)[l + 1]
             i == calc_index(a, l + 1)
  <2>1. Path(T, r, a)[l] = Child(T, t, i)
    BY <1>2, PathSteps
  <2>2. CASE t \in DOMAIN T /\ is_present(T[t][i])
    BY <1>2, <2>2, Zenon DEF Tree, Closed
  <2>3. CASE ~(t \in DOMAIN T /\ is_present(T[t][i]))
    <3>1. Child(T, t, i) = 0
      BY <2>3, ZeroIsAbsent, Zenon DEF Child, Entry
    <3>2. QED BY <2>1, <3>1
  <2>4. QED BY <2>2, <2>3
<1>3. QED BY <1>1, <1>2

(* What TableTree says of the links follows. *)
LEMMA LinksOfTree ==
  ASSUME Tree(tables, root)
  PROVE  LET Target(e) == FrameOf(tables[e[1]][e[2]])
         IN  /\ \A e \in Links : Target(e) \in DOMAIN tables \ {root}
             /\ \A f \in DOMAIN tables \ {root} : \E e \in Links : Target(e) = f
             /\ \A d, e \in Links : Target(d) = Target(e) => d = e
<1> DEFINE Target(e) == FrameOf(tables[e[1]][e[2]])
           P(a) == Path(tables, root, a)
           Link(a, l) == <<P(a)[l + 1], calc_index(a, l + 1)>>
<1>1. ASSUME NEW e \in Links
      PROVE  \E a \in Pages, l \in 1 .. 3 :
               /\ e = Link(a, l) /\ P(a)[l + 1] \in DOMAIN tables
               /\ Target(e) = P(a)[l] /\ P(a)[l] \in DOMAIN tables \ {root}
  <2>1. PICK a \in Pages, m \in 2 .. 4 :
          /\ e = <<P(a)[m], calc_index(a, m)>>
          /\ e[1] \in DOMAIN tables /\ is_present(tables[e[1]][e[2]])
    BY <1>1, WalkOfTables DEF Links, LEVELS
  <2>2. PICK l \in 1 .. 3 : m = l + 1
    <3>1. m - 1 \in 1 .. 3 /\ m = (m - 1) + 1
      OBVIOUS
    <3>2. QED BY <3>1
  <2>3. e = Link(a, l)
    BY <2>1, <2>2, Zenon
  <2>4. e[1] = P(a)[l + 1] /\ e[2] = calc_index(a, l + 1)
    BY <2>3
  <2>5. P(a)[l + 1] \in DOMAIN tables
        /\ is_present(tables[P(a)[l + 1]][calc_index(a, l + 1)])
    BY <2>1, <2>4, Zenon
  <2>6. P(a)[l] \in DOMAIN tables \ {root}
    BY <2>5, Zenon DEF Tree, Closed
  <2>7. P(a)[l] = Child(tables, P(a)[l + 1], calc_index(a, l + 1))
    BY PathSteps
  <2>8. P(a)[l] = Target(e)
    BY <2>4, <2>5, <2>7, Zenon DEF Child, Entry
  <2>9. QED BY <2>3, <2>5, <2>6, <2>8, Zenon
<1>2. ASSUME NEW f \in DOMAIN tables \ {root}
      PROVE  \E e \in Links : Target(e) = f
  <2>1. PICK a \in Pages, l \in 1 .. 3 : P(a)[l] = f
    BY Zenon DEF Tree, Covered
  <2>2. f # 0
    BY NothingBelowZero DEF Tree
  <2>3. f = Child(tables, P(a)[l + 1], calc_index(a, l + 1))
    BY <2>1, PathSteps
  <2>4. /\ is_present(Entry(tables, P(a)[l + 1], calc_index(a, l + 1)))
        /\ f = FrameOf(Entry(tables, P(a)[l + 1], calc_index(a, l + 1)))
    BY <2>2, <2>3, Zenon DEF Child
  <2>5. P(a)[l + 1] \in DOMAIN tables
    BY <2>4, ZeroIsAbsent, Zenon DEF Entry
  <2>6. /\ is_present(tables[P(a)[l + 1]][calc_index(a, l + 1)])
        /\ f = FrameOf(tables[P(a)[l + 1]][calc_index(a, l + 1)])
    BY <2>4, <2>5, Zenon DEF Entry
  <2>7. PICK e : e = Link(a, l)
    OBVIOUS
  <2>8. e[1] = P(a)[l + 1] /\ e[2] = calc_index(a, l + 1)
    BY <2>7
  <2>9. e \in Links
    <3>1. l + 1 \in 2 .. LEVELS
      BY DEF LEVELS
    <3>2. e = <<Reached(a)[l + 1], calc_index(a, l + 1)>>
      BY <2>7, WalkOfTables, Zenon
    <3>3. e[1] \in DOMAIN tables /\ is_present(tables[e[1]][e[2]])
      BY <2>5, <2>6, <2>8, Zenon
    <3>4. QED BY <3>1, <3>2, <3>3 DEF Links
  <2>10. Target(e) = f
    BY <2>6, <2>8, Zenon
  <2>11. QED BY <2>9, <2>10
<1>3. ASSUME NEW d \in Links, NEW e \in Links, Target(d) = Target(e)
      PROVE  d = e
  <2>1. PICK a \in Pages, l \in 1 .. 3 :
          d = Link(a, l) /\ Target(d) = P(a)[l] /\ P(a)[l] \in DOMAIN tables \ {root}
    BY <1>1, Zenon
  <2>2. PICK b \in Pages, m \in 1 .. 3 :
          e = Link(b, m) /\ Target(e) = P(b)[m] /\ P(b)[m] \in DOMAIN tables \ {root}
    BY <1>1, Zenon
  <2>3. l \in 1 .. 4 /\ m \in 1 .. 4 /\ l + 1 \in 1 .. 4
    OBVIOUS
  <2>4. l = m /\ \A k \in l + 1 .. 4 : calc_index(a, k) = calc_index(b, k)
    <3>1. P(a)[l] \in DOMAIN tables /\ P(a)[l] = P(b)[m]
      BY <1>3, <2>1, <2>2, Zenon
    <3>2. Apart(tables, root)
      BY DEF Tree
    <3>3. QED BY <2>3, <3>1, <3>2 DEF Apart
  <2>5. \A k \in (l + 1) + 1 .. 4 : calc_index(a, k) = calc_index(b, k)
    BY <2>4
  <2>6. P(a)[l + 1] = P(b)[l + 1]
    BY <2>3, <2>5, PathsAgree
  <2>7. calc_index(a, l + 1) = calc_index(b, l + 1)
    BY <2>4
  <2>8. QED BY <2>1, <2>2, <2>4, <2>6, <2>7, Zenon
<1>4. QED BY <1>1, <1>2, <1>3, Zenon

(* T2 is T with entry w for page b in the PT on its path. *)
WrittenOnPath(T, T2, r, b, w) ==
  /\ Tree(T, r) /\ b \in Pages /\ w \in Nat
  /\ Path(T, r, b)[1] \in DOMAIN T
  /\ T2 = [T EXCEPT ![Path(T, r, b)[1]][calc_index(b, 1)] = w]

(* An entry of a PT that is written moves its own page and no other.       *)
LEMMA EntryWritten ==
  ASSUME NEW T, NEW T2, NEW r, NEW b, NEW w, WrittenOnPath(T, T2, r, b, w)
  PROVE  /\ Tree(T2, r)
         /\ \A l \in 1 .. 4 : Path(T2, r, b)[l] = Path(T, r, b)[l]
         /\ DOMAIN T2 = DOMAIN T
         /\ \A a \in Pages \ {b} : Translated(T2, r, a) = Translated(T, r, a)
         /\ Entry(T2, Path(T2, r, b)[1], calc_index(b, 1)) = w
<1> DEFINE t == Path(T, r, b)[1]
           i == calc_index(b, 1)
<1>0. /\ Tree(T, r) /\ b \in Pages /\ w \in Nat /\ t \in DOMAIN T
      /\ T2 = [T EXCEPT ![t][i] = w]
  BY Zenon DEF WrittenOnPath
<1>1. /\ T \in [DOMAIN T -> [0 .. ENTRIES - 1 -> Nat]] /\ DOMAIN T \subseteq Frame
      /\ r \in DOMAIN T /\ Closed(T, r) /\ Apart(T, r) /\ Covered(T, r)
  BY <1>0 DEF Tree, Typed
<1>2. \A a \in Pages, l \in 1 .. 4 : calc_index(a, l) \in 0 .. ENTRIES - 1
  BY PagesAligned, IndexInTable
<1>3. t \in DOMAIN T /\ i \in 0 .. ENTRIES - 1
  BY <1>0, <1>2, 1 \in 1 .. 4
<1>4. /\ DOMAIN T2 = DOMAIN T
      /\ T2 \in [DOMAIN T2 -> [0 .. ENTRIES - 1 -> Nat]]
      /\ T2[t][i] = w
      /\ \A f \in DOMAIN T, j \in 0 .. ENTRIES - 1 : f # t \/ j # i => T2[f][j] = T[f][j]
  <2> DEFINE I == 0 .. ENTRIES - 1
  <2> HIDE DEF t, i, I
  <2>1. T2 = [T EXCEPT ![t][i] = w]
    BY <1>0, Zenon DEF t, i
  <2>2. T \in [DOMAIN T -> [I -> Nat]] /\ t \in DOMAIN T /\ i \in I /\ w \in Nat
    BY <1>0, <1>1, <1>3 DEF I
  <2>3. PICK row : row = [T[t] EXCEPT ![i] = w]
    OBVIOUS
  <2>4. row \in [I -> Nat] /\ row[i] = w /\ \A j \in I : j # i => row[j] = T[t][j]
    BY <2>2, <2>3
  <2>5. T2 = [T EXCEPT ![t] = row]
    BY <2>1, <2>3
  <2>6. /\ T2 \in [DOMAIN T -> [I -> Nat]] /\ T2[t] = row
        /\ \A f \in DOMAIN T : f # t => T2[f] = T[f]
    BY <2>2, <2>4, <2>5
  <2>7. DOMAIN T2 = DOMAIN T
    BY <2>6
  <2>8. QED BY <2>4, <2>6, <2>7, Zenon DEF I
<1>5. \A f, j : (f \in DOMAIN T => f # t) /\ j \in 0 .. ENTRIES - 1
        => Entry(T2, f, j) = Entry(T, f, j) /\ Child(T2, f, j) = Child(T, f, j)
  BY <1>4, Zenon DEF Entry, Child
<1>6. ASSUME NEW a \in Pages, NEW l \in 2 .. 4 PROVE Path(T, r, a)[l] # t
  <2>1. 1 \in 1 .. 4 /\ l \in 1 .. 4 /\ l # 1
    OBVIOUS
  <2>2. QED BY <1>0, <1>1, <1>3, <2>1, Zenon DEF Apart
<1>7. ASSUME NEW a \in Pages, NEW l \in 1 .. 3,
             Path(T2, r, a)[l + 1] = Path(T, r, a)[l + 1]
      PROVE  Path(T2, r, a)[l] = Path(T, r, a)[l]
  <2>1. l + 1 \in 2 .. 4 /\ l + 1 \in 1 .. 4
    OBVIOUS
  <2>2. Path(T2, r, a)[l] = Child(T2, Path(T, r, a)[l + 1], calc_index(a, l + 1))
    BY <1>7, PathSteps
  <2>3. Path(T, r, a)[l] = Child(T, Path(T, r, a)[l + 1], calc_index(a, l + 1))
    BY PathSteps
  <2>4. QED BY <1>2, <1>5, <1>6, <2>1, <2>2, <2>3, Zenon
<1>8. \A a \in Pages, l \in 1 .. 4 : Path(T2, r, a)[l] = Path(T, r, a)[l]
  <2> SUFFICES ASSUME NEW a \in Pages
               PROVE  \A l \in 1 .. 4 : Path(T2, r, a)[l] = Path(T, r, a)[l]
    OBVIOUS
  <2>1. Path(T2, r, a)[4] = Path(T, r, a)[4]
    BY PathSteps
  <2>2. Path(T2, r, a)[3] = Path(T, r, a)[3]
    BY <1>7, <2>1, 3 \in 1 .. 3, 3 + 1 = 4, Zenon
  <2>3. Path(T2, r, a)[2] = Path(T, r, a)[2]
    BY <1>7, <2>2, 2 \in 1 .. 3, 2 + 1 = 3, Zenon
  <2>4. Path(T2, r, a)[1] = Path(T, r, a)[1]
    BY <1>7, <2>3, 1 \in 1 .. 3, 1 + 1 = 2, Zenon
  <2>5. \A l \in 1 .. 4 : l = 1 \/ l = 2 \/ l = 3 \/ l = 4
    OBVIOUS
  <2>6. QED BY <2>1, <2>2, <2>3, <2>4, <2>5, Zenon
<1>9. Tree(T2, r)
  <2>1. Typed(T2, r)
    BY <1>1, <1>4, Zenon DEF Typed
  <2>2. ASSUME NEW a \in Pages, NEW l \in 1 .. 3,
               Path(T2, r, a)[l + 1] \in DOMAIN T2,
               is_present(T2[Path(T2, r, a)[l + 1]][calc_index(a, l + 1)])
        PROVE  Path(T2, r, a)[l] \in DOMAIN T2 \ {r}
    <3>1. l + 1 \in 2 .. 4 /\ l + 1 \in 1 .. 4 /\ l \in 1 .. 4
      OBVIOUS
    <3>2. Path(T2, r, a)[l + 1] = Path(T, r, a)[l + 1] /\ Path(T2, r, a)[l] = Path(T, r, a)[l]
      BY <1>8, <3>1, Zenon
    <3>3. Path(T, r, a)[l + 1] # t
      BY <1>6, <3>1
    <3>4. T2[Path(T, r, a)[l + 1]][calc_index(a, l + 1)]
          = T[Path(T, r, a)[l + 1]][calc_index(a, l + 1)]
      BY <1>2, <1>4, <2>2, <3>1, <3>2, <3>3, Zenon
    <3>5. QED BY <1>1, <1>4, <2>2, <3>2, <3>4, Zenon DEF Closed
  <2>3. Closed(T2, r)
    BY <2>2, Zenon DEF Closed
  <2>4. Apart(T2, r)
    <3>1. ASSUME NEW a \in Pages, NEW c \in Pages, NEW l \in 1 .. 4, NEW m \in 1 .. 4,
                 Path(T2, r, a)[l] \in DOMAIN T2, Path(T2, r, a)[l] = Path(T2, r, c)[m]
          PROVE  l = m /\ \A k \in l + 1 .. 4 : calc_index(a, k) = calc_index(c, k)
      <4>1. Path(T, r, a)[l] \in DOMAIN T /\ Path(T, r, a)[l] = Path(T, r, c)[m]
        <5>1. Path(T2, r, a)[l] = Path(T, r, a)[l] /\ Path(T2, r, c)[m] = Path(T, r, c)[m]
          BY <1>8
        <5>2. QED BY <1>4, <3>1, <5>1
      <4>2. QED BY <1>1, <4>1 DEF Apart
    <3>2. QED BY <3>1 DEF Apart
  <2>5. Covered(T2, r)
    <3>1. ASSUME NEW f \in DOMAIN T2 \ {r}
          PROVE  \E a \in Pages, l \in 1 .. 3 : Path(T2, r, a)[l] = f
      <4>1. PICK a \in Pages, l \in 1 .. 3 : Path(T, r, a)[l] = f
        BY <1>1, <1>4, Zenon DEF Covered
      <4>2. l \in 1 .. 4
        OBVIOUS
      <4>3. QED BY <1>8, <4>1, <4>2, Zenon
    <3>2. QED BY <3>1, Zenon DEF Covered
  <2>6. QED BY <2>1, <2>3, <2>4, <2>5 DEF Tree
<1>10. 1 \in 1 .. 4
  OBVIOUS
<1>11. ASSUME NEW a \in Pages \ {b}
       PROVE  Translated(T2, r, a) = Translated(T, r, a)
  <2> DEFINE f == Path(T, r, a)[1]
             j == calc_index(a, 1)
  <2>1. Path(T2, r, a)[1] = f /\ j \in 0 .. ENTRIES - 1
    BY <1>2, <1>8, <1>10, Zenon
  <2>2. ~(f = t /\ j = i)
    <3>1. SUFFICES ASSUME f = t, j = i PROVE FALSE
      OBVIOUS
    <3>2. \A k \in 1 + 1 .. 4 : calc_index(a, k) = calc_index(b, k)
      BY <1>0, <1>1, <1>3, <1>10, <3>1 DEF Apart
    <3>3. \A k \in 1 .. 4 : k = 1 \/ k \in 1 + 1 .. 4
      OBVIOUS
    <3>4. \A k \in 1 .. 4 : calc_index(a, k) = calc_index(b, k)
      BY <3>1, <3>2, <3>3, Zenon
    <3>5. QED BY <1>0, <3>4, IndicesDetermine
  <2>3. Entry(T2, f, j) = Entry(T, f, j)
    BY <1>4, <2>1, <2>2, Zenon DEF Entry
  <2>4. QED BY <2>1, <2>3, Zenon DEF Translated
<1>12. Entry(T2, Path(T2, r, b)[1], i) = w
  BY <1>0, <1>3, <1>4, <1>8, <1>10, Zenon DEF Entry
<1>13. QED BY <1>0, <1>4, <1>8, <1>9, <1>11, <1>12, Zenon

(* T2 is T with a cleared table n, which entry i of table t leads to. *)
Linked(T, T2, t, i, n) ==
  /\ T2 \in [DOMAIN T \cup {n} -> [0 .. ENTRIES - 1 -> Nat]]
  /\ T2[n] = EmptyTable
  /\ T2[t][i] = n + ReadWriteKernel
  /\ \A f \in DOMAIN T, j \in 0 .. ENTRIES - 1 : f # t \/ j # i => T2[f][j] = T[f][j]

(* The table is the missing one below level lv on the path of page b. *)
LinkedOnPath(T, T2, r, b, lv, n) ==
  /\ Tree(T, r) /\ b \in Pages /\ lv \in 2 .. 4 /\ n \in Frame \ DOMAIN T
  /\ Path(T, r, b)[lv] \in DOMAIN T
  /\ ~is_present(T[Path(T, r, b)[lv]][calc_index(b, lv)])
  /\ Linked(T, T2, Path(T, r, b)[lv], calc_index(b, lv), n)

(* A cleared table that is linked in is on the paths of the pages that     *)
(* share the entry, and moves no page.                                     *)
LEMMA TableLinked ==
  ASSUME NEW T, NEW T2, NEW r, NEW b, NEW lv, NEW n, LinkedOnPath(T, T2, r, b, lv, n)
  PROVE  /\ Tree(T2, r)
         /\ Path(T2, r, b)[lv - 1] = n
         /\ \A a \in Pages : Translated(T2, r, a) = Translated(T, r, a)
<1> DEFINE t == Path(T, r, b)[lv]
           i == calc_index(b, lv)
           Share(a) == \A k \in lv .. 4 : calc_index(a, k) = calc_index(b, k)
<1>0. /\ Tree(T, r) /\ b \in Pages /\ lv \in 2 .. 4 /\ n \in Frame \ DOMAIN T
      /\ t \in DOMAIN T /\ ~is_present(T[t][i]) /\ Linked(T, T2, t, i, n)
  BY Zenon DEF LinkedOnPath
<1>1. /\ T \in [DOMAIN T -> [0 .. ENTRIES - 1 -> Nat]] /\ DOMAIN T \subseteq Frame
      /\ r \in DOMAIN T /\ Closed(T, r) /\ Apart(T, r) /\ Covered(T, r) /\ Typed(T, r)
  BY <1>0 DEF Tree, Typed
<1>2. \A a \in Pages, l \in 1 .. 4 : calc_index(a, l) \in 0 .. ENTRIES - 1
  BY PagesAligned, IndexInTable
<1>3. /\ lv \in 1 .. 4 /\ lv - 1 \in 1 .. 3 /\ (lv - 1) + 1 = lv
      /\ \A l \in 1 .. 3 : l \in 1 .. 4 /\ l + 1 \in 1 .. 4
      /\ \A l \in 1 .. 4 : l + 1 = lv => l = lv - 1
      /\ \A l \in 1 .. 4 : l = 1 \/ l = 2 \/ l = 3 \/ l = 4
  BY <1>0
<1>4. t \in DOMAIN T /\ i \in 0 .. ENTRIES - 1 /\ t # n /\ r # n
  BY <1>0, <1>1, <1>2, <1>3, Zenon
<1>5. n \in Nat /\ n # 0 /\ n + ReadWriteKernel \in Nat
      /\ is_present(n + ReadWriteKernel) /\ FrameOf(n + ReadWriteKernel) = n
  BY <1>0 DEF Frame, ReadWriteKernel, is_present, FrameOf, PAGE_SIZE
<1>6. EmptyTable \in [0 .. ENTRIES - 1 -> Nat]
      /\ \A j \in 0 .. ENTRIES - 1 : EmptyTable[j] = 0
  BY DEF EmptyTable
<1>7. /\ DOMAIN T2 = DOMAIN T \cup {n}
      /\ T2 \in [DOMAIN T2 -> [0 .. ENTRIES - 1 -> Nat]]
      /\ T2[t][i] = n + ReadWriteKernel
      /\ T2[n] = EmptyTable
      /\ \A f \in DOMAIN T, j \in 0 .. ENTRIES - 1 : f # t \/ j # i => T2[f][j] = T[f][j]
  <2>1. Linked(T, T2, t, i, n)
    BY <1>0
  <2>2. DOMAIN T2 = DOMAIN T \cup {n}
    BY <2>1 DEF Linked
  <2>3. QED BY <2>1, <2>2, Zenon DEF Linked
<1>8. 0 \notin DOMAIN T /\ 0 \notin DOMAIN T2
  BY <1>1, <1>5, <1>7, NothingBelowZero
<1>9. \A f \in DOMAIN T \cup {0}, j \in 0 .. ENTRIES - 1 : f # t \/ j # i =>
        Entry(T2, f, j) = Entry(T, f, j) /\ Child(T2, f, j) = Child(T, f, j)
  <2>1. \A f \in DOMAIN T \cup {0}, j \in 0 .. ENTRIES - 1 : f # t \/ j # i =>
          Entry(T2, f, j) = Entry(T, f, j)
    BY <1>7, <1>8 DEF Entry
  <2>2. QED BY <2>1, Zenon DEF Child
<1>10. Child(T2, t, i) = n /\ Child(T, t, i) = 0
  BY <1>0, <1>4, <1>5, <1>7, Zenon DEF Child, Entry
<1>11. \A j \in 0 .. ENTRIES - 1 : Entry(T2, n, j) = 0 /\ Child(T2, n, j) = 0
  BY <1>6, <1>7, ZeroIsAbsent, Zenon DEF Entry, Child
<1>12. \A a \in Pages, l \in 1 .. 4 : Path(T, r, a)[l] \in DOMAIN T \cup {0}
  BY <1>0, OnPath
<1>13. ASSUME NEW a \in Pages, Share(a)
       PROVE  Path(T, r, a)[lv] = t /\ calc_index(a, lv) = i /\ Path(T, r, a)[lv - 1] = 0
  <2>1. \A k \in lv + 1 .. 4 : k \in lv .. 4
    BY <1>0
  <2>2. Path(T, r, a)[lv] = t
    <3>1. \A k \in lv + 1 .. 4 : calc_index(a, k) = calc_index(b, k)
      BY <1>13, <2>1, Zenon
    <3>2. QED BY <1>3, <3>1, PathsAgree
  <2>3. lv \in lv .. 4
    BY <1>0
  <2>4. calc_index(a, lv) = i
    BY <1>13, <2>3, Zenon
  <2>5. Path(T, r, a)[lv - 1] = Child(T, Path(T, r, a)[(lv - 1) + 1], calc_index(a, (lv - 1) + 1))
    BY <1>3, PathSteps
  <2>6. QED BY <1>3, <1>10, <2>2, <2>4, <2>5, Zenon
<1>14. ASSUME NEW a \in Pages, NEW l \in 1 .. 4, Path(T, r, a)[l] = t, calc_index(a, l) = i
       PROVE  l = lv /\ Share(a)
  <2>1. l = lv /\ \A k \in l + 1 .. 4 : calc_index(a, k) = calc_index(b, k)
    BY <1>0, <1>1, <1>3, <1>4, <1>14 DEF Apart
  <2>2. \A k \in lv .. 4 : k = lv \/ k \in lv + 1 .. 4
    BY <1>0
  <2>3. QED BY <1>14, <2>1, <2>2, Zenon
<1> DEFINE P(a)  == Path(T, r, a)
           P2(a) == Path(T2, r, a)
           Moved(a, l) == l = lv - 1 /\ Share(a)
<1>15. ASSUME NEW a \in Pages, NEW l \in 1 .. 3,
              P2(a)[l + 1] = IF Moved(a, l + 1) THEN n ELSE P(a)[l + 1]
       PROVE  P2(a)[l] = IF Moved(a, l) THEN n ELSE P(a)[l]
  <2> DEFINE j == calc_index(a, l + 1)
  <2>1. l + 1 \in 1 .. 4 /\ j \in 0 .. ENTRIES - 1
    BY <1>2, <1>3, Zenon
  <2>2. P2(a)[l] = Child(T2, P2(a)[l + 1], j) /\ P(a)[l] = Child(T, P(a)[l + 1], j)
    BY PathSteps
  <2>3. CASE P(a)[l + 1] = t /\ j = i
    <3>1. l + 1 = lv /\ Share(a)
      BY <1>14, <2>1, <2>3, Zenon
    <3>2. Moved(a, l) /\ ~Moved(a, l + 1)
      <4>1. l = lv - 1 /\ l + 1 # lv - 1
        BY <3>1
      <4>2. QED BY <3>1, <4>1
    <3>3. P2(a)[l + 1] = t
      BY <1>15, <2>3, <3>2, Zenon
    <3>4. QED BY <1>10, <2>2, <2>3, <3>2, <3>3, Zenon
  <2>4. CASE ~(P(a)[l + 1] = t /\ j = i)
    <3>1. ~Moved(a, l)
      <4>1. l = lv - 1 => l + 1 = lv
        OBVIOUS
      <4>2. QED BY <1>13, <2>4, <4>1, Zenon
    <3>2. CASE Moved(a, l + 1)
      <4>1. P(a)[l + 1] = 0
        BY <1>13, <3>2, Zenon
      <4>2. P2(a)[l] = 0
        BY <1>11, <1>15, <2>1, <2>2, <3>2, Zenon
      <4>3. P(a)[l] = 0
        BY <1>1, <2>2, <4>1, NothingBelowZero, Zenon
      <4>4. QED BY <3>1, <4>2, <4>3, Zenon
    <3>3. CASE ~Moved(a, l + 1)
      <4>1. P2(a)[l + 1] = P(a)[l + 1] /\ P(a)[l + 1] \in DOMAIN T \cup {0}
        BY <1>12, <1>15, <2>1, <3>3, Zenon
      <4>2. Child(T2, P(a)[l + 1], j) = Child(T, P(a)[l + 1], j)
        BY <1>9, <2>1, <2>4, <4>1, Zenon
      <4>3. QED BY <2>2, <3>1, <4>1, <4>2, Zenon
    <3>4. QED BY <3>2, <3>3
  <2>5. QED BY <2>3, <2>4
<1>16. \A a \in Pages, l \in 1 .. 4 : P2(a)[l] = IF Moved(a, l) THEN n ELSE P(a)[l]
  <2> SUFFICES ASSUME NEW a \in Pages
               PROVE  \A l \in 1 .. 4 : P2(a)[l] = IF Moved(a, l) THEN n ELSE P(a)[l]
    OBVIOUS
  <2>1. P2(a)[4] = IF Moved(a, 4) THEN n ELSE P(a)[4]
    <3>1. ~Moved(a, 4)
      BY <1>0
    <3>2. P2(a)[4] = r /\ P(a)[4] = r
      BY PathSteps
    <3>3. QED BY <3>1, <3>2, Zenon
  <2> HIDE DEF P, P2, Moved
  <2>2. P2(a)[3] = IF Moved(a, 3) THEN n ELSE P(a)[3]
    BY <1>15, <2>1, 3 \in 1 .. 3, 3 + 1 = 4, Zenon
  <2>3. P2(a)[2] = IF Moved(a, 2) THEN n ELSE P(a)[2]
    BY <1>15, <2>2, 2 \in 1 .. 3, 2 + 1 = 3, Zenon
  <2>4. P2(a)[1] = IF Moved(a, 1) THEN n ELSE P(a)[1]
    BY <1>15, <2>3, 1 \in 1 .. 3, 1 + 1 = 2, Zenon
  <2>5. QED BY <1>3, <2>1, <2>2, <2>3, <2>4, Zenon
<1>17. Typed(T2, r)
  <2>1. n \in Frame
    BY <1>0
  <2>2. QED BY <1>1, <1>7, <2>1 DEF Typed
<1>18. ASSUME NEW a \in Pages, NEW l \in 1 .. 4, P2(a)[l] # n
       PROVE  P2(a)[l] = P(a)[l] /\ ~Moved(a, l)
  BY <1>16, <1>18, Zenon
<1>19. ASSUME NEW a \in Pages, NEW l \in 1 .. 4, P2(a)[l] = n
       PROVE  Moved(a, l)
  <2>1. P(a)[l] # n
    <3>1. n \notin DOMAIN T \cup {0}
      BY <1>0, <1>5
    <3>2. QED BY <1>12, <3>1, Zenon
  <2>2. QED BY <1>16, <1>19, <2>1, Zenon
<1>20. Closed(T2, r)
  <2>1. ASSUME NEW a \in Pages, NEW l \in 1 .. 3, P2(a)[l + 1] \in DOMAIN T2,
               is_present(T2[P2(a)[l + 1]][calc_index(a, l + 1)])
        PROVE  P2(a)[l] \in DOMAIN T2 \ {r}
    <3> DEFINE j == calc_index(a, l + 1)
    <3>1. l \in 1 .. 4 /\ l + 1 \in 1 .. 4 /\ j \in 0 .. ENTRIES - 1
      BY <1>2, <1>3, Zenon
    <3>2. P2(a)[l + 1] # n
      <4>1. ~is_present(T2[n][j])
        BY <1>6, <1>7, <3>1, ZeroIsAbsent, Zenon
      <4>2. QED BY <2>1, <4>1, Zenon
    <3>3. P2(a)[l + 1] = P(a)[l + 1] /\ P(a)[l + 1] \in DOMAIN T
      <4>1. P2(a)[l + 1] = P(a)[l + 1]
        BY <1>18, <3>1, <3>2, Zenon
      <4>2. QED BY <1>7, <2>1, <3>2, <4>1
    <3>4. CASE P2(a)[l] = n
      BY <1>4, <1>7, <3>4
    <3>5. CASE P2(a)[l] # n
      <4>1. P2(a)[l] = P(a)[l] /\ ~Moved(a, l)
        BY <1>18, <3>1, <3>5, Zenon
      <4>2. ~(P(a)[l + 1] = t /\ j = i)
        <5>1. l + 1 = lv => l = lv - 1
          OBVIOUS
        <5>2. QED BY <1>14, <3>1, <4>1, <5>1, Zenon
      <4>3. T2[P(a)[l + 1]][j] = T[P(a)[l + 1]][j]
        BY <1>7, <3>1, <3>3, <4>2, Zenon
      <4>4. P(a)[l] \in DOMAIN T \ {r}
        BY <1>1, <2>1, <3>3, <4>3, Zenon DEF Closed
      <4>5. QED BY <1>7, <4>1, <4>4
    <3>6. QED BY <3>4, <3>5
  <2>2. QED BY <2>1, Zenon DEF Closed
<1>21. Apart(T2, r)
  <2>1. \A a, c \in Pages, l, m \in 1 .. 4 :
          P2(a)[l] \in DOMAIN T2 /\ P2(a)[l] = P2(c)[m]
          => l = m /\ \A k \in l + 1 .. 4 : calc_index(a, k) = calc_index(c, k)
    <3> TAKE a, c \in Pages, l, m \in 1 .. 4
    <3> HAVE P2(a)[l] \in DOMAIN T2 /\ P2(a)[l] = P2(c)[m]
    <3>1. CASE P2(a)[l] = n
      <4>1. Moved(a, l) /\ Moved(c, m)
        BY <1>19, <3>1, Zenon
      <4>2. l = m /\ \A k \in l + 1 .. 4 : k \in lv .. 4
        BY <4>1
      <4>3. QED BY <4>1, <4>2, Zenon
    <3>2. CASE P2(a)[l] # n
      <4>1. P2(a)[l] = P(a)[l] /\ P2(c)[m] = P(c)[m]
        BY <1>18, <3>2
      <4>2. P(a)[l] \in DOMAIN T /\ P(a)[l] = P(c)[m]
        BY <1>7, <3>2, <4>1
      <4>3. QED BY <1>1, <4>2 DEF Apart
    <3>3. QED BY <3>1, <3>2
  <2>2. QED BY <2>1, Zenon DEF Apart
<1>22. P2(b)[lv - 1] = n
  <2>1. lv - 1 \in 1 .. 4 /\ Moved(b, lv - 1)
    BY <1>0
  <2>2. QED BY <1>0, <1>16, <2>1, Zenon
<1>23. Covered(T2, r)
  <2>1. ASSUME NEW f \in DOMAIN T2 \ {r}
        PROVE  \E a \in Pages, l \in 1 .. 3 : P2(a)[l] = f
    <3>1. CASE f = n
      BY <1>0, <1>3, <1>22, <3>1, Zenon
    <3>2. CASE f # n
      <4>1. f \in DOMAIN T \ {r} /\ f # 0
        BY <1>7, <1>8, <3>2
      <4>2. PICK a \in Pages, l \in 1 .. 3 : P(a)[l] = f
        BY <1>1, <4>1, Zenon DEF Covered
      <4>3. ~Moved(a, l)
        BY <1>13, <4>1, <4>2, Zenon
      <4>4. P2(a)[l] = f
        BY <1>3, <1>16, <4>2, <4>3, Zenon
      <4>5. QED BY <4>4
    <3>3. QED BY <3>1, <3>2
  <2>2. QED BY <2>1, Zenon DEF Covered
<1>24. ASSUME NEW a \in Pages
       PROVE  Translated(T2, r, a) = Translated(T, r, a)
  <2> DEFINE j == calc_index(a, 1)
  <2>1. 1 \in 1 .. 4 /\ j \in 0 .. ENTRIES - 1
    BY <1>2, 1 \in 1 .. 4, Zenon
  <2>2. Entry(T2, P2(a)[1], j) = Entry(T, P(a)[1], j)
    <3>1. CASE Moved(a, 1)
      <4>1. P2(a)[1] = n /\ P(a)[1] = 0
        BY <1>13, <1>16, <2>1, <3>1, Zenon
      <4>2. QED BY <1>1, <1>11, <2>1, <4>1, NothingBelowZero, Zenon
    <3>2. CASE ~Moved(a, 1)
      <4>1. P2(a)[1] = P(a)[1] /\ P(a)[1] \in DOMAIN T \cup {0}
        BY <1>12, <1>16, <2>1, <3>2, Zenon
      <4>2. P(a)[1] # t
        <5>1. 1 # lv
          BY <1>0
        <5>2. QED BY <1>0, <1>1, <1>4, <5>1 DEF Apart
      <4>3. QED BY <1>9, <2>1, <4>1, <4>2, Zenon
    <3>3. QED BY <3>1, <3>2
  <2>3. QED BY <2>2, Zenon DEF Translated
<1>25. QED BY <1>17, <1>20, <1>21, <1>22, <1>23, <1>24, Zenon DEF Tree

(* A cleared PML4 is a tree of its own, and maps no page.                  *)
LEMMA NewTree ==
  ASSUME NEW r \in Frame, NEW T, T = [f \in {r} |-> EmptyTable]
  PROVE  Tree(T, r) /\ \A a \in Pages : Translated(T, r, a) = NotMapped
<1>1. /\ EmptyTable \in [0 .. ENTRIES - 1 -> Nat]
      /\ \A j \in 0 .. ENTRIES - 1 : EmptyTable[j] = 0
  BY DEF EmptyTable
<1>2. DOMAIN T = {r} /\ T[r] = EmptyTable
  OBVIOUS
<1>3. Typed(T, r)
  BY <1>1, <1>2 DEF Typed
<1>4. \A a \in Pages, l \in 1 .. 4 : calc_index(a, l) \in 0 .. ENTRIES - 1
  BY PagesAligned, IndexInTable
<1>5. \A j \in 0 .. ENTRIES - 1 : Child(T, r, j) = 0
  BY <1>1, <1>2, ZeroIsAbsent, Zenon DEF Child, Entry
<1>6. ASSUME NEW a \in Pages
      PROVE  /\ Path(T, r, a)[4] = r
             /\ \A l \in 1 .. 3 : Path(T, r, a)[l] = 0
  <2>1. Path(T, r, a)[4] = r
    BY PathSteps
  <2>2. Path(T, r, a)[3] = Child(T, Path(T, r, a)[3 + 1], calc_index(a, 3 + 1))
    BY PathSteps
  <2>3. Path(T, r, a)[3] = 0
    BY <1>4, <1>5, <2>1, <2>2, 3 + 1 = 4, 4 \in 1 .. 4, Zenon
  <2>4. Path(T, r, a)[2] = Child(T, Path(T, r, a)[2 + 1], calc_index(a, 2 + 1))
    BY PathSteps
  <2>5. Path(T, r, a)[2] = 0
    BY <1>3, <2>3, <2>4, 2 + 1 = 3, NothingBelowZero, Zenon
  <2>6. Path(T, r, a)[1] = Child(T, Path(T, r, a)[1 + 1], calc_index(a, 1 + 1))
    BY PathSteps
  <2>7. Path(T, r, a)[1] = 0
    BY <1>3, <2>5, <2>6, 1 + 1 = 2, NothingBelowZero, Zenon
  <2>8. \A l \in 1 .. 3 : l = 1 \/ l = 2 \/ l = 3
    OBVIOUS
  <2>9. QED BY <2>1, <2>3, <2>5, <2>7, <2>8, Zenon
<1>7. r # 0
  BY DEF Frame
<1>8. \A l \in 1 .. 4 : l = 4 \/ l \in 1 .. 3
  OBVIOUS
<1>9. Closed(T, r)
  <2>1. ASSUME NEW a \in Pages, NEW l \in 1 .. 3, Path(T, r, a)[l + 1] \in DOMAIN T
        PROVE  ~is_present(T[Path(T, r, a)[l + 1]][calc_index(a, l + 1)])
    <3>1. l + 1 \in 1 .. 4
      OBVIOUS
    <3>2. Path(T, r, a)[l + 1] = r
      BY <1>2, <2>1
    <3>3. QED BY <1>1, <1>2, <1>4, <3>1, <3>2, ZeroIsAbsent, Zenon
  <2>2. QED BY <2>1, Zenon DEF Closed
<1>10. Apart(T, r)
  <2>1. \A a, c \in Pages, l, m \in 1 .. 4 :
          Path(T, r, a)[l] \in DOMAIN T /\ Path(T, r, a)[l] = Path(T, r, c)[m]
          => l = m /\ \A k \in l + 1 .. 4 : calc_index(a, k) = calc_index(c, k)
    <3> TAKE a, c \in Pages, l, m \in 1 .. 4
    <3> HAVE Path(T, r, a)[l] \in DOMAIN T /\ Path(T, r, a)[l] = Path(T, r, c)[m]
    <3>1. Path(T, r, a)[l] = r /\ Path(T, r, c)[m] = r
      BY <1>2
    <3>2. l = 4 /\ m = 4
      BY <1>6, <1>7, <1>8, <3>1, Zenon
    <3>3. QED BY <3>2
  <2>2. QED BY <2>1, Zenon DEF Apart
<1>11. Covered(T, r)
  BY <1>2 DEF Covered
<1>12. ASSUME NEW a \in Pages PROVE Translated(T, r, a) = NotMapped
  <2>1. Path(T, r, a)[1] = 0
    BY <1>6, 1 \in 1 .. 3, Zenon
  <2>2. Entry(T, Path(T, r, a)[1], calc_index(a, 1)) = 0
    BY <1>3, <2>1, NothingBelowZero, Zenon
  <2>3. QED BY <2>2, ZeroIsAbsent, Zenon DEF Translated
<1>13. QED BY <1>3, <1>9, <1>10, <1>11, <1>12, Zenon DEF Tree

-----------------------------------------------------------------------------
(* The invariant.                                                          *)

(* The frames that the heap has still to give are frames, and free. *)
HeapFree ==
  /\ heap \in Seq(Frame)
  /\ \A i \in DOMAIN heap : heap[i] \notin DOMAIN tables
  /\ \A i, j \in DOMAIN heap : i # j => heap[i] # heap[j]

(* The call in progress is one that was not refused, and the walk for its  *)
(* next page is on that page's path.                                       *)
Serving ==
  level # 0 =>
    /\ call \in Calls /\ Aligned(call)
    /\ call.virt_start <= addr
    /\ table \in DOMAIN tables
    /\ Walking => table = Path(tables, root, addr)[level]
    /\ result = "none"

(* The pages before addr, or after an Ok all of them, are as asked. *)
AsAsked ==
  \A p \in Contract!Range(call) :
    (level # 0 /\ p < addr) \/ result = "ok" => Translate(p) = Contract!Wanted(call, p)

TablesInv ==
  /\ Tree(tables, root)
  /\ HeapFree
  /\ call \in Calls \cup {NoCall}
  /\ addr \in Pages \cup {VIRT_END}
  /\ level \in 0 .. 4
  /\ result \in {"none", "ok", "err", "panic"}
  /\ Serving
  /\ AsAsked

(* No page is translated otherwise than before. *)
SameSpace == \A p \in Pages : Translate(p)' = Translate(p)

(* What a call's arguments are. *)
LEMMA CallFields ==
  ASSUME NEW c \in Calls
  PROVE  /\ c.virt_start \in Nat /\ c.virt_end \in Nat /\ c.phys \in Nat
         /\ c.attr \in {NotPresent, ReadWriteKernel, ReadWriteIo}
         /\ c.virt_start <= VIRT_END /\ c.virt_end <= VIRT_END
BY PageTablesAssumption DEF Call

(* The next page of a call in progress is a page. *)
LEMMA NextIsPage ==
  ASSUME TablesInv, Walking
  PROVE  /\ addr \in Pages /\ addr \in Contract!Range(call)
         /\ call \in Calls /\ Aligned(call) /\ call.virt_start <= addr
         /\ level \in 1 .. 4 /\ table \in DOMAIN tables
         /\ table = Path(tables, root, addr)[level]
         /\ result = "none"
<1>1. /\ call \in Calls /\ Aligned(call) /\ call.virt_start <= addr
      /\ level \in 1 .. 4 /\ table \in DOMAIN tables
      /\ table = Path(tables, root, addr)[level] /\ result = "none"
  BY DEF TablesInv, Serving, Walking
<1>2. call.virt_end \in Nat /\ call.virt_end <= VIRT_END /\ VIRT_END \in Nat
  BY <1>1, CallFields, PagesAligned
<1>3. addr < call.virt_end
  BY DEF Walking
<1>4. addr \in Pages
  <2>1. addr # VIRT_END
    BY <1>2, <1>3
  <2>2. QED BY <2>1 DEF TablesInv
<1>5. addr \in Contract!Range(call)
  BY <1>1, <1>3, <1>4 DEF Contract!Range
<1>6. QED BY <1>1, <1>4, <1>5

(* Translations that stay need no new proof. *)
LEMMA AsAskedStays ==
  ASSUME AsAsked, SameSpace, call' = call,
         \A p \in Contract!Range(call) :
           (level' # 0 /\ p < addr') \/ result' = "ok" =>
           (level # 0 /\ p < addr) \/ result = "ok"
  PROVE  AsAsked'
<1>1. Contract!Range(call') \subseteq Pages
  BY DEF Contract!Range
<1>2. ASSUME NEW p \in Contract!Range(call'),
             (level' # 0 /\ p < addr') \/ result' = "ok"
      PROVE  Translate(p)' = Contract!Wanted(call', p)
  <2>1. p \in Contract!Range(call) /\ p \in Pages
    BY <1>1, Zenon
  <2>2. Translate(p) = Contract!Wanted(call, p)
    BY <1>2, <2>1, Zenon DEF AsAsked
  <2>3. Translate(p)' = Translate(p)
    BY <2>1, Zenon DEF SameSpace
  <2>4. QED BY <2>2, <2>3, Zenon
<1>3. QED BY <1>2, Zenon DEF AsAsked

(* Tables that stay translate as before. *)
LEMMA SameTables ==
  ASSUME tables' = tables, root' = root
  PROVE  SameSpace
BY WalkOfTables, WalkOfTablesNext, Zenon DEF SameSpace

(* A step down to a table that is present. *)
LEMMA DescendKeeps ==
  ASSUME TablesInv, Descend
  PROVE  TablesInv' /\ SameSpace
<1> DEFINE P == Path(tables, root, addr)
<1>1. /\ addr \in Pages /\ call \in Calls /\ Aligned(call) /\ call.virt_start <= addr
      /\ level \in 1 .. 4 /\ table \in DOMAIN tables /\ table = P[level]
      /\ result = "none" /\ level > 1 /\ Walking
  BY NextIsPage, Zenon DEF Descend
<1>2. /\ is_present(tables[table][calc_index(addr, level)])
      /\ table' = FrameOf(tables[table][calc_index(addr, level)])
      /\ level' = level - 1
      /\ UNCHANGED <<heap, tables, root, call, addr, result>>
  BY DEF Descend, Index
<1>3. level - 1 \in 1 .. 3 /\ (level - 1) + 1 = level
  BY <1>1
<1>4. P[level - 1] = Child(tables, table, calc_index(addr, level))
  <2>1. P[level - 1] = Child(tables, P[(level - 1) + 1], calc_index(addr, (level - 1) + 1))
    BY <1>3, PathSteps
  <2>2. QED BY <1>1, <1>3, <2>1, Zenon
<1>5. table' = P[level - 1]
  BY <1>1, <1>2, <1>4, Zenon DEF Child, Entry
<1>6. P[level - 1] \in DOMAIN tables
  <2>1. Closed(tables, root)
    BY DEF TablesInv, Tree
  <2>2. P[level - 1] \in DOMAIN tables \ {root}
    BY <1>1, <1>2, <1>3, <2>1, Zenon DEF Closed
  <2>3. QED BY <2>2
<1>7. SameSpace
  BY <1>2, SameTables
<1>8. AsAsked'
  <2>1. level' # 0 /\ level # 0
    BY <1>1, <1>2
  <2>2. QED BY <1>2, <1>7, <2>1, AsAskedStays DEF TablesInv
<1>9. Serving'
  <2>1. table' \in DOMAIN tables' /\ table' = Path(tables', root', addr')[level']
    BY <1>2, <1>5, <1>6, Zenon
  <2>2. Aligned(call')
    BY <1>1, <1>2, Zenon
  <2>3. QED BY <1>1, <1>2, <2>1, <2>2 DEF Serving
<1>10. HeapFree'
  BY <1>2 DEF TablesInv, HeapFree
<1>11. Tree(tables', root') /\ level' \in 0 .. 4
  BY <1>1, <1>2 DEF TablesInv
<1>12. QED BY <1>2, <1>7, <1>8, <1>9, <1>10, <1>11 DEF TablesInv

(* What the heap gives is free, and what it has left is free of it. *)
LEMMA HeapGives ==
  ASSUME HeapFree, heap # << >>
  PROVE  /\ Head(heap) \in Frame \ DOMAIN tables
         /\ Tail(heap) \in Seq(Frame)
         /\ \A i \in DOMAIN Tail(heap) :
              Tail(heap)[i] \notin DOMAIN tables \cup {Head(heap)}
         /\ \A i, j \in DOMAIN Tail(heap) : i # j => Tail(heap)[i] # Tail(heap)[j]
<1>1. heap \in Seq(Frame) /\ Len(heap) \in Nat \ {0} /\ DOMAIN heap = 1 .. Len(heap)
  BY DEF HeapFree
<1>2. Head(heap) = heap[1] /\ 1 \in DOMAIN heap
  BY <1>1
<1>3. /\ Tail(heap) \in Seq(Frame)
      /\ DOMAIN Tail(heap) = 1 .. Len(heap) - 1
      /\ \A i \in 1 .. Len(heap) - 1 : Tail(heap)[i] = heap[i + 1]
  BY <1>1
<1>4. ASSUME NEW i \in DOMAIN Tail(heap)
      PROVE  i + 1 \in DOMAIN heap /\ i + 1 # 1 /\ Tail(heap)[i] = heap[i + 1]
  BY <1>1, <1>3
<1>5. \A i \in DOMAIN Tail(heap) : Tail(heap)[i] \notin DOMAIN tables \cup {Head(heap)}
  BY <1>2, <1>4, Zenon DEF HeapFree
<1>6. ASSUME NEW i \in DOMAIN Tail(heap), NEW j \in DOMAIN Tail(heap), i # j
      PROVE  Tail(heap)[i] # Tail(heap)[j]
  <2>1. i + 1 # j + 1
    BY <1>3, <1>6
  <2>2. QED BY <1>4, <2>1, Zenon DEF HeapFree
<1>7. Head(heap) \in Frame \ DOMAIN tables
  BY <1>1, <1>2 DEF HeapFree
<1>8. QED BY <1>3, <1>5, <1>6, <1>7

(* A table that is missing is linked in. *)
LEMMA PopulateKeeps ==
  ASSUME TablesInv, Populate
  PROVE  TablesInv' /\ SameSpace
<1> DEFINE n == Head(heap)
<1>1. /\ addr \in Pages /\ call \in Calls /\ Aligned(call) /\ call.virt_start <= addr
      /\ level \in 1 .. 4 /\ table \in DOMAIN tables
      /\ table = Path(tables, root, addr)[level]
      /\ result = "none" /\ level > 1 /\ Walking
  BY NextIsPage, Zenon DEF Populate
<1>2. /\ ~is_present(tables[table][calc_index(addr, level)])
      /\ heap # << >> /\ heap' = Tail(heap)
      /\ table' = n /\ level' = level - 1
      /\ UNCHANGED <<root, call, addr, result>>
      /\ tables' = [f \in DOMAIN tables \cup {n} |->
                      IF f = n THEN EmptyTable
                      ELSE IF f = table
                           THEN [tables[f] EXCEPT ![calc_index(addr, level)] = n + ReadWriteKernel]
                           ELSE tables[f]]
  BY Zenon DEF Populate, Index
<1>3. /\ n \in Frame \ DOMAIN tables
      /\ Tail(heap) \in Seq(Frame)
      /\ \A i \in DOMAIN Tail(heap) : Tail(heap)[i] \notin DOMAIN tables \cup {n}
      /\ \A i, j \in DOMAIN Tail(heap) : i # j => Tail(heap)[i] # Tail(heap)[j]
  BY <1>2, HeapGives DEF TablesInv
<1>4. level \in 2 .. 4 /\ Tree(tables, root)
  BY <1>1 DEF TablesInv
<1>5. /\ Tree(tables', root)
      /\ DOMAIN tables' = DOMAIN tables \cup {n}
      /\ Path(tables', root, addr)[level - 1] = n
      /\ \A a \in Pages : Translated(tables', root, a) = Translated(tables, root, a)
  <2> DEFINE i == calc_index(addr, level)
             I == 0 .. ENTRIES - 1
  <2>1. PICK row : row = [tables[table] EXCEPT ![i] = n + ReadWriteKernel]
    OBVIOUS
  <2>2. PICK w : w = n + ReadWriteKernel
    OBVIOUS
  <2>3. tables' = [f \in DOMAIN tables \cup {n} |->
                     IF f = n THEN EmptyTable ELSE IF f = table THEN row ELSE tables[f]]
    BY <1>2, <2>1, Zenon
  <2>4. tables \in [DOMAIN tables -> [I -> Nat]] /\ i \in I /\ w \in Nat
    <3>1. i \in I
      BY <1>1, IndexInTable, PagesAligned
    <3>2. n \in Nat
      BY <1>3 DEF Frame
    <3>3. w \in Nat
      BY <2>2, <3>2 DEF ReadWriteKernel
    <3>4. QED BY <1>4, <3>1, <3>3 DEF Tree, Typed
  <2>5. EmptyTable \in [I -> Nat]
    BY DEF EmptyTable
  <2>6. table # n /\ n \notin DOMAIN tables
    BY <1>1, <1>3
  <2>7. Linked(tables, tables', table, i, n)
    <3> HIDE DEF n, i, I
    <3>1. row \in [I -> Nat] /\ row[i] = w /\ \A j \in I : j # i => row[j] = tables[table][j]
      BY <1>1, <2>1, <2>2, <2>4
    <3>2. /\ tables' \in [DOMAIN tables \cup {n} -> [I -> Nat]]
          /\ tables'[n] = EmptyTable /\ tables'[table] = row
          /\ \A f \in DOMAIN tables : f # table => tables'[f] = tables[f]
      BY <1>1, <2>3, <2>4, <2>5, <2>6, <3>1
    <3>3. QED BY <2>2, <3>1, <3>2, Zenon DEF Linked, I
  <2>8. Linked(tables, tables', Path(tables, root, addr)[level], i, n)
    BY <1>1, <2>7, Zenon
  <2>9. /\ Path(tables, root, addr)[level] \in DOMAIN tables
        /\ ~is_present(tables[Path(tables, root, addr)[level]][i])
    BY <1>1, <1>2, Zenon
  <2>10. addr \in Pages /\ level \in 2 .. 4 /\ Tree(tables, root) /\ n \in Frame \ DOMAIN tables
    BY <1>1, <1>3, <1>4
  <2>11. LinkedOnPath(tables, tables', root, addr, level, n)
    BY <2>8, <2>9, <2>10, Zenon DEF LinkedOnPath
  <2>12. DOMAIN tables' = DOMAIN tables \cup {n}
    BY <1>2
  <2> HIDE DEF n
  <2>13. /\ Tree(tables', root)
         /\ Path(tables', root, addr)[level - 1] = n
         /\ \A a \in Pages : Translated(tables', root, a) = Translated(tables, root, a)
    BY <2>11, TableLinked
  <2>14. QED BY <2>12, <2>13
<1>6. SameSpace
  BY <1>2, <1>5, WalkOfTables, WalkOfTablesNext, Zenon DEF SameSpace
<1>7. AsAsked'
  <2>1. level' # 0 /\ level # 0
    BY <1>1, <1>2
  <2>2. QED BY <1>2, <1>6, <2>1, AsAskedStays DEF TablesInv
<1>8. Serving'
  <2>1. table' \in DOMAIN tables' /\ table' = Path(tables', root', addr')[level']
    BY <1>2, <1>5, Zenon
  <2>2. Aligned(call')
    BY <1>1, <1>2, Zenon
  <2>3. QED BY <1>1, <1>2, <2>1, <2>2 DEF Serving
<1>9. HeapFree'
  BY <1>2, <1>3, <1>5, Zenon DEF HeapFree
<1>10. Tree(tables', root') /\ level' \in 0 .. 4
  BY <1>2, <1>4, <1>5
<1>11. QED BY <1>2, <1>6, <1>7, <1>8, <1>9, <1>10 DEF TablesInv

(* An entry of a PT is written: the page is as asked, the others stay. *)
LEMMA SetPageKeeps ==
  ASSUME TablesInv, SetPage
  PROVE  /\ TablesInv'
         /\ addr \in Contract!Range(call)
         /\ \A p \in Pages : Translate(p)' = IF p = addr THEN Contract!Wanted(call, p)
                                             ELSE Translate(p)
<1> DEFINE i == calc_index(addr, 1)
           w == PageOf + call.attr
<1>1. /\ addr \in Pages /\ addr \in Contract!Range(call) /\ call \in Calls
      /\ Aligned(call) /\ call.virt_start <= addr /\ addr < call.virt_end
      /\ table \in DOMAIN tables /\ table = Path(tables, root, addr)[1]
      /\ result = "none" /\ level = 1
  <2>1. level = 1 /\ Walking /\ addr < call.virt_end
    BY DEF SetPage, Walking
  <2>2. QED BY <2>1, NextIsPage
<1>2. /\ tables' = [tables EXCEPT ![table][i] = w]
      /\ addr' = addr + PAGE_SIZE
      /\ level' = 4 /\ table' = root
      /\ UNCHANGED <<heap, root, call, result>>
  BY <1>1 DEF SetPage, Index, LEVELS
<1>3. /\ PageOf \in Nat /\ PageOf % PAGE_SIZE = 0
      /\ call.attr \in {NotPresent, ReadWriteKernel, ReadWriteIo}
  <2>1. PICK v \in Nat, q \in Nat, a \in Nat :
          v = call.virt_start /\ q = call.phys /\ a = addr
    BY <1>1, CallFields, PagesAligned
  <2>2. v % 4096 = 0 /\ q % 4096 = 0 /\ a % 4096 = 0 /\ v <= a
    BY <1>1, <2>1, PagesAligned DEF Aligned, PAGE_SIZE
  <2>3. PageOf = q + a - v
    BY <2>1, Zenon DEF PageOf
  <2>4. q + a - v \in Nat /\ (q + a - v) % 4096 = 0
    BY <2>2
  <2>5. QED BY <1>1, <2>3, <2>4, CallFields DEF PAGE_SIZE
<1>4. /\ w \in Nat /\ FrameOf(w) = PageOf /\ w % PAGE_SIZE = call.attr
      /\ is_present(w) <=> call.attr % 2 = 1
  BY <1>3, WordOf
<1>5. Tree(tables, root)
  BY DEF TablesInv
<1>6. /\ Tree(tables', root)
      /\ Path(tables', root, addr)[1] = table
      /\ DOMAIN tables' = DOMAIN tables
      /\ \A a \in Pages \ {addr} : Translated(tables', root, a) = Translated(tables, root, a)
      /\ Entry(tables', Path(tables', root, addr)[1], i) = w
  <2>1. WrittenOnPath(tables, tables', root, addr, w)
    BY <1>1, <1>2, <1>4, <1>5, Zenon DEF WrittenOnPath
  <2> HIDE DEF w
  <2>2. /\ Tree(tables', root)
        /\ \A l \in 1 .. 4 : Path(tables', root, addr)[l] = Path(tables, root, addr)[l]
        /\ DOMAIN tables' = DOMAIN tables
        /\ \A a \in Pages \ {addr} : Translated(tables', root, a) = Translated(tables, root, a)
        /\ Entry(tables', Path(tables', root, addr)[1], i) = w
    BY <2>1, EntryWritten
  <2>3. Path(tables', root, addr)[1] = Path(tables, root, addr)[1]
    BY <2>2, 1 \in 1 .. 4, Zenon
  <2>4. QED BY <1>1, <2>2, <2>3, Zenon
<1>7. \A p \in Pages \ {addr} : Translate(p)' = Translate(p)
  BY <1>2, <1>6, WalkOfTables, WalkOfTablesNext, Zenon
<1>8. ASSUME NEW a \in Pages, a = addr PROVE Translate(a)' = Contract!Wanted(call, a)
  <2>1. a = addr
    BY <1>8
  <2>2. Translated(tables', root, a)
        = IF is_present(w) THEN [phys |-> FrameOf(w), attr |-> w % PAGE_SIZE] ELSE NotMapped
    BY <1>6, <2>1, Zenon DEF Translated
  <2>3. Contract!Wanted(call, a)
        = IF call.attr % 2 = 0 THEN NotMapped ELSE [phys |-> PageOf, attr |-> call.attr]
    BY <2>1, Zenon DEF Contract!Wanted, PageOf
  <2>4. call.attr % 2 = 0 <=> ~(call.attr % 2 = 1)
    BY <1>3 DEF NotPresent, ReadWriteKernel, ReadWriteIo
  <2>5. Translated(tables', root, a) = Contract!Wanted(call, a)
    BY <1>4, <2>2, <2>3, <2>4, Zenon
  <2>6. QED BY <1>2, <2>5, WalkOfTablesNext, Zenon
<1>9. addr' \in Pages \cup {VIRT_END} /\ call.virt_start <= addr'
  <2>1. PICK a \in Nat, v \in Nat : a = addr /\ v = VIRT_END
    BY <1>1, PagesAligned
  <2>2. a % 4096 = 0 /\ v % 4096 = 0 /\ a < v
    BY <1>1, <2>1, PagesAligned DEF PAGE_SIZE
  <2>3. (a + 4096) % 4096 = 0 /\ a + 4096 <= v
    BY <2>2
  <2>4. a + 4096 \in Pages \cup {VIRT_END}
    BY <2>1, <2>3, PagesAligned DEF PAGE_SIZE
  <2>5. call.virt_start <= a + 4096
    BY <1>1, <2>1, CallFields
  <2>6. QED BY <1>2, <2>1, <2>4, <2>5 DEF PAGE_SIZE
<1>10. AsAsked'
  <2>1. ASSUME NEW p \in Contract!Range(call'),
               (level' # 0 /\ p < addr') \/ result' = "ok"
        PROVE  Translate(p)' = Contract!Wanted(call', p)
    <3>1. p \in Contract!Range(call) /\ p \in Pages /\ p \in Nat /\ p % 4096 = 0
      BY <1>2, PagesAligned DEF Contract!Range, PAGE_SIZE
    <3>2. p < addr + 4096
      BY <1>1, <1>2, <2>1 DEF PAGE_SIZE
    <3>3. CASE p = addr
      <4>1. Translate(p)' = Contract!Wanted(call, p)
        BY <1>8, <3>1, <3>3
      <4>2. QED BY <1>2, <4>1
    <3>4. CASE p # addr
      <4>1. addr \in Nat /\ addr % 4096 = 0
        BY <1>1, PagesAligned DEF PAGE_SIZE
      <4>2. p < addr
        BY <3>1, <3>2, <3>4, <4>1
      <4>3. Translate(p) = Contract!Wanted(call, p)
        BY <1>1, <3>1, <4>2 DEF TablesInv, AsAsked
      <4>4. QED BY <1>2, <1>7, <3>1, <3>4, <4>3
    <3>5. QED BY <3>3, <3>4
  <2>2. QED BY <2>1, Zenon DEF AsAsked
<1>11. Serving'
  <2>1. root \in DOMAIN tables'
    BY <1>6, Zenon DEF Tree, Typed
  <2>2. Path(tables', root, addr')[4] = root
    BY PathSteps
  <2>3. Aligned(call')
    BY <1>1, <1>2, Zenon
  <2>4. QED BY <1>1, <1>2, <1>9, <2>1, <2>2, <2>3 DEF Serving
<1>12. HeapFree'
  BY <1>2, <1>6 DEF TablesInv, HeapFree
<1>13. TablesInv'
  <2>1. Tree(tables', root') /\ level' \in 0 .. 4
    BY <1>2, <1>6
  <2>2. QED BY <1>2, <1>9, <1>10, <1>11, <1>12, <2>1 DEF TablesInv
<1>14. QED BY <1>1, <1>7, <1>8, <1>13, Zenon

(* The heap is used up: what has been linked in stays. *)
LEMMA OutOfMemoryKeeps ==
  ASSUME TablesInv, OutOfMemory
  PROVE  TablesInv' /\ SameSpace
<1>1. /\ level' = 0 /\ result' = "panic"
      /\ UNCHANGED <<heap, tables, root, call, addr, table>>
  BY DEF OutOfMemory
<1>2. SameSpace
  BY <1>1, SameTables
<1>3. AsAsked'
  BY <1>1, <1>2, AsAskedStays DEF TablesInv
<1>4. Serving'
  BY <1>1 DEF Serving
<1>5. HeapFree' /\ Tree(tables', root')
  BY <1>1 DEF TablesInv, HeapFree
<1>6. QED BY <1>1, <1>2, <1>3, <1>4, <1>5 DEF TablesInv

(* The range is done: all its pages are as asked. *)
LEMMA ReturnOkKeeps ==
  ASSUME TablesInv, ReturnOk
  PROVE  /\ TablesInv' /\ SameSpace
         /\ \A p \in Contract!Range(call) : Translate(p) = Contract!Wanted(call, p)
<1>1. /\ level # 0 /\ addr >= call.virt_end
      /\ level' = 0 /\ result' = "ok"
      /\ UNCHANGED <<heap, tables, root, call, addr, table>>
  BY DEF ReturnOk
<1>2. SameSpace
  BY <1>1, SameTables
<1>3. ASSUME NEW p \in Contract!Range(call) PROVE p < addr
  <2>1. p \in Nat /\ p < call.virt_end
    BY PagesAligned DEF Contract!Range
  <2>2. call.virt_end \in Nat /\ addr \in Nat
    BY <1>1, CallFields, PagesAligned DEF TablesInv, Serving
  <2>3. QED BY <1>1, <2>1, <2>2
<1>4. AsAsked'
  BY <1>1, <1>2, <1>3, AsAskedStays DEF TablesInv
<1>5. Serving'
  BY <1>1 DEF Serving
<1>6. HeapFree' /\ Tree(tables', root')
  BY <1>1 DEF TablesInv, HeapFree
<1>7. TablesInv'
  BY <1>1, <1>4, <1>5, <1>6 DEF TablesInv
<1>8. \A p \in Contract!Range(call) : Translate(p) = Contract!Wanted(call, p)
  BY <1>1, <1>3 DEF TablesInv, AsAsked
<1>9. QED BY <1>2, <1>7, <1>8

(* A call that is refused changes nothing. *)
LEMMA RefuseKeeps ==
  ASSUME TablesInv, NEW c, RefuseCall(c)
  PROVE  TablesInv' /\ SameSpace
<1>1. /\ level = 0 /\ result' = "err"
      /\ UNCHANGED <<heap, tables, root, call, addr, level, table>>
  BY DEF RefuseCall, Idle
<1>2. SameSpace
  BY <1>1, SameTables
<1>3. AsAsked'
  BY <1>1, <1>2, AsAskedStays DEF TablesInv
<1>4. Serving'
  BY <1>1 DEF Serving
<1>5. HeapFree' /\ Tree(tables', root')
  BY <1>1 DEF TablesInv, HeapFree
<1>6. QED BY <1>1, <1>2, <1>3, <1>4, <1>5 DEF TablesInv

(* A call begins at the PML4, with no page of its range behind it. *)
LEMMA BeginKeeps ==
  ASSUME TablesInv, NEW c \in Calls, BeginCall(c)
  PROVE  TablesInv' /\ SameSpace
<1>1. /\ Aligned(c) /\ call' = c /\ addr' = c.virt_start
      /\ level' = 4 /\ table' = root /\ result' = "none"
      /\ UNCHANGED <<heap, tables, root>>
  BY DEF BeginCall, LEVELS
<1>2. SameSpace
  BY <1>1, SameTables
<1>3. addr' \in Pages \cup {VIRT_END}
  <2>1. PICK v \in Nat, e \in Nat : v = c.virt_start /\ e = VIRT_END
    BY CallFields, PagesAligned
  <2>2. v % PAGE_SIZE = 0 /\ (v < e \/ v = e)
    <3>1. v <= e
      BY <2>1, CallFields
    <3>2. v % PAGE_SIZE = 0
      BY <1>1, <2>1 DEF Aligned
    <3>3. QED BY <3>1, <3>2
  <2>3. QED BY <1>1, <2>1, <2>2, PagesAligned
<1>4. AsAsked'
  <2>1. ASSUME NEW p \in Contract!Range(call') PROVE ~(p < addr')
    <3>1. p \in Nat /\ c.virt_start \in Nat /\ c.virt_start <= p
      BY <1>1, CallFields, PagesAligned DEF Contract!Range
    <3>2. QED BY <1>1, <3>1
  <2>2. result' # "ok"
    BY <1>1
  <2>3. QED BY <2>1, <2>2, Zenon DEF AsAsked
<1>5. Tree(tables', root') /\ root' \in DOMAIN tables'
  BY <1>1 DEF TablesInv, Tree, Typed
<1>6. Serving'
  <2>1. Path(tables', root', addr')[4] = root'
    BY PathSteps
  <2>2. Aligned(call')
    BY <1>1, Zenon
  <2>3. c.virt_start <= c.virt_start
    BY CallFields
  <2>4. QED BY <1>1, <1>5, <2>1, <2>2, <2>3 DEF Serving
<1>7. HeapFree'
  BY <1>1 DEF TablesInv, HeapFree
<1>8. QED BY <1>1, <1>2, <1>3, <1>4, <1>5, <1>6, <1>7 DEF TablesInv

(* Whoever takes the heap's frames begins with one cleared table. *)
LEMMA InitHolds ==
  ASSUME Init, NEW h \in HeapOrders, heap = Tail(h), root = Head(h)
  PROVE  TablesInv /\ \A p \in Pages : Translate(p) = NotMapped
<1>1. /\ h \in Seq(Nat \ {0}) /\ h # << >>
      /\ \A i \in DOMAIN h : h[i] % PAGE_SIZE = 0
      /\ \A i, j \in DOMAIN h : i # j => h[i] # h[j]
  BY PageTablesAssumption
<1>2. \A i \in DOMAIN h : h[i] \in Frame
  BY <1>1 DEF Frame
<1>3. h \in Seq(Frame)
  BY <1>1, <1>2
<1>4. Len(h) \in Nat \ {0} /\ DOMAIN h = 1 .. Len(h)
  BY <1>1
<1>5. root = h[1] /\ 1 \in DOMAIN h
  BY <1>1, <1>4
<1>6. /\ heap \in Seq(Frame)
      /\ DOMAIN heap = 1 .. Len(h) - 1
      /\ \A i \in 1 .. Len(h) - 1 : heap[i] = h[i + 1]
  BY <1>1, <1>3, <1>4
<1>7. ASSUME NEW i \in DOMAIN heap
      PROVE  i + 1 \in DOMAIN h /\ i + 1 # 1 /\ heap[i] = h[i + 1]
  BY <1>4, <1>6
<1>8. root \in Frame /\ tables = [f \in {root} |-> EmptyTable] /\ DOMAIN tables = {root}
  BY <1>2, <1>5 DEF Init
<1>9. HeapFree
  <2>1. ASSUME NEW i \in DOMAIN heap PROVE heap[i] # root
    BY <1>1, <1>5, <1>7, Zenon
  <2>2. ASSUME NEW i \in DOMAIN heap, NEW j \in DOMAIN heap, i # j
        PROVE  heap[i] # heap[j]
    <3>1. i + 1 # j + 1
      BY <1>6, <2>2
    <3>2. QED BY <1>1, <1>7, <3>1, Zenon
  <2>3. QED BY <1>6, <1>8, <2>1, <2>2 DEF HeapFree
<1>10. Tree(tables, root) /\ \A a \in Pages : Translated(tables, root, a) = NotMapped
  BY <1>8, NewTree
<1>11. /\ level = 0 /\ result = "none" /\ call = NoCall /\ addr = 0
  BY DEF Init
<1>12. 0 \in Pages \cup {VIRT_END}
  <2>1. VIRT_END \in Nat /\ 0 % PAGE_SIZE = 0
    BY PagesAligned DEF PAGE_SIZE
  <2>2. 0 < VIRT_END \/ 0 = VIRT_END
    BY <2>1
  <2>3. QED BY <2>1, <2>2, PagesAligned
<1>13. AsAsked /\ Serving
  BY <1>11 DEF AsAsked, Serving
<1>14. \A p \in Pages : Translate(p) = NotMapped
  BY <1>10, WalkOfTables, Zenon
<1>15. QED BY <1>9, <1>10, <1>11, <1>12, <1>13, <1>14 DEF TablesInv

-----------------------------------------------------------------------------
(* init_paging.                                                            *)

(* end_of_mem is the end of a call that may be made, and no used memory    *)
(* passed by the iterator lies above it; the tables in cr3 are complete.   *)
Scanned ==
  /\ memory_map \in Seq([memory_type : MemoryTypes, start : Nat, end : Nat])
  /\ \A i \in DOMAIN memory_map :
       /\ memory_map[i].end % PAGE_SIZE = 0
       /\ Used(memory_map[i]) => IdentityMapTo(memory_map[i].end) \in Calls
  /\ ofs \in Nat \ {0}
  /\ end_of_mem \in Nat /\ end_of_mem % PAGE_SIZE = 0 /\ IdentityMap \in Calls
  /\ \A i \in DOMAIN memory_map :
       i < ofs /\ Used(memory_map[i]) => memory_map[i].end <= end_of_mem
  /\ pc \in {"mapping", "switched"} => ofs > Len(memory_map) /\ call = IdentityMap
  /\ pc = "switched" => result = "ok"
  /\ cr3 # FirmwareTables => pc = "switched"

PagingInv == TablesInv /\ Scanned

(* Both callers start from the invariant, with nothing mapped. *)
LEMMA PagingInit ==
  ASSUME InitPagingInit \/ OtherCallerInit
  PROVE  PagingInv /\ Contract!SpaceInit
<1>1. PICK h \in HeapOrders : heap = Tail(h) /\ root = Head(h)
  BY InitPagingAssumption DEF InitPagingInit, OtherCallerInit
<1>2. Init /\ ofs = 1 /\ end_of_mem = MIN_END /\ cr3 = FirmwareTables
  BY DEF InitPagingInit, OtherCallerInit, PagingTablesInit
<1>3. TablesInv /\ \A p \in Pages : Translate(p) = NotMapped
  BY <1>1, <1>2, InitHolds
<1>4. /\ memory_map \in Seq([memory_type : MemoryTypes, start : Nat, end : Nat])
      /\ \A i \in DOMAIN memory_map :
           /\ memory_map[i].end % PAGE_SIZE = 0
           /\ Used(memory_map[i]) => IdentityMapTo(memory_map[i].end) \in Calls
  <2> DEFINE Descriptors == Seq([memory_type : MemoryTypes, start : Nat, end : Nat])
  <2>1. CASE InitPagingInit
    <3>1. PICK m \in MemoryMaps : memory_map = m.map
      BY <2>1 DEF InitPagingInit
    <3>2. QED BY <3>1, InitPagingAssumption, Zenon
  <2>2. CASE OtherCallerInit
    <3>1. memory_map = << >>
      BY <2>2 DEF OtherCallerInit
    <3>2. << >> \in Descriptors /\ DOMAIN << >> = {}
      OBVIOUS
    <3> HIDE DEF Descriptors
    <3>3. memory_map \in Descriptors /\ DOMAIN memory_map = {}
      BY <3>1, <3>2, Zenon
    <3>4. QED BY <3>3 DEF Descriptors
  <2>3. QED BY <1>1, <2>1, <2>2, Zenon
<1>5. end_of_mem \in Nat /\ end_of_mem % PAGE_SIZE = 0 /\ IdentityMap \in Calls
  <2>1. MIN_END \in Nat /\ MIN_END % PAGE_SIZE = 0 /\ IdentityMapTo(MIN_END) \in Calls
    BY InitPagingAssumption, PagesAligned
  <2>2. QED BY <1>2, <2>1, Zenon DEF IdentityMap
<1>6. pc \in {"scan", "other caller"}
  BY DEF InitPagingInit, OtherCallerInit
<1>7. ofs \in Nat \ {0} /\ \A i \in DOMAIN memory_map : ~(i < ofs)
  BY <1>2, <1>4
<1>8. Scanned
  <2>1. pc \notin {"mapping", "switched"} /\ pc # "switched"
    BY <1>6
  <2>2. QED BY <1>2, <1>4, <1>5, <1>7, <2>1, Zenon DEF Scanned
<1>9. Contract!SpaceInit
  BY <1>2, <1>3 DEF Contract!SpaceInit, Init
<1>10. QED BY <1>3, <1>8, <1>9 DEF PagingInv

(* Pages translated as before are the same address space. *)
LEMMA SameSpaceSame ==
  ASSUME SameSpace
  PROVE  [p \in Pages |-> Translate(p)]' = [p \in Pages |-> Translate(p)]
<1>1. \A p \in Pages : Translate(p)' = Translate(p)
  BY Zenon DEF SameSpace
<1>2. QED BY <1>1, Zenon

(* The arguments of a call are those of create_mapping: a page of its      *)
(* range is mapped, or the call ends, or nothing is seen of the step.      *)
LEMMA CreateMappingKeeps ==
  ASSUME TablesInv, create_mapping
  PROVE  TablesInv' /\ call' = call /\ [Contract!SpaceNext]_(Contract!spaceVars)
<1>1. CASE Descend \/ Populate
  <2>1. TablesInv' /\ SameSpace
    BY <1>1, DescendKeeps, PopulateKeeps
  <2>2. call' = call /\ result' = result /\ level # 0 /\ level' # 0
    <3>1. level \in 0 .. 4
      BY DEF TablesInv
    <3>2. CASE Descend
      BY <3>1, <3>2 DEF Descend
    <3>3. CASE Populate
      BY <3>1, <3>3 DEF Populate
    <3>4. QED BY <1>1, <3>2, <3>3
  <2>3. UNCHANGED Contract!spaceVars
    BY <2>1, <2>2, SameSpaceSame DEF Contract!spaceVars
  <2>4. QED BY <2>1, <2>2, <2>3
<1>2. CASE OutOfMemory
  <2>1. TablesInv' /\ SameSpace
    BY <1>2, OutOfMemoryKeeps
  <2>2. call' = call /\ result' = "panic" /\ level # 0 /\ level' = 0
    BY <1>2 DEF OutOfMemory, Walking
  <2>3. Contract!Panic
    BY <2>1, <2>2, SameSpaceSame DEF Contract!Panic
  <2>4. QED BY <2>1, <2>2, <2>3 DEF Contract!SpaceNext
<1>3. CASE SetPage
  <2>1. /\ TablesInv' /\ addr \in Contract!Range(call)
        /\ \A p \in Pages : Translate(p)' = IF p = addr THEN Contract!Wanted(call, p)
                                            ELSE Translate(p)
    BY <1>3, SetPageKeeps
  <2>2. /\ call' = call /\ result' = result /\ level # 0 /\ level' # 0
        /\ Walking
    BY <1>3 DEF SetPage, LEVELS
  <2>3. call \in Calls
    BY <2>2, NextIsPage
  <2>4. [p \in Pages |-> Translate(p)]'
        = [[p \in Pages |-> Translate(p)] EXCEPT ![addr] = Contract!Wanted(call, addr)]
    BY <2>1
  <2>5. Contract!MapPage(call, addr)
    BY <2>1, <2>2, <2>4 DEF Contract!MapPage
  <2>6. QED BY <2>1, <2>2, <2>3, <2>5 DEF Contract!SpaceNext
<1>4. CASE ReturnOk
  <2>1. /\ TablesInv' /\ SameSpace
        /\ \A p \in Contract!Range(call) : Translate(p) = Contract!Wanted(call, p)
    BY <1>4, ReturnOkKeeps
  <2>2. call' = call /\ result' = "ok" /\ level # 0 /\ level' = 0
    BY <1>4 DEF ReturnOk
  <2>3. call \in Calls
    BY <2>2 DEF TablesInv, Serving
  <2>4. \A p \in Contract!Range(call) :
          [q \in Pages |-> Translate(q)][p] = Contract!Wanted(call, p)
    BY <2>1 DEF Contract!Range
  <2>5. Contract!Finish(call)
    BY <2>1, <2>2, <2>4, SameSpaceSame DEF Contract!Finish
  <2>6. QED BY <2>1, <2>2, <2>3, <2>5 DEF Contract!SpaceNext
<1>5. QED BY <1>1, <1>2, <1>3, <1>4 DEF create_mapping

(* A call begins, or is refused, as the contract has it. *)
LEMMA CallKeeps ==
  ASSUME TablesInv, NEW c \in Calls, BeginCall(c) \/ RefuseCall(c)
  PROVE  TablesInv' /\ [Contract!SpaceNext]_(Contract!spaceVars)
<1>1. CASE BeginCall(c)
  <2>1. TablesInv' /\ SameSpace
    BY <1>1, BeginKeeps
  <2>2. /\ level = 0 /\ level' # 0 /\ Aligned(c) /\ call' = c /\ result' = "none"
    BY <1>1 DEF BeginCall, Idle, LEVELS
  <2>3. Contract!Begin(c)
    BY <2>1, <2>2, SameSpaceSame DEF Contract!Begin
  <2>4. QED BY <2>1, <2>3 DEF Contract!SpaceNext
<1>2. CASE RefuseCall(c)
  <2>1. TablesInv' /\ SameSpace
    BY <1>2, RefuseKeeps
  <2>2. level = 0 /\ level' = 0 /\ ~Aligned(c) /\ result' = "err"
    BY <1>2 DEF RefuseCall, Idle
  <2>3. Contract!Refuse(c)
    BY <2>1, <2>2, SameSpaceSame DEF Contract!Refuse
  <2>4. QED BY <2>1, <2>3 DEF Contract!SpaceNext
<1>3. QED BY <1>1, <1>2

(* Steps that leave the tables alone are not seen. *)
LEMMA TablesStay ==
  ASSUME TablesInv, UNCHANGED tableVars
  PROVE  TablesInv' /\ UNCHANGED Contract!spaceVars
<1>1. UNCHANGED <<heap, tables, root, call, addr, level, table, result>>
  BY DEF tableVars
<1>2. SameSpace
  BY <1>1, SameTables
<1>3. AsAsked'
  BY <1>1, <1>2, AsAskedStays DEF TablesInv
<1>4. Serving'
  <2>1. Walking' <=> Walking
    BY <1>1 DEF Walking
  <2>2. Aligned(call)' <=> Aligned(call)
    BY <1>1 DEF Aligned
  <2>3. QED BY <1>1, <2>1, <2>2 DEF TablesInv, Serving
<1>5. HeapFree' /\ Tree(tables', root')
  BY <1>1 DEF TablesInv, HeapFree
<1>6. UNCHANGED Contract!spaceVars
  BY <1>1, <1>2, SameSpaceSame DEF Contract!spaceVars
<1>7. QED BY <1>1, <1>3, <1>4, <1>5, <1>6 DEF TablesInv

(* The end of a descriptor is a number. *)
LEMMA DescriptorEnd ==
  ASSUME Scanned, NEW i \in DOMAIN memory_map
  PROVE  i \in Nat /\ memory_map[i].end \in Nat
<1>1. PICK R : R = [memory_type : MemoryTypes, start : Nat, end : Nat]
  OBVIOUS
<1>2. memory_map \in Seq(R)
  BY <1>1, Zenon DEF Scanned
<1>3. i \in Nat /\ memory_map[i] \in R
  BY <1>2
<1>4. QED BY <1>1, <1>3

(* The iterator passes a descriptor: end_of_mem is the end of a call that  *)
(* may be made, and no less than before nor than the descriptor's end.     *)
LEMMA NextDescriptorKeeps ==
  ASSUME PagingInv, NextDescriptor
  PROVE  Scanned'
<1>1. /\ pc = "scan" /\ ofs \in DOMAIN memory_map /\ ofs \in Nat
      /\ ofs' = ofs + 1
      /\ UNCHANGED <<memory_map, cr3, pc>>
  <2>1. pc = "scan" /\ ofs <= Len(memory_map) /\ ofs' = ofs + 1
        /\ UNCHANGED <<memory_map, cr3, pc>>
    BY DEF NextDescriptor
  <2>2. ofs \in Nat /\ memory_map \in Seq([memory_type : MemoryTypes, start : Nat, end : Nat])
    BY DEF PagingInv, Scanned
  <2>3. ofs # 0
    BY DEF PagingInv, Scanned
  <2>4. QED BY <2>1, <2>2, <2>3
<1>2. PICK d : d = memory_map[ofs]
  OBVIOUS
<1>3. /\ d.end \in Nat /\ d.end % PAGE_SIZE = 0
      /\ Used(d) => IdentityMapTo(d.end) \in Calls
  <2>1. d.end \in Nat
    BY <1>1, <1>2, DescriptorEnd DEF PagingInv
  <2>2. QED BY <1>1, <1>2, <2>1 DEF PagingInv, Scanned
<1>4. end_of_mem' = IF Used(d) THEN Larger(end_of_mem, d.end) ELSE end_of_mem
  BY <1>2 DEF NextDescriptor
<1>5. /\ end_of_mem \in Nat /\ end_of_mem % PAGE_SIZE = 0
      /\ IdentityMapTo(end_of_mem) \in Calls
  BY DEF PagingInv, Scanned, IdentityMap
<1>6. /\ end_of_mem' = end_of_mem \/ (Used(d) /\ end_of_mem' = d.end)
      /\ end_of_mem' >= end_of_mem /\ (Used(d) => end_of_mem' >= d.end)
  BY <1>3, <1>4, <1>5 DEF Larger
<1>7. /\ end_of_mem' \in Nat /\ end_of_mem' % PAGE_SIZE = 0
      /\ IdentityMapTo(end_of_mem') \in Calls
  BY <1>3, <1>5, <1>6
<1>8. ASSUME NEW i \in DOMAIN memory_map, i < ofs + 1, Used(memory_map[i])
      PROVE  memory_map[i].end <= end_of_mem'
  <2>1. i \in Nat /\ memory_map[i].end \in Nat
    BY DescriptorEnd DEF PagingInv
  <2>2. CASE i = ofs
    BY <1>2, <1>6, <1>8, <2>2
  <2>3. CASE i < ofs
    <3>1. memory_map[i].end <= end_of_mem
      BY <1>8, <2>3 DEF PagingInv, Scanned
    <3>2. QED BY <1>5, <1>6, <1>7, <2>1, <3>1
  <2>4. QED BY <1>1, <1>8, <2>1, <2>2, <2>3
<1>9. \A i \in DOMAIN memory_map' :
        i < ofs' /\ Used(memory_map'[i]) => memory_map'[i].end <= end_of_mem'
  BY <1>1, <1>8, Zenon DEF Used
<1>10. IdentityMap' \in Calls
  BY <1>7, Zenon DEF IdentityMap
<1>11. cr3 # FirmwareTables => pc = "switched"
  BY DEF PagingInv, Scanned
<1>12. /\ memory_map \in Seq([memory_type : MemoryTypes, start : Nat, end : Nat])
       /\ \A i \in DOMAIN memory_map :
            /\ memory_map[i].end % PAGE_SIZE = 0
            /\ Used(memory_map[i]) => IdentityMapTo(memory_map[i].end) \in Calls
  BY DEF PagingInv, Scanned
<1>13. QED BY <1>1, <1>7, <1>9, <1>10, <1>11, <1>12 DEF Scanned

(* A step that leaves the scan alone, once its last descriptor is passed. *)
LEMMA ScannedStays ==
  ASSUME Scanned, UNCHANGED <<memory_map, ofs, end_of_mem>>,
         pc' \in {"mapping", "switched"} =>
           ofs > Len(memory_map) /\ call' = IdentityMap,
         pc' = "switched" => result' = "ok",
         cr3' # FirmwareTables => pc' = "switched"
  PROVE  Scanned'
<1>1. IdentityMap' = IdentityMap
  BY DEF IdentityMap
<1>2. \A i \in DOMAIN memory_map : Used(memory_map[i])' = Used(memory_map[i])
  BY DEF Used
<1>3. QED BY <1>1 DEF Scanned, Used

(* The call that init_paging makes is not refused, and every step of it    *)
(* and of another caller keeps the invariant and the contract.             *)
LEMMA PagingStep ==
  ASSUME PagingInv, [Next]_vars
  PROVE  PagingInv' /\ [Contract!SpaceNext]_(Contract!spaceVars)
<1>0. TablesInv /\ Scanned
  BY DEF PagingInv
<1>1. CASE NextDescriptor
  <2>1. UNCHANGED tableVars
    BY <1>1 DEF NextDescriptor
  <2>2. QED BY <1>0, <1>1, <2>1, TablesStay, NextDescriptorKeeps DEF PagingInv
<1>2. CASE BeginMapping
  <2>1. /\ BeginCall(IdentityMap) /\ pc' = "mapping" /\ pc = "scan"
        /\ ofs > Len(memory_map)
        /\ UNCHANGED <<memory_map, ofs, end_of_mem, cr3>>
    BY <1>2 DEF BeginMapping
  <2>2. IdentityMap \in Calls
    BY <1>0 DEF Scanned
  <2>3. call' = IdentityMap
    BY <2>1 DEF BeginCall
  <2>4. cr3 # FirmwareTables => pc = "switched"
    BY <1>0 DEF Scanned
  <2>5. Scanned'
    BY <1>0, <2>1, <2>3, <2>4, ScannedStays
  <2>6. QED BY <1>0, <2>1, <2>2, <2>5, CallKeeps DEF PagingInv
<1>3. CASE Mapping
  <2>1. /\ create_mapping /\ pc = "mapping"
        /\ UNCHANGED <<memory_map, ofs, end_of_mem, cr3, pc>>
    BY <1>3 DEF Mapping
  <2>2. TablesInv' /\ call' = call /\ [Contract!SpaceNext]_(Contract!spaceVars)
    BY <1>0, <2>1, CreateMappingKeeps
  <2>3. /\ ofs > Len(memory_map) /\ call = IdentityMap
        /\ cr3 # FirmwareTables => pc = "switched"
    BY <1>0, <2>1 DEF Scanned
  <2>4. Scanned'
    BY <1>0, <2>1, <2>2, <2>3, ScannedStays
  <2>5. QED BY <2>2, <2>4 DEF PagingInv
<1>4. CASE WriteCr3 \/ MappingFails
  <2>1. /\ UNCHANGED tableVars /\ pc = "mapping"
        /\ UNCHANGED <<memory_map, ofs, end_of_mem>>
        /\ \/ pc' = "switched" /\ result = "ok"
           \/ pc' = "panic" /\ cr3' = cr3
    BY <1>4 DEF WriteCr3, MappingFails
  <2>2. call' = call /\ result' = result
    BY <2>1 DEF tableVars
  <2>3. /\ ofs > Len(memory_map) /\ call = IdentityMap
        /\ cr3 # FirmwareTables => pc = "switched"
    BY <1>0, <2>1 DEF Scanned
  <2>4. Scanned'
    BY <1>0, <2>1, <2>2, <2>3, ScannedStays
  <2>5. QED BY <1>0, <2>1, <2>4, TablesStay DEF PagingInv
<1>5. CASE OtherCaller
  <2>1. /\ pc = "other caller"
        /\ create_mapping \/ \E c \in OtherCalls : RefuseCall(c) \/ BeginCall(c)
        /\ UNCHANGED <<memory_map, ofs, end_of_mem, cr3, pc>>
    BY <1>5 DEF OtherCaller
  <2>2. cr3 # FirmwareTables => pc = "switched"
    BY <1>0 DEF Scanned
  <2>3. Scanned'
    BY <1>0, <2>1, <2>2, ScannedStays
  <2>4. CASE create_mapping
    BY <1>0, <2>3, <2>4, CreateMappingKeeps DEF PagingInv
  <2>5. ASSUME NEW c \in OtherCalls, RefuseCall(c) \/ BeginCall(c)
        PROVE  TablesInv' /\ [Contract!SpaceNext]_(Contract!spaceVars)
    <3>1. c \in Calls
      BY InitPagingAssumption
    <3>2. QED BY <1>0, <2>5, <3>1, CallKeeps
  <2>6. QED BY <2>1, <2>3, <2>4, <2>5 DEF PagingInv
<1>6. CASE UNCHANGED vars
  <2>1. UNCHANGED tableVars /\ UNCHANGED <<memory_map, ofs, end_of_mem, cr3, pc>>
    BY <1>6 DEF vars
  <2>2. call' = call /\ result' = result
    BY <2>1 DEF tableVars
  <2>3. /\ pc \in {"mapping", "switched"} => ofs > Len(memory_map) /\ call = IdentityMap
        /\ pc = "switched" => result = "ok"
        /\ cr3 # FirmwareTables => pc = "switched"
    BY <1>0 DEF Scanned
  <2>4. Scanned'
    BY <1>0, <2>1, <2>2, <2>3, ScannedStays
  <2>5. QED BY <1>0, <2>1, <2>4, TablesStay DEF PagingInv
<1>7. QED BY <1>1, <1>2, <1>3, <1>4, <1>5, <1>6 DEF Next, InitPagingStep

-----------------------------------------------------------------------------
(* The theorems.                                                           *)

(* In every reachable state the tables are a tree, the heap's frames are   *)
(* free, and the pages behind a call, and behind the scan, are dealt with. *)
THEOREM PagingInvHolds == Spec => []PagingInv
<1>1. InitPagingInit \/ OtherCallerInit => PagingInv
  BY PagingInit
<1>2. PagingInv /\ [Next]_vars => PagingInv'
  BY PagingStep
<1>3. QED BY <1>1, <1>2, PTL DEF Spec

(* TypeOK: the entries are words in whole tables, the walk stays at a      *)
(* table that exists, and the loop variable at a page or the end of the    *)
(* address space.                                                          *)
THEOREM TypesHold == Spec => []TypeOK
<1>1. PagingInv => TypeOK
  <2> SUFFICES ASSUME PagingInv PROVE TypeOK
    OBVIOUS
  <2>1. heap \in Seq(Nat)
    BY DEF PagingInv, TablesInv, HeapFree, Frame
  <2>2. /\ tables \in [DOMAIN tables -> [0 .. ENTRIES - 1 -> Nat]]
        /\ root \in DOMAIN tables
    BY Zenon DEF PagingInv, TablesInv, Tree, Typed
  <2>3. level # 0 => table \in DOMAIN tables
    BY Zenon DEF PagingInv, TablesInv, Serving
  <2>4. /\ call \in Calls \cup {NoCall}
        /\ addr \in Pages \cup {VIRT_END}
        /\ level \in 0 .. LEVELS
        /\ result \in {"none", "ok", "err", "panic"}
    BY DEF PagingInv, TablesInv, LEVELS
  <2>5. QED BY <2>1, <2>2, <2>3, <2>4, Zenon DEF TypeOK
<1>2. QED BY PagingInvHolds, <1>1, PTL

(* TableTree: whatever create_mapping is asked, and at every step of it,   *)
(* no entry leads to a frame that is not a table or back to the PML4, no   *)
(* table is entered twice or lost, and none is still the heap's.           *)
THEOREM TreeHolds == Spec => []TableTree
<1>1. PagingInv => TableTree
  <2> SUFFICES ASSUME PagingInv PROVE TableTree
    OBVIOUS
  <2>1. Tree(tables, root) /\ \A i \in DOMAIN heap : heap[i] \notin DOMAIN tables
    BY Zenon DEF PagingInv, TablesInv, HeapFree
  <2>2. QED BY <2>1, LinksOfTree, Zenon DEF TableTree
<1>2. QED BY PagingInvHolds, <1>1, PTL

(* WalkOnPath: the table that create_mapping has reached is the one that   *)
(* the processor will reach.                                               *)
THEOREM WalkOnPathHolds == Spec => []WalkOnPath
<1>1. PagingInv => WalkOnPath
  <2> SUFFICES ASSUME PagingInv, Walking PROVE table = Reached(addr)[level]
    BY DEF WalkOnPath
  <2>1. table = Path(tables, root, addr)[level]
    BY NextIsPage DEF PagingInv
  <2>2. QED BY <2>1, WalkOfTables, Zenon
<1>2. QED BY PagingInvHolds, <1>1, PTL

(* SwitchKeepsMemory: when init_paging writes cr3, all the memory in use   *)
(* is mapped to itself, wherever the descriptors lie and in whatever order *)
(* they come.                                                              *)
THEOREM MemoryKept == Spec => []SwitchKeepsMemory
<1>1. PagingInv => SwitchKeepsMemory
  <2> SUFFICES ASSUME PagingInv, cr3 # FirmwareTables,
                      NEW i \in DOMAIN memory_map, Used(memory_map[i]),
                      NEW p \in Pages, p < memory_map[i].end
               PROVE  Translate(p) = [phys |-> p, attr |-> ReadWriteKernel]
    BY Zenon DEF SwitchKeepsMemory
  <2>1. Scanned /\ AsAsked
    BY DEF PagingInv, TablesInv
  <2>2. result = "ok" /\ ofs > Len(memory_map) /\ call = IdentityMap
    BY <2>1 DEF Scanned
  <2>3. memory_map[i].end <= end_of_mem
    <3>1. PICK R : R = [memory_type : MemoryTypes, start : Nat, end : Nat]
      OBVIOUS
    <3>2. memory_map \in Seq(R) /\ ofs \in Nat
      BY <2>1, <3>1 DEF Scanned
    <3>3. i < ofs
      BY <2>2, <3>2
    <3>4. QED BY <2>1, <3>3, Zenon DEF Scanned
  <2>4. p \in Nat /\ p < end_of_mem
    <3>1. p \in Nat /\ memory_map[i].end \in Nat /\ end_of_mem \in Nat
      BY <2>1, DescriptorEnd, PagesAligned DEF Scanned
    <3>2. QED BY <2>3, <3>1
  <2>5. p \in Contract!Range(call)
    BY <2>2, <2>4 DEF Contract!Range, IdentityMap, IdentityMapTo
  <2>6. Translate(p) = Contract!Wanted(call, p)
    BY <2>1, <2>2, <2>5, Zenon DEF AsAsked
  <2>7. Contract!Wanted(call, p) = [phys |-> p, attr |-> ReadWriteKernel]
    BY <2>2, <2>4 DEF Contract!Wanted, IdentityMap, IdentityMapTo, ReadWriteKernel
  <2>8. QED BY <2>6, <2>7
<1>2. QED BY PagingInvHolds, <1>1, PTL

(* MapsAsAsked: through the processor's eyes create_mapping, called by     *)
(* init_paging or by anybody, does what AddressSpace says and no more.     *)
THEOREM ImplementsAddressSpace == Spec => MapsAsAsked
<1>1. InitPagingInit \/ OtherCallerInit => Contract!SpaceInit
  BY PagingInit
<1>2. PagingInv /\ [Next]_vars => [Contract!SpaceNext]_(Contract!spaceVars)
  BY PagingStep
<1>3. QED BY PagingInvHolds, <1>1, <1>2, PTL DEF Spec, MapsAsAsked, Contract!SpaceSpec

=============================================================================
