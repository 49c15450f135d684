----------------------------- MODULE DriveProofs -----------------------------
(***************************************************************************)
(* Lemmas about Drive for its two clients: whatever they create, items     *)
(* have ids of their own, and folders only fill up.                        *)
(***************************************************************************)
EXTENDS Drive, FiniteSetTheorems, TLAPS

\* Items are numbered by their makers.
Numbered ==
  \A i \in items : i.id[2] \in 1 .. Cardinality({k \in items : k.id[1] = i.id[1]})

SameId == \A i, k \in items : i.id = k.id => i = k

Kept == items \subseteq Item /\ IsFiniteSet(items) /\ Numbered /\ SameId

LEMMA KeptInit == items = {} => Kept
BY FS_EmptySet DEF Kept, Numbered, SameId

LEMMA KeptStays == Kept /\ UNCHANGED items => Kept'
BY DEF Kept, Numbered, SameId

LEMMA RootIsNoItem == Kept => \A i \in items : i.id # Root
<1> SUFFICES ASSUME Kept, NEW i \in items
             PROVE  i.id # Root
  OBVIOUS
<1> DEFINE n == Cardinality({k \in items : k.id[1] = i.id[1]})
<1>1. n \in Nat
  BY FS_Subset, FS_CardinalityType DEF Kept
<1>2. i.id[2] \in 1 .. n
  BY DEF Kept, Numbered
<1> HIDE DEF n
<1>3. i.id[2] # 0
  BY <1>1, <1>2
<1> QED
  BY <1>3 DEF Root

LEMMA IdsHaveNumbers ==
  ASSUME NEW c \in Clients, NEW n \in Nat
  PROVE  /\ <<c, n + 1>> \in Ids
         /\ <<c, n + 1>>[1] = c /\ <<c, n + 1>>[2] = n + 1
BY DEF Ids

\* A creation adds one item, its maker's, with an id nothing has had.
LEMMA CreateAdds ==
  ASSUME Kept, NEW c \in Clients, NEW parent \in Ids, NEW name \in Names,
         NEW kind \in {"folder", "file"}, Create(c, parent, name, kind)
  PROVE  /\ Kept' /\ NewId(c) \in Ids
         /\ \E new \in Item :
              /\ items' = items \cup {new} /\ \A i \in items : i.id # new.id
              /\ new.id = NewId(c) /\ new.id[1] = c
              /\ new.parent = parent /\ new.name = name /\ new.kind = kind
<1> DEFINE Made(d) == {k \in items : k.id[1] = d}
           n == Cardinality(Made(c))
<1>1. \A d : IsFiniteSet(Made(d)) /\ Cardinality(Made(d)) \in Nat
  BY FS_Subset, FS_CardinalityType DEF Kept
<1>2. n \in Nat /\ NewId(c) = <<c, n + 1>>
  BY <1>1 DEF NewId
<1>3. NewId(c) \in Ids /\ NewId(c)[1] = c /\ NewId(c)[2] = n + 1
  <2> HIDE DEF n
  <2> QED
    BY <1>2, IdsHaveNumbers
<1>4. PICK new \in Item : /\ items' = items \cup {new} /\ new.id = NewId(c)
                         /\ new.parent = parent /\ new.name = name /\ new.kind = kind
  <2> DEFINE rec == [id |-> NewId(c), parent |-> parent, name |-> name, kind |-> kind]
  <2>1. rec \in Item
    BY <1>3 DEF Item
  <2>2. items' = items \cup {rec}
    BY DEF Create
  <2>3. rec.id = NewId(c) /\ rec.parent = parent /\ rec.name = name /\ rec.kind = kind
    OBVIOUS
  <2> HIDE DEF rec
  <2> QED
    BY <2>1, <2>2, <2>3
<1>5. new.id[1] = c /\ new.id[2] = n + 1
  BY <1>3, <1>4
<1>6. items' \subseteq Item /\ IsFiniteSet(items')
  BY <1>4, FS_AddElement DEF Kept
<1>7. \A i \in items : i.id # new.id
  <2> SUFFICES ASSUME NEW i \in items, i.id = new.id
               PROVE  FALSE
    OBVIOUS
  <2>1. i.id[2] \in 1 .. Cardinality(Made(i.id[1]))
    BY DEF Kept, Numbered
  <2>2. i.id[1] = c /\ i.id[2] = n + 1
    BY <1>5
  <2>3. n + 1 \in 1 .. n
    BY <2>1, <2>2
  <2> HIDE DEF n
  <2> QED
    BY <1>2, <2>3
<1>8. Numbered'
  <2> DEFINE MadeThen(d) == {k \in items' : k.id[1] = d}
  <2>1. ASSUME NEW d, d # c
        PROVE  MadeThen(d) = Made(d)
    BY <1>4, <1>5, <2>1
  <2>2. MadeThen(c) = Made(c) \cup {new} /\ new \notin Made(c)
    BY <1>4, <1>5, <1>7
  <2>3. Cardinality(MadeThen(c)) = n + 1
    <3>1. IsFiniteSet(Made(c)) /\ n = Cardinality(Made(c))
      BY <1>1
    <3> HIDE DEF MadeThen, Made, n
    <3> QED
      BY <2>2, <3>1, FS_AddElement
  <2>4. \A i \in items : i.id[2] \in 1 .. Cardinality(Made(i.id[1]))
    BY DEF Kept, Numbered
  <2> HIDE DEF MadeThen, Made
  <2>5. ASSUME NEW i \in items
        PROVE  i.id[2] \in 1 .. Cardinality(MadeThen(i.id[1]))
    <3>1. CASE i.id[1] = c
      BY <1>2, <2>3, <2>4, <3>1
    <3>2. CASE i.id[1] # c
      BY <2>1, <2>4, <3>2
    <3> QED
      BY <3>1, <3>2
  <2>6. new.id[2] \in 1 .. Cardinality(MadeThen(new.id[1]))
    BY <1>2, <1>5, <2>3
  <2>7. \A i \in items' : i.id[2] \in 1 .. Cardinality(MadeThen(i.id[1]))
    BY <1>4, <2>5, <2>6
  <2> QED
    BY <2>7 DEF Numbered, MadeThen
<1>9. SameId'
  BY <1>4, <1>7 DEF Kept, SameId
<1> QED
  BY <1>3, <1>4, <1>5, <1>6, <1>7, <1>8, <1>9 DEF Kept

\* A folder that has filled up fits on a page if it does so now.
LEMMA FewerBefore ==
  ASSUME Kept, Kept', items \subseteq items', NEW f,
         Cardinality(Children(f)') <= PageSize
  PROVE  Cardinality(Children(f)) <= PageSize
<1> DEFINE before == Children(f)
           after == Children(f)'
<1>1. IsFiniteSet(after)
  BY FS_Subset DEF Kept, Children
<1>2. before \in SUBSET after
  BY DEF Children
<1>3. Cardinality(after) <= PageSize
  OBVIOUS
<1> HIDE DEF before, after
<1>4. IsFiniteSet(before) /\ Cardinality(before) <= Cardinality(after)
  BY <1>1, <1>2, FS_Subset
<1>5. Cardinality(before) \in Nat /\ Cardinality(after) \in Nat
  BY <1>1, <1>4, FS_CardinalityType
<1>6. Cardinality(before) <= PageSize
  BY <1>3, <1>4, <1>5, PageAssumption
<1> QED
  BY <1>6 DEF before
=============================================================================
