---------------------------- MODULE MemoryProofs ----------------------------
(***************************************************************************)
(* Proofs about Memory, for any number of pages, processes, segments,      *)
(* addresses and attachments.                                              *)
(***************************************************************************)
EXTENDS Memory, FiniteSetTheorems, TLAPS

\* A page that is no root table has no leaves: a table is emptied before its
\* page goes back to the pool.
DeadEmpty == \A t \in Page : t \notin Tables => leaf[t] = Empty /\ shared[t] = {}

\* Attachments belong to address spaces that are there.
AttLive == IsFiniteSet(att) /\ \A a \in att : a[2] \in Tables

\* Segments are neither tables nor each other.
SegApart ==
  \A s \in Name : /\ seg[s] \notin Tables
                  /\ \A u \in Name : seg[s] = seg[u] /\ seg[s] # None => s = u

\* The attachments of segment s.
Of(s) == {a \in att : a[1] = s}

\* A leaf with PAGE_SHARED maps the segment of an attachment at its address.
SharedAttached ==
  \A t \in Tables, v \in Va :
    v \in shared[t] => \E a \in Attached(t) : a[3] = v /\ seg[a[1]] = leaf[t][v]

\* The count of a segment, and that it is there as long as it has one.
Counted ==
  \A s \in Name : refs[s] = Cardinality(Of(s)) /\ (seg[s] # None <=> refs[s] > 0)

\* NoLeak page by page.
EachPage ==
  \A g \in Page : \/ g \in free \cup lost \cup Tables
                  \/ \E t \in Tables : \E v \in Owned(t) : leaf[t][v] = g
                  \/ \E s \in Name : seg[s] = g

\* Who owns which page.
IInv ==
  /\ TypeOK /\ DeadEmpty /\ AttLive /\ SegApart
  /\ NoUseAfterFree /\ SoleOwner /\ SharedAttached /\ Counted /\ EachPage

\* The root tables are the tables of the processes that are there.
LEMMA TablesAre ==
  ASSUME TypeOK
  PROVE  /\ Tables \subseteq Page /\ None \notin Tables
         /\ \A p \in Proc : Alive(p) => table[p] \in Tables
         /\ \A t \in Tables : \E p \in Proc : table[p] = t
  BY PageAssumption DEF TypeOK, Tables, Alive

LEMMA InitInv == Init => IInv
<1> SUFFICES ASSUME Init PROVE IInv
  OBVIOUS
<1> USE PageAssumption, NVaAssumption, AttachAssumption
<1>1. Tables = {}
  BY DEF Init, Tables
<1>2. IsFiniteSet(att) /\ Cardinality(att) = 0
  BY FS_EmptySet DEF Init
<1>3. TypeOK
  <2>1. Empty \in [Va -> Page \cup {None}]
    BY DEF Empty
  <2> QED
    BY <1>2, <2>1 DEF Init, TypeOK
<1>4. DeadEmpty
  BY DEF Init, DeadEmpty
<1>5. AttLive /\ SegApart /\ NoUseAfterFree /\ SoleOwner /\ SharedAttached
  BY <1>1, <1>2 DEF Init, AttLive, SegApart, NoUseAfterFree, SoleOwner, SharedAttached
<1>6. Counted
  <2>1. \A s \in Name : Of(s) = {}
    BY DEF Init, Of
  <2>2. \A s \in Name : Cardinality(Of(s)) = 0
    BY <2>1, FS_EmptySet, Zenon
  <2> QED
    BY <2>2 DEF Init, Counted
<1>7. EachPage
  BY DEF Init, EachPage
<1> QED
  BY <1>3, <1>4, <1>5, <1>6, <1>7 DEF IInv

\* A reservation and a thread leave the pages alone.
LEMMA MapInv ==
  ASSUME IInv, NEW p \in Proc, Map(p)
  PROVE  IInv'
<1>1. Tables' = Tables /\ free' = free /\ leaf' = leaf /\ shared' = shared /\ seg' = seg
      /\ refs' = refs /\ att' = att /\ lost' = lost
  BY DEF Map, Tables
<1>2. TypeOK'
  BY NVaAssumption DEF IInv, TypeOK, Map
<1> QED
  BY <1>1, <1>2 DEF IInv, DeadEmpty, AttLive, SegApart, NoUseAfterFree, SoleOwner, SharedAttached, Counted,
                    EachPage, Of, Attached, Owned

LEMMA ThreadInv ==
  ASSUME IInv, NEW p \in Proc, NEW c \in Proc, Thread(p, c)
  PROVE  IInv'
<1>1. Tables' = Tables
  BY DEF IInv, TypeOK, Thread, Tables, Alive
<1>2. free' = free /\ leaf' = leaf /\ shared' = shared /\ seg' = seg /\ refs' = refs /\ att' = att /\ lost' = lost
  BY DEF Thread
<1>3. TypeOK'
  BY DEF IInv, TypeOK, Thread
<1>4. EachPage'
  BY <1>1, <1>2 DEF IInv, EachPage, Owned
<1> QED
  BY <1>1, <1>2, <1>3, <1>4 DEF IInv, DeadEmpty, AttLive, SegApart, NoUseAfterFree, SoleOwner, SharedAttached, Counted,
                    Of, Attached, Owned

\* A page that comes from the pool is in nobody's use.
LEMMA FreshPage ==
  ASSUME IInv, NEW i \in free
  PROVE  /\ i \in Page /\ i # None /\ i \notin Tables
         /\ \A s \in Name : seg[s] # i
         /\ \A t \in Tables, v \in Va : leaf[t][v] # i
         /\ leaf[i] = Empty /\ shared[i] = {}
         /\ \A a \in att : a[2] # i
  BY PageAssumption DEF IInv, TypeOK, NoUseAfterFree, DeadEmpty, AttLive

\* The image of a new process and its table come from the pool.
LEMMA SpawnInv ==
  ASSUME IInv, NEW p \in Proc, NEW r \in Page, NEW i \in Page, Spawn(p, r, i)
  PROVE  IInv'
<1> USE DEF IInv
<1>1. r \in free /\ i \in free /\ r # i
  BY DEF Spawn
<1>2. Tables' = Tables \cup {r}
  BY PageAssumption DEF TypeOK, Spawn, Tables, Alive
<1>3. 0 \in Va
  BY NVaAssumption DEF Va
<1>4. /\ \A t \in Page : t # r => leaf'[t] = leaf[t]
      /\ \A v \in Va : leaf'[r][v] = IF v = 0 THEN i ELSE None
      /\ leaf'[r] \in [Va -> Page \cup {None}]
  <2> DEFINE E == [Empty EXCEPT ![0] = i]
  <2>1. E \in [Va -> Page \cup {None}] /\ \A v \in Va : E[v] = IF v = 0 THEN i ELSE None
    BY <1>3 DEF Empty
  <2>2. leaf' = [leaf EXCEPT ![r] = E]
    BY DEF Spawn
  <2> HIDE DEF E
  <2> QED
    BY <2>1, <2>2 DEF TypeOK
<1>5. free' = free \ {r, i} /\ UNCHANGED <<shared, seg, refs, att, lost>>
  BY DEF Spawn, Without
<1>6. TypeOK'
  <2>1. leaf' \in [Page -> [Va -> Page \cup {None}]]
    BY <1>4 DEF TypeOK, Spawn
  <2>2. table' \in [Proc -> Page \cup {None}] /\ top' \in [Proc -> 0 .. NVa]
    BY NVaAssumption DEF TypeOK, Spawn
  <2> QED
    BY <1>5, <2>1, <2>2 DEF TypeOK
<1>7. DeadEmpty'
  BY <1>2, <1>4, <1>5 DEF DeadEmpty, TypeOK
<1>8. AttLive' /\ Counted'
  BY <1>2, <1>5 DEF AttLive, Counted, Of
<1>9. SegApart'
  BY <1>1, <1>2, <1>5, FreshPage DEF SegApart
<1>10. NoUseAfterFree'
  BY <1>1, <1>2, <1>4, <1>5, TablesAre, PageAssumption DEF NoUseAfterFree, TypeOK
<1>11. \A t \in Tables : Owned(t)' = Owned(t)
  BY <1>1, <1>4, <1>5, TablesAre, FreshPage DEF Owned
<1>12. Owned(r)' = {0}
  BY <1>1, <1>3, <1>4, <1>5, FreshPage DEF Owned
<1>13. SoleOwner'
  BY <1>1, <1>2, <1>3, <1>4, <1>5, <1>11, <1>12, TablesAre, FreshPage, PageAssumption DEF SoleOwner, Owned
<1>14. SharedAttached'
  BY <1>1, <1>2, <1>4, <1>5, FreshPage, TablesAre DEF SharedAttached, Attached
<1>15. EachPage'
  <2> SUFFICES ASSUME NEW g \in Page, g \notin free', g \notin lost, g \notin Tables',
                      \A n \in Name : seg[n] # g
               PROVE  \E u \in Tables' : \E w \in Owned(u)' : leaf'[u][w] = g
    BY <1>5 DEF EachPage
  <2>1. CASE g = i
    BY <1>2, <1>3, <1>4, <1>12, <2>1
  <2>2. CASE g # i
    <3>1. PICK u \in Tables : \E w \in Owned(u) : leaf[u][w] = g
      BY <1>2, <1>5, <2>2 DEF EachPage
    <3> QED
      BY <1>1, <1>2, <1>4, <1>11, <3>1, TablesAre, FreshPage DEF Owned
  <2> QED
    BY <2>1, <2>2
<1> QED
  BY <1>6, <1>7, <1>8, <1>9, <1>10, <1>13, <1>14, <1>15

\* A segment that is attached somewhere is there.
LEMMA AttachedSeg ==
  ASSUME TypeOK, AttLive, Counted
  PROVE  /\ \A s \in Name : IsFiniteSet(Of(s)) /\ (seg[s] # None <=> Of(s) # {})
         /\ \A a \in att : a[1] \in Name /\ a[2] \in Page /\ a[3] \in Va /\ seg[a[1]] \in Page
<1>1. ASSUME NEW s \in Name
      PROVE  IsFiniteSet(Of(s)) /\ (seg[s] # None <=> Of(s) # {})
  <2>1. IsFiniteSet(Of(s))
    BY FS_Subset DEF Of, AttLive
  <2>2. Cardinality(Of(s)) \in Nat /\ (Cardinality(Of(s)) = 0 <=> Of(s) = {})
    BY <2>1, FS_EmptySet, FS_CardinalityType
  <2>3. seg[s] # None <=> Cardinality(Of(s)) > 0
    BY DEF Counted
  <2>4. seg[s] # None <=> Cardinality(Of(s)) # 0
    BY <2>2, <2>3
  <2> QED
    BY <2>1, <2>2, <2>4, Zenon
<1>2. ASSUME NEW a \in att
      PROVE  a[1] \in Name /\ a[2] \in Page /\ a[3] \in Va /\ seg[a[1]] \in Page
  <2>1. a[1] \in Name /\ a[2] \in Page /\ a[3] \in Va
    BY DEF TypeOK
  <2>2. a \in Of(a[1])
    BY DEF Of
  <2> QED
    BY <1>1, <2>1, <2>2 DEF TypeOK
<1> QED
  BY <1>1, <1>2

\* A leaf with PAGE_SHARED maps a page, which is a segment's.
LEMMA SharedMapped ==
  ASSUME IInv, NEW t \in Tables, NEW v \in shared[t]
  PROVE  v \in Va /\ leaf[t][v] # None /\ \E s \in Name : seg[s] = leaf[t][v]
<1>1. v \in Va
  BY TablesAre DEF IInv, TypeOK
<1> QED
  BY <1>1, AttachedSeg, PageAssumption DEF IInv, SharedAttached, Attached

\* A page fault maps a page from the pool where nothing was mapped.
LEMMA TouchInv ==
  ASSUME IInv, NEW p \in Proc, NEW v \in Va, NEW i \in Page, Touch(p, v, i)
  PROVE  IInv'
<1> USE DEF IInv
<1> DEFINE t == table[p]
<1>1. i \in free /\ t \in Tables /\ t \in Page /\ leaf[t][v] = None
  BY TablesAre DEF Touch, Untouched, Alive
<1>2. Tables' = Tables
  BY DEF Touch, Tables
<1>3. /\ leaf' \in [Page -> [Va -> Page \cup {None}]]
      /\ \A u \in Page, w \in Va : leaf'[u][w] = IF u = t /\ w = v THEN i ELSE leaf[u][w]
      /\ \A u \in Page : u # t => leaf'[u] = leaf[u]
  BY <1>1 DEF Touch, Mapped, TypeOK
<1>4. free' = free \ {i} /\ UNCHANGED <<table, top, shared, seg, refs, att, lost>>
  BY DEF Touch, Without
<1> HIDE DEF t
<1>5. TypeOK'
  BY <1>3, <1>4 DEF TypeOK
<1>6. DeadEmpty'
  BY <1>1, <1>2, <1>3, <1>4 DEF DeadEmpty
<1>7. AttLive' /\ Counted' /\ SegApart'
  BY <1>2, <1>4 DEF AttLive, Counted, Of, SegApart
<1>8. NoUseAfterFree'
  BY <1>1, <1>2, <1>3, <1>4, TablesAre DEF NoUseAfterFree
<1>9. v \notin shared[t]
  BY <1>1, SharedMapped
<1>10. \A u \in Tables : Owned(u)' = IF u = t THEN Owned(t) \cup {v} ELSE Owned(u)
  BY <1>1, <1>3, <1>4, <1>9, TablesAre, PageAssumption DEF Owned
<1>11. \A u \in Tables : \A w \in Owned(u) : w \in Va /\ leaf'[u][w] = leaf[u][w] /\ leaf[u][w] # None
  BY <1>1, <1>3, TablesAre DEF Owned
<1>12. SoleOwner'
  <2> SUFFICES ASSUME NEW u \in Tables, NEW w \in Owned(u)'
               PROVE  /\ \A u2 \in Tables, w2 \in Va : leaf'[u2][w2] = leaf'[u][w] => u2 = u /\ w2 = w
                      /\ leaf'[u][w] \notin Tables /\ \A s \in Name : seg[s] # leaf'[u][w]
    BY <1>2, <1>4 DEF SoleOwner
  <2>1. CASE u = t /\ w = v
    BY <1>1, <1>3, <2>1, FreshPage, TablesAre
  <2>2. CASE ~(u = t /\ w = v)
    <3>1. w \in Owned(u)
      BY <1>10, <2>2
    <3> QED
      BY <1>1, <1>3, <1>11, <3>1, FreshPage, TablesAre DEF SoleOwner
  <2> QED
    BY <2>1, <2>2
<1>13. SharedAttached'
  BY <1>2, <1>3, <1>4, <1>9, TablesAre DEF SharedAttached, Attached
<1>14. EachPage'
  BY <1>1, <1>2, <1>3, <1>4, <1>10, <1>11, TablesAre DEF EachPage
<1> QED
  BY <1>5, <1>6, <1>7, <1>8, <1>12, <1>13, <1>14

\* seg_unref of the attachments in gone, all of them of this table: the segments
\* that lose their last attachment go, and no others.
LEMMA UnrefKeeps ==
  ASSUME TypeOK, AttLive, Counted, NEW gone \in SUBSET att, Unref(gone)
  PROVE  /\ seg' \in [Name -> Page \cup {None}] /\ refs' \in [Name -> Nat]
         /\ att' \subseteq Name \X Page \X Va /\ IsFiniteSet(att') /\ Cardinality(att') <= AttachMax
         /\ Counted'
         /\ \A s \in Name : \/ s \notin Orphans(gone) /\ seg'[s] = seg[s]
                            \/ s \in Orphans(gone) /\ seg'[s] = None /\ Of(s) \subseteq gone /\ Of(s) # {} /\ seg[s] # None
<1>1. att' = att \ gone /\ IsFiniteSet(att) /\ IsFiniteSet(att')
  BY FS_Subset DEF Unref, AttLive
<1>2. Cardinality(att') <= Cardinality(att) /\ Cardinality(att) \in Nat /\ Cardinality(att') \in Nat
  BY <1>1, FS_Subset, FS_CardinalityType
<1>3. ASSUME NEW s \in Name
      PROVE  /\ seg'[s] \in Page \cup {None} /\ refs'[s] \in Nat
             /\ refs'[s] = Cardinality(Of(s)') /\ (seg'[s] # None <=> refs'[s] > 0)
             /\ \/ s \notin Orphans(gone) /\ seg'[s] = seg[s]
                \/ s \in Orphans(gone) /\ seg'[s] = None /\ Of(s) \subseteq gone /\ Of(s) # {} /\ seg[s] # None
  <2> DEFINE G == {a \in gone : a[1] = s}
  <2>1. G \in SUBSET Of(s) /\ IsFiniteSet(Of(s))
    BY AttachedSeg DEF Of
  <2>2. /\ Cardinality(G) \in Nat /\ Cardinality(Of(s)) \in Nat
        /\ Cardinality(G) <= Cardinality(Of(s)) /\ (Cardinality(G) = Cardinality(Of(s)) => Of(s) = G)
        /\ IsFiniteSet(G) /\ (Cardinality(G) = 0 <=> G = {})
    BY <2>1, FS_Subset, FS_CardinalityType, FS_EmptySet
  <2>3. Of(s)' = Of(s) \ G
    BY <1>1 DEF Of
  <2>4. Of(s) \cap G = G
    BY <2>1
  <2>5. Cardinality(Of(s)') = Cardinality(Of(s)) - Cardinality(G)
    <3>1. Cardinality(Of(s) \ G) = Cardinality(Of(s)) - Cardinality(Of(s) \cap G)
      BY <2>1, FS_Difference
    <3> QED
      BY <2>3, <2>4, <3>1, Zenon
  <2>6. Drops(s, gone) = Cardinality(G)
    BY DEF Drops
  <2>7. /\ refs[s] = Cardinality(Of(s)) /\ (seg[s] # None <=> refs[s] > 0)
        /\ seg[s] \in Page \cup {None}
    BY DEF Counted, TypeOK
  <2>8. s \in Orphans(gone) <=> Drops(s, gone) > 0 /\ refs[s] - Drops(s, gone) <= 0
    BY DEF Orphans
  <2>9. /\ seg'[s] = IF s \in Orphans(gone) THEN None ELSE seg[s]
        /\ refs'[s] = IF s \in Orphans(gone) THEN 0 ELSE refs[s] - Drops(s, gone)
    BY DEF Unref
  <2> HIDE DEF G
  <2>10. CASE s \in Orphans(gone)
    <3>1. Cardinality(G) = Cardinality(Of(s)) /\ Cardinality(G) # 0 /\ refs[s] > 0
      BY <2>2, <2>6, <2>7, <2>8, <2>10
    <3>2. Of(s) = G /\ G # {}
      BY <2>2, <3>1, Zenon
    <3>3. Of(s) \subseteq gone /\ Of(s) # {}
      BY <3>2 DEF G
    <3> QED
      BY <2>2, <2>5, <2>7, <2>9, <2>10, <3>1, <3>3
  <2>11. CASE s \notin Orphans(gone)
    BY <2>2, <2>5, <2>6, <2>7, <2>8, <2>9, <2>11
  <2> QED
    BY <2>10, <2>11
<1>4. seg' \in [Name -> Page \cup {None}] /\ refs' \in [Name -> Nat]
  BY <1>3 DEF Unref
<1>5. Counted'
  BY <1>3 DEF Counted
<1>6. att' \subseteq Name \X Page \X Va /\ Cardinality(att') <= AttachMax
  BY <1>1, <1>2, AttachAssumption DEF TypeOK
<1> QED
  BY <1>1, <1>3, <1>4, <1>5, <1>6

\* An attachment maps the segment's page, or one from the pool, over whatever is
\* at the top of the heap.
LEMMA AttachInv ==
  ASSUME IInv, NEW p \in Proc, NEW s \in Name, NEW i \in Page, Attach(p, s, i)
  PROVE  IInv'
<1> USE DEF IInv
<1> DEFINE t == table[p]
           v == top[p]
           e == <<s, t, v>>
<1>1. /\ t \in Tables /\ t \in Page /\ v \in Va /\ v + 1 \in 0 .. NVa
      /\ \A a \in Attached(t) : a[1] # s
      /\ Cardinality(att) < AttachMax /\ i # None
  BY TablesAre, NVaAssumption, PageAssumption DEF Attach, Alive, TypeOK, Va
<1>2. IF seg[s] = None THEN i \in free ELSE i = seg[s]
  BY DEF Attach
<1>3. /\ i \notin Tables /\ \A u \in Name : u # s => seg[u] # i
      /\ \A u \in Tables, w \in Va : leaf[u][w] = i => w \in shared[u]
  <2>1. CASE seg[s] = None
    BY <1>2, <2>1, FreshPage
  <2>2. CASE seg[s] # None
    BY <1>1, <1>2, <2>2 DEF SegApart, SoleOwner, Owned
  <2> QED
    BY <2>1, <2>2
<1>4. Tables' = Tables
  BY DEF Attach, Tables
<1>5. /\ free' = free \ {i} /\ att' = att \cup {e} /\ table' = table
      /\ seg' = [seg EXCEPT ![s] = i] /\ refs' = [refs EXCEPT ![s] = @ + 1]
      /\ top' = [top EXCEPT ![p] = v + 1]
      /\ shared' = [shared EXCEPT ![t] = @ \cup {v}]
      /\ lost' = lost \cup LostAt(t, v)
      /\ leaf' = [leaf EXCEPT ![t][v] = i]
  BY DEF Attach, Without, Mapped
<1>6. e[1] = s /\ e[2] = t /\ e[3] = v /\ e \in Name \X Page \X Va /\ e \notin att
  BY <1>1 DEF Attached
<1> HIDE DEF t, v, e
<1>7. /\ leaf' \in [Page -> [Va -> Page \cup {None}]]
      /\ \A u \in Page, w \in Va : leaf'[u][w] = IF u = t /\ w = v THEN i ELSE leaf[u][w]
      /\ \A u \in Page : u # t => leaf'[u] = leaf[u]
  BY <1>1, <1>5 DEF TypeOK
<1>8. /\ shared' \in [Page -> SUBSET Va]
      /\ \A u \in Page : shared'[u] = IF u = t THEN shared[t] \cup {v} ELSE shared[u]
  BY <1>1, <1>5 DEF TypeOK
<1>9. IsFiniteSet(att') /\ Cardinality(att') <= AttachMax
  <2>1. Cardinality(att \cup {e}) = Cardinality(att) + 1 /\ IsFiniteSet(att \cup {e})
    BY <1>6, FS_AddElement DEF AttLive
  <2> QED
    BY <1>1, <1>5, <2>1, FS_CardinalityType, AttachAssumption DEF AttLive
<1>10. LostAt(t, v) \subseteq Page
  BY <1>1 DEF LostAt, Owned, TypeOK
<1>11. TypeOK'
  <2>1. seg' \in [Name -> Page \cup {None}] /\ refs' \in [Name -> Nat] /\ top' \in [Proc -> 0 .. NVa]
    BY <1>1, <1>5 DEF TypeOK
  <2>2. free' \subseteq Page /\ lost' \subseteq Page /\ table' \in [Proc -> Page \cup {None}]
    BY <1>5, <1>10 DEF TypeOK
  <2>3. att' \subseteq Name \X Page \X Va
    BY <1>5, <1>6 DEF TypeOK
  <2> QED
    BY <1>7, <1>8, <1>9, <2>1, <2>2, <2>3 DEF TypeOK
<1>12. DeadEmpty'
  BY <1>1, <1>4, <1>7, <1>8 DEF DeadEmpty
<1>13. AttLive'
  BY <1>1, <1>4, <1>5, <1>6, <1>9 DEF AttLive
<1>14. \A u \in Name : seg'[u] = IF u = s THEN i ELSE seg[u]
  BY <1>5 DEF TypeOK
<1>15. SegApart'
  BY <1>3, <1>4, <1>14 DEF SegApart
<1>16. NoUseAfterFree'
  BY <1>1, <1>4, <1>5, <1>7, <1>14, TablesAre DEF NoUseAfterFree
<1>17. \A u \in Tables : Owned(u)' = IF u = t THEN Owned(t) \ {v} ELSE Owned(u)
  BY <1>1, <1>7, <1>8, TablesAre DEF Owned
<1>18. SoleOwner'
  <2> SUFFICES ASSUME NEW u \in Tables, NEW w \in Owned(u)'
               PROVE  /\ \A u2 \in Tables, w2 \in Va : leaf'[u2][w2] = leaf'[u][w] => u2 = u /\ w2 = w
                      /\ leaf'[u][w] \notin Tables /\ \A n \in Name : seg'[n] # leaf'[u][w]
    BY <1>4 DEF SoleOwner
  <2>1. w \in Owned(u) /\ w \in Va /\ leaf'[u][w] = leaf[u][w] /\ leaf[u][w] # i
    BY <1>1, <1>3, <1>7, <1>17, TablesAre DEF Owned
  <2> QED
    BY <1>1, <1>7, <1>14, <2>1, TablesAre DEF SoleOwner
<1>19. SharedAttached'
  <2> SUFFICES ASSUME NEW u \in Tables, NEW w \in Va, w \in shared'[u]
               PROVE  \E a \in att' : a[2] = u /\ a[3] = w /\ seg'[a[1]] = leaf'[u][w]
    BY <1>4 DEF SharedAttached, Attached
  <2>1. CASE u = t /\ w = v
    BY <1>1, <1>5, <1>6, <1>7, <1>14, <2>1
  <2>2. CASE ~(u = t /\ w = v)
    <3>1. PICK a \in att : a[2] = u /\ a[3] = w /\ seg[a[1]] = leaf[u][w]
      BY <1>8, <2>2, TablesAre DEF SharedAttached, Attached
    <3>2. a[1] \in Name /\ seg[a[1]] # None
      BY AttachedSeg, PageAssumption
    <3>3. seg'[a[1]] = leaf'[u][w]
      BY <1>2, <1>7, <1>14, <2>2, <3>1, <3>2, TablesAre
    <3> QED
      BY <1>5, <3>1, <3>3
  <2> QED
    BY <2>1, <2>2
<1>20. Counted'
  <2> SUFFICES ASSUME NEW u \in Name
               PROVE  refs'[u] = Cardinality(Of(u)') /\ (seg'[u] # None <=> refs'[u] > 0)
    BY DEF Counted
  <2>1. CASE u = s
    <3>1. Of(s)' = Of(s) \cup {e} /\ e \notin Of(s)
      BY <1>5, <1>6 DEF Of
    <3>2. IsFiniteSet(Of(s))
      BY AttachedSeg
    <3>3. Cardinality(Of(s) \cup {e}) = Cardinality(Of(s)) + 1 /\ Cardinality(Of(s)) \in Nat
      BY <3>1, <3>2, FS_AddElement, FS_CardinalityType
    <3>4. Cardinality(Of(s)') = Cardinality(Of(s) \cup {e})
      BY <3>1, Zenon
    <3>5. refs'[s] = refs[s] + 1 /\ refs[s] = Cardinality(Of(s))
      BY <1>5 DEF TypeOK, Counted
    <3> QED
      BY <1>1, <1>14, <2>1, <3>3, <3>4, <3>5
  <2>2. CASE u # s
    <3>1. Of(u)' = Of(u)
      BY <1>5, <1>6, <2>2 DEF Of
    <3>2. refs'[u] = refs[u] /\ seg'[u] = seg[u]
      BY <1>5, <2>2 DEF TypeOK
    <3>3. refs[u] = Cardinality(Of(u)) /\ (seg[u] # None <=> refs[u] > 0)
      BY DEF Counted
    <3>4. Cardinality(Of(u)') = Cardinality(Of(u))
      BY <3>1, Zenon
    <3> QED
      BY <3>2, <3>3, <3>4
  <2> QED
    BY <2>1, <2>2
<1>21. EachPage'
  <2> SUFFICES ASSUME NEW g \in Page, g \notin free', g \notin lost', g \notin Tables,
                      \A n \in Name : seg'[n] # g
               PROVE  \E u \in Tables : \E w \in Owned(u)' : leaf'[u][w] = g
    BY <1>4 DEF EachPage
  <2>1. g # i /\ g \notin free /\ g \notin lost
    BY <1>5, <1>14
  <2>2. \A n \in Name : seg[n] # g
    BY <1>2, <1>14, <2>1, PageAssumption
  <2>3. PICK u \in Tables : \E w \in Owned(u) : leaf[u][w] = g
    BY <2>1, <2>2 DEF EachPage
  <2>4. PICK w \in Owned(u) : leaf[u][w] = g
    BY <2>3
  <2>5. ~(u = t /\ w = v)
    BY <1>5, <2>4 DEF LostAt
  <2> QED
    BY <1>7, <1>17, <2>4, <2>5, TablesAre DEF Owned
<1> QED
  BY <1>11, <1>12, <1>13, <1>15, <1>16, <1>18, <1>19, <1>20, <1>21

\* The page of a segment that goes was mapped by the attachments that go, and by
\* nothing else; a segment that is still attached stays.
LEMMA Orphaned ==
  ASSUME IInv, NEW gone \in SUBSET att, Unref(gone)
  PROVE  /\ \A g \in OrphanPages(gone) :
              /\ g \in Page /\ g \notin Tables /\ \A s \in Name : seg'[s] # g
              /\ \A u \in Tables, w \in Va :
                   leaf[u][w] = g => w \in shared[u] /\ \E b \in gone : b[2] = u /\ b[3] = w
         /\ \A s \in Name : /\ seg'[s] = seg[s] \/ seg'[s] = None
                            /\ seg'[s] # seg[s] => seg[s] \in OrphanPages(gone)
         /\ \A b \in att \ gone : seg'[b[1]] = seg[b[1]]
         /\ SegApart' \/ Tables' # Tables
<1> USE DEF IInv
<1>1. \A s \in Name : \/ s \notin Orphans(gone) /\ seg'[s] = seg[s]
                      \/ s \in Orphans(gone) /\ seg'[s] = None /\ Of(s) \subseteq gone /\ seg[s] # None
  BY UnrefKeeps
<1>2. ASSUME NEW g \in OrphanPages(gone)
      PROVE  /\ g \in Page /\ g \notin Tables /\ \A s \in Name : seg'[s] # g
             /\ \A u \in Tables, w \in Va :
                  leaf[u][w] = g => w \in shared[u] /\ \E b \in gone : b[2] = u /\ b[3] = w
  <2>1. PICK s \in Orphans(gone) : g = seg[s]
    BY DEF OrphanPages
  <2>2. s \in Name /\ seg'[s] = None /\ Of(s) \subseteq gone /\ g # None
    BY <1>1, <2>1 DEF Orphans
  <2>3. g \in Page /\ g \notin Tables
    BY <2>1, <2>2 DEF TypeOK, SegApart
  <2>4. \A n \in Name : seg'[n] # g
    BY <1>1, <2>1, <2>2 DEF SegApart
  <2>5. ASSUME NEW u \in Tables, NEW w \in Va, leaf[u][w] = g
        PROVE  w \in shared[u] /\ \E b \in gone : b[2] = u /\ b[3] = w
    <3>1. w \in shared[u]
      BY <2>1, <2>2, <2>5 DEF SoleOwner, Owned
    <3>2. PICK b \in att : b[2] = u /\ b[3] = w /\ seg[b[1]] = g
      BY <2>5, <3>1 DEF SharedAttached, Attached
    <3>3. b[1] = s
      BY <2>1, <2>2, <3>2, AttachedSeg DEF SegApart
    <3> QED
      BY <2>2, <3>1, <3>2, <3>3 DEF Of
  <2> QED
    BY <2>3, <2>4, <2>5
<1>3. \A s \in Name : /\ seg'[s] = seg[s] \/ seg'[s] = None
                      /\ seg'[s] # seg[s] => seg[s] \in OrphanPages(gone)
  BY <1>1 DEF OrphanPages
<1>4. \A b \in att \ gone : seg'[b[1]] = seg[b[1]]
  BY <1>1, AttachedSeg DEF Of
<1>5. SegApart' \/ Tables' # Tables
  BY <1>3, PageAssumption, TablesAre DEF SegApart
<1> QED
  BY <1>2, <1>3, <1>4, <1>5

\* Detaching a segment clears the leaf at the address of the attachment.
LEMMA DetachInv ==
  ASSUME IInv, NEW p \in Proc, NEW a \in att, Detach(p, a)
  PROVE  IInv'
<1> USE DEF IInv
<1> DEFINE t == table[p]
           v == a[3]
           gone == {a}
<1>1. /\ t \in Tables /\ t \in Page /\ v \in Va /\ a[2] = t
      /\ gone \in SUBSET att /\ Unref(gone)
  BY TablesAre, AttachedSeg DEF Detach, Attached, Alive
<1>2. Tables' = Tables
  BY DEF Detach, Tables
<1>3. /\ free' = free \cup OrphanPages(gone) /\ lost' = lost \cup LostAt(t, v)
      /\ table' = table /\ top' = top /\ att' = att \ gone
  BY DEF Detach, With, Unref
<1>4. /\ leaf' \in [Page -> [Va -> Page \cup {None}]]
      /\ \A u \in Page, w \in Va : leaf'[u][w] = IF u = t /\ w = v THEN None ELSE leaf[u][w]
      /\ \A u \in Page : u # t => leaf'[u] = leaf[u]
  BY <1>1 DEF TypeOK, Detach
<1>5. /\ shared' \in [Page -> SUBSET Va]
      /\ \A u \in Page : shared'[u] = IF u = t THEN shared[t] \ {v} ELSE shared[u]
  BY <1>1 DEF TypeOK, Detach
<1>6. /\ seg' \in [Name -> Page \cup {None}] /\ refs' \in [Name -> Nat] /\ Counted'
      /\ att' \subseteq Name \X Page \X Va /\ IsFiniteSet(att') /\ Cardinality(att') <= AttachMax
  BY <1>1, UnrefKeeps
<1>7. \A b \in gone : b = a
  OBVIOUS
<1> HIDE DEF t, v, gone
<1>8. /\ \A g \in OrphanPages(gone) :
           /\ g \in Page /\ g \notin Tables /\ \A s \in Name : seg'[s] # g
           /\ \A u \in Tables, w \in Va :
                leaf[u][w] = g => w \in shared[u] /\ \E b \in gone : b[2] = u /\ b[3] = w
      /\ \A s \in Name : /\ seg'[s] = seg[s] \/ seg'[s] = None
                         /\ seg'[s] # seg[s] => seg[s] \in OrphanPages(gone)
      /\ \A b \in att \ gone : seg'[b[1]] = seg[b[1]]
      /\ SegApart'
  BY <1>1, <1>2, Orphaned
<1>9. TypeOK'
  <2>1. free' \subseteq Page /\ lost' \subseteq Page
    BY <1>1, <1>3, <1>8 DEF TypeOK, LostAt, Owned
  <2> QED
    BY <1>3, <1>4, <1>5, <1>6, <2>1 DEF TypeOK
<1>10. DeadEmpty' /\ AttLive'
  BY <1>1, <1>2, <1>3, <1>4, <1>5, <1>6 DEF DeadEmpty, AttLive
<1>11. NoUseAfterFree'
  <2>1. \A u \in Tables : u \notin free' /\ \A w \in Va : leaf'[u][w] \notin free'
    BY <1>1, <1>3, <1>4, <1>7, <1>8, TablesAre, PageAssumption DEF NoUseAfterFree, TypeOK, v
  <2>2. \A s \in Name : seg'[s] \notin free'
    BY <1>3, <1>8, PageAssumption DEF NoUseAfterFree, TypeOK
  <2> QED
    BY <1>2, <2>1, <2>2 DEF NoUseAfterFree
<1>12. \A u \in Tables : Owned(u)' = IF u = t THEN Owned(t) \ {v} ELSE Owned(u)
  BY <1>1, <1>4, <1>5, TablesAre DEF Owned
<1>13. SoleOwner'
  <2> SUFFICES ASSUME NEW u \in Tables, NEW w \in Owned(u)'
               PROVE  /\ \A u2 \in Tables, w2 \in Va : leaf'[u2][w2] = leaf'[u][w] => u2 = u /\ w2 = w
                      /\ leaf'[u][w] \notin Tables /\ \A n \in Name : seg'[n] # leaf'[u][w]
    BY <1>2 DEF SoleOwner
  <2>1. w \in Owned(u) /\ w \in Va /\ leaf'[u][w] = leaf[u][w] /\ leaf[u][w] # None
    BY <1>1, <1>4, <1>12, TablesAre DEF Owned
  <2> QED
    BY <1>1, <1>4, <1>8, <2>1, TablesAre DEF SoleOwner
<1>14. SharedAttached'
  <2> SUFFICES ASSUME NEW u \in Tables, NEW w \in Va, w \in shared'[u]
               PROVE  \E b \in att' : b[2] = u /\ b[3] = w /\ seg'[b[1]] = leaf'[u][w]
    BY <1>2 DEF SharedAttached, Attached
  <2>1. PICK b \in att : b[2] = u /\ b[3] = w /\ seg[b[1]] = leaf[u][w]
    BY <1>5, TablesAre DEF SharedAttached, Attached
  <2>2. ~(u = t /\ w = v)
    BY <1>1, <1>5, TablesAre
  <2>3. b \notin gone
    BY <1>1, <1>7, <2>1, <2>2 DEF v
  <2> QED
    BY <1>3, <1>4, <1>8, <2>1, <2>2, <2>3, TablesAre
<1>15. EachPage'
  <2> SUFFICES ASSUME NEW g \in Page, g \notin free', g \notin lost', g \notin Tables,
                      \A n \in Name : seg'[n] # g
               PROVE  \E u \in Tables : \E w \in Owned(u)' : leaf'[u][w] = g
    BY <1>2 DEF EachPage
  <2>1. g \notin free /\ g \notin lost /\ \A n \in Name : seg[n] # g
    BY <1>3, <1>8
  <2>2. PICK u \in Tables : \E w \in Owned(u) : leaf[u][w] = g
    BY <2>1 DEF EachPage
  <2>3. PICK w \in Owned(u) : leaf[u][w] = g
    BY <2>2
  <2>4. ~(u = t /\ w = v)
    BY <1>3, <2>3 DEF LostAt
  <2> QED
    BY <1>4, <1>12, <2>3, <2>4, TablesAre DEF Owned
<1> QED
  BY <1>6, <1>8, <1>9, <1>10, <1>11, <1>13, <1>14, <1>15

\* The private pages of an address space are pages, and nobody else's.
LEMMA OwnPages ==
  ASSUME IInv, NEW t \in Tables, NEW g \in OwnedPages(t)
  PROVE  /\ g \in Page /\ g \notin Tables /\ \A s \in Name : seg[s] # g
         /\ \A u \in Tables, w \in Va : leaf[u][w] = g => u = t
  BY TablesAre DEF IInv, OwnedPages, Owned, SoleOwner, TypeOK

\* exec empties the address space of p, keeps its table, and maps the new image.
LEMMA ExecInv ==
  ASSUME IInv, NEW p \in Proc, NEW i \in Page, Exec(p, i)
  PROVE  IInv'
<1> USE DEF IInv
<1> DEFINE t == table[p]
           gone == Attached(t)
<1>1. /\ t \in Tables /\ t \in Page /\ i \in free /\ 0 \in Va
      /\ gone \in SUBSET att /\ Unref(gone)
  BY TablesAre, NVaAssumption DEF Exec, Attached, Alive, Va
<1>2. Tables' = Tables
  BY DEF Exec, Tables
<1>3. /\ free' = (free \cup OwnedPages(t) \cup OrphanPages(gone)) \ {i} /\ lost' = lost
      /\ table' = table /\ top' = [top EXCEPT ![p] = 1] /\ att' = att \ gone
  BY DEF Exec, With, Unref
<1>4. /\ leaf' \in [Page -> [Va -> Page \cup {None}]]
      /\ \A w \in Va : leaf'[t][w] = IF w = 0 THEN i ELSE None
      /\ \A u \in Page : u # t => leaf'[u] = leaf[u]
  <2> DEFINE E == [Empty EXCEPT ![0] = i]
  <2>1. E \in [Va -> Page \cup {None}] /\ \A w \in Va : E[w] = IF w = 0 THEN i ELSE None
    BY <1>1 DEF Empty
  <2>2. leaf' = [leaf EXCEPT ![t] = E]
    BY DEF Exec
  <2> HIDE DEF E
  <2> QED
    BY <1>1, <2>1, <2>2 DEF TypeOK
<1>5. /\ shared' \in [Page -> SUBSET Va]
      /\ \A u \in Page : shared'[u] = IF u = t THEN {} ELSE shared[u]
  BY <1>1 DEF TypeOK, Exec
<1>6. /\ seg' \in [Name -> Page \cup {None}] /\ refs' \in [Name -> Nat] /\ Counted'
      /\ att' \subseteq Name \X Page \X Va /\ IsFiniteSet(att') /\ Cardinality(att') <= AttachMax
  BY <1>1, UnrefKeeps
<1>7. \A b \in att : b \in gone <=> b[2] = t
  BY DEF Attached
<1> HIDE DEF t, gone
<1>8. /\ \A g \in OrphanPages(gone) :
           /\ g \in Page /\ g \notin Tables /\ \A s \in Name : seg'[s] # g
           /\ \A u \in Tables, w \in Va :
                leaf[u][w] = g => w \in shared[u] /\ \E b \in gone : b[2] = u /\ b[3] = w
      /\ \A s \in Name : /\ seg'[s] = seg[s] \/ seg'[s] = None
                         /\ seg'[s] # seg[s] => seg[s] \in OrphanPages(gone)
      /\ \A b \in att \ gone : seg'[b[1]] = seg[b[1]]
      /\ SegApart'
  BY <1>1, <1>2, Orphaned
<1>9. TypeOK'
  <2>1. free' \subseteq Page /\ top' \in [Proc -> 0 .. NVa]
    BY <1>1, <1>3, <1>8, OwnPages, NVaAssumption DEF TypeOK
  <2> QED
    BY <1>3, <1>4, <1>5, <1>6, <2>1 DEF TypeOK
<1>10. DeadEmpty' /\ AttLive'
  BY <1>1, <1>2, <1>3, <1>4, <1>5, <1>6 DEF DeadEmpty, AttLive
<1>11. NoUseAfterFree'
  <2>1. ASSUME NEW u \in Tables
        PROVE  u \notin free' /\ \A w \in Va : leaf'[u][w] \notin free'
    <3>1. u \notin free'
      BY <1>1, <1>3, <1>8, OwnPages DEF NoUseAfterFree
    <3>2. CASE u = t
      BY <1>3, <1>4, <1>9, <3>1, <3>2, PageAssumption DEF TypeOK
    <3>3. CASE u # t
      BY <1>1, <1>3, <1>4, <1>7, <1>8, <3>1, <3>3, OwnPages, TablesAre DEF NoUseAfterFree
    <3> QED
      BY <3>2, <3>3
  <2>2. \A s \in Name : seg'[s] \notin free'
    <3>1. None \notin free'
      BY <1>9, PageAssumption DEF TypeOK
    <3> QED
      BY <1>1, <1>3, <1>8, <3>1, OwnPages DEF NoUseAfterFree
  <2> QED
    BY <1>2, <2>1, <2>2 DEF NoUseAfterFree
<1>12. \A u \in Tables : Owned(u)' = IF u = t THEN {0} ELSE Owned(u)
  BY <1>1, <1>4, <1>5, TablesAre, PageAssumption DEF Owned
<1>13. SoleOwner'
  <2> SUFFICES ASSUME NEW u \in Tables, NEW w \in Owned(u)'
               PROVE  /\ \A u2 \in Tables, w2 \in Va : leaf'[u2][w2] = leaf'[u][w] => u2 = u /\ w2 = w
                      /\ leaf'[u][w] \notin Tables /\ \A n \in Name : seg'[n] # leaf'[u][w]
    BY <1>2 DEF SoleOwner
  <2>1. CASE u = t
    BY <1>1, <1>4, <1>8, <1>12, <2>1, FreshPage, TablesAre
  <2>2. CASE u # t
    <3>1. w \in Owned(u) /\ w \in Va /\ leaf'[u][w] = leaf[u][w] /\ leaf[u][w] # None /\ leaf[u][w] # i
      BY <1>1, <1>4, <1>12, <2>2, TablesAre, FreshPage DEF Owned
    <3> QED
      BY <1>1, <1>4, <1>8, <2>2, <3>1, TablesAre DEF SoleOwner
  <2> QED
    BY <2>1, <2>2
<1>14. SharedAttached'
  <2> SUFFICES ASSUME NEW u \in Tables, NEW w \in Va, w \in shared'[u]
               PROVE  \E b \in att' : b[2] = u /\ b[3] = w /\ seg'[b[1]] = leaf'[u][w]
    BY <1>2 DEF SharedAttached, Attached
  <2>1. u # t
    BY <1>1, <1>5
  <2>2. PICK b \in att : b[2] = u /\ b[3] = w /\ seg[b[1]] = leaf[u][w]
    BY <1>5, <2>1, TablesAre DEF SharedAttached, Attached
  <2> QED
    BY <1>3, <1>4, <1>7, <1>8, <2>1, <2>2, TablesAre
<1>15. EachPage'
  <2> SUFFICES ASSUME NEW g \in Page, g \notin free', g \notin lost, g \notin Tables,
                      \A n \in Name : seg'[n] # g
               PROVE  \E u \in Tables : \E w \in Owned(u)' : leaf'[u][w] = g
    BY <1>2, <1>3 DEF EachPage
  <2>1. CASE g = i
    BY <1>1, <1>4, <1>12, <2>1
  <2>2. CASE g # i
    <3>1. g \notin free /\ g \notin OwnedPages(t) /\ \A n \in Name : seg[n] # g
      BY <1>3, <1>8, <2>2
    <3>2. PICK u \in Tables : \E w \in Owned(u) : leaf[u][w] = g
      BY <3>1 DEF EachPage
    <3>3. u # t
      BY <3>1, <3>2 DEF OwnedPages
    <3> QED
      BY <1>4, <1>12, <3>2, <3>3, TablesAre DEF Owned
  <2> QED
    BY <2>1, <2>2
<1> QED
  BY <1>6, <1>8, <1>9, <1>10, <1>11, <1>13, <1>14, <1>15

\* A process that ends takes its address space with it, unless a thread is still in it.
LEMMA DestroyInv ==
  ASSUME IInv, NEW p \in Proc, Destroy(p)
  PROVE  IInv'
<1> USE DEF IInv
<1> DEFINE t == table[p]
           gone == Attached(t)
<1>1. t \in Tables /\ t \in Page /\ gone \in SUBSET att
  BY TablesAre DEF Destroy, Attached, Alive
<1>2. /\ table' = [table EXCEPT ![p] = None] /\ top' = [top EXCEPT ![p] = 0] /\ lost' = lost
      /\ table' \in [Proc -> Page \cup {None}] /\ top' \in [Proc -> 0 .. NVa]
  BY NVaAssumption DEF Destroy, TypeOK
<1>3. CASE TableShared(p)
  <2>1. Tables' = Tables
    BY <1>2, <1>3 DEF Tables, TableShared, TypeOK
  <2>2. free' = free /\ leaf' = leaf /\ shared' = shared /\ seg' = seg /\ refs' = refs /\ att' = att
    BY <1>3 DEF Destroy
  <2>3. TypeOK'
    BY <1>2, <2>2 DEF TypeOK
  <2>4. EachPage'
    BY <1>2, <2>1, <2>2 DEF EachPage, Owned
  <2> QED
    BY <2>1, <2>2, <2>3, <2>4 DEF DeadEmpty, AttLive, SegApart, NoUseAfterFree, SoleOwner,
                                  SharedAttached, Counted, Of, Attached, Owned
<1>4. CASE ~TableShared(p)
  <2>1. Tables' = Tables \ {t}
    BY <1>1, <1>2, <1>4 DEF Tables, TableShared, TypeOK
  <2>2. /\ free' = free \cup OwnedPages(t) \cup OrphanPages(gone) \cup {t}
        /\ leaf' = [leaf EXCEPT ![t] = Empty] /\ shared' = [shared EXCEPT ![t] = {}]
        /\ Unref(gone) /\ att' = att \ gone
    BY <1>4 DEF Destroy, With, Reclaimed, Unref
  <2>3. /\ leaf' \in [Page -> [Va -> Page \cup {None}]] /\ leaf'[t] = Empty
        /\ \A u \in Page : u # t => leaf'[u] = leaf[u]
    <3>1. Empty \in [Va -> Page \cup {None}]
      BY DEF Empty
    <3> QED
      BY <1>1, <2>2, <3>1 DEF TypeOK
  <2>4. /\ shared' \in [Page -> SUBSET Va]
        /\ \A u \in Page : shared'[u] = IF u = t THEN {} ELSE shared[u]
    BY <1>1, <2>2 DEF TypeOK
  <2>5. /\ seg' \in [Name -> Page \cup {None}] /\ refs' \in [Name -> Nat] /\ Counted'
        /\ att' \subseteq Name \X Page \X Va /\ IsFiniteSet(att') /\ Cardinality(att') <= AttachMax
    BY <1>1, <2>2, UnrefKeeps
  <2>6. \A b \in att : b \in gone <=> b[2] = t
    BY DEF Attached
  <2> HIDE DEF t, gone
  <2>7. /\ \A g \in OrphanPages(gone) :
             /\ g \in Page /\ g \notin Tables /\ \A s \in Name : seg'[s] # g
             /\ \A u \in Tables, w \in Va :
                  leaf[u][w] = g => w \in shared[u] /\ \E b \in gone : b[2] = u /\ b[3] = w
        /\ \A s \in Name : /\ seg'[s] = seg[s] \/ seg'[s] = None
                           /\ seg'[s] # seg[s] => seg[s] \in OrphanPages(gone)
        /\ \A b \in att \ gone : seg'[b[1]] = seg[b[1]]
    BY <1>1, <2>2, Orphaned
  <2>8. TypeOK'
    <3>1. free' \subseteq Page
      BY <1>1, <2>2, <2>7, OwnPages DEF TypeOK
    <3> QED
      BY <1>2, <2>3, <2>4, <2>5, <3>1 DEF TypeOK
  <2>9. DeadEmpty'
    BY <2>1, <2>3, <2>4 DEF DeadEmpty
  <2>10. AttLive'
    BY <2>1, <2>2, <2>5, <2>6 DEF AttLive
  <2>11. SegApart'
    BY <2>1, <2>7, PageAssumption, TablesAre DEF SegApart
  <2>12. NoUseAfterFree'
    <3>1. ASSUME NEW u \in Tables, u # t
          PROVE  u \notin free' /\ \A w \in Va : leaf'[u][w] \notin free'
      <4>1. u \notin free'
        BY <1>1, <2>2, <2>7, <3>1, OwnPages DEF NoUseAfterFree
      <4>2. ASSUME NEW w \in Va
            PROVE  leaf[u][w] # t
        <5>1. CASE w \in shared[u]
          BY <1>1, <5>1, SharedMapped DEF SegApart
        <5>2. CASE w \notin shared[u]
          BY <1>1, <5>2, TablesAre, PageAssumption DEF SoleOwner, Owned
        <5> QED
          BY <5>1, <5>2
      <4> QED
        BY <1>1, <2>2, <2>3, <2>6, <2>7, <3>1, <4>1, <4>2, OwnPages, TablesAre DEF NoUseAfterFree
    <3>2. \A s \in Name : seg'[s] \notin free'
      <4>1. None \notin free'
        BY <2>8, PageAssumption DEF TypeOK
      <4> QED
        BY <1>1, <2>2, <2>7, <4>1, OwnPages DEF NoUseAfterFree, SegApart
    <3> QED
      BY <2>1, <3>1, <3>2 DEF NoUseAfterFree
  <2>13. \A u \in Tables' : u \in Tables /\ u # t /\ u \in Page /\ leaf'[u] = leaf[u] /\ Owned(u)' = Owned(u)
    BY <2>1, <2>3, <2>4, TablesAre DEF Owned
  <2>14. SoleOwner'
    <3> SUFFICES ASSUME NEW u \in Tables', NEW w \in Owned(u)
                 PROVE  /\ \A u2 \in Tables', w2 \in Va : leaf'[u2][w2] = leaf'[u][w] => u2 = u /\ w2 = w
                        /\ leaf'[u][w] \notin Tables' /\ \A n \in Name : seg'[n] # leaf'[u][w]
      BY <2>13 DEF SoleOwner
    <3>1. w \in Va /\ leaf[u][w] # None
      BY DEF Owned
    <3> QED
      BY <2>7, <2>13, <3>1 DEF SoleOwner
  <2>15. SharedAttached'
    <3> SUFFICES ASSUME NEW u \in Tables', NEW w \in Va, w \in shared'[u]
                 PROVE  \E b \in att' : b[2] = u /\ b[3] = w /\ seg'[b[1]] = leaf'[u][w]
      BY DEF SharedAttached, Attached
    <3>1. PICK b \in att : b[2] = u /\ b[3] = w /\ seg[b[1]] = leaf[u][w]
      BY <2>4, <2>13 DEF SharedAttached, Attached
    <3> QED
      BY <2>2, <2>6, <2>7, <2>13, <3>1
  <2>16. EachPage'
    <3> SUFFICES ASSUME NEW g \in Page, g \notin free', g \notin lost, g \notin Tables',
                        \A n \in Name : seg'[n] # g
                 PROVE  \E u \in Tables' : \E w \in Owned(u)' : leaf'[u][w] = g
      BY <1>2 DEF EachPage
    <3>1. g \notin free /\ g \notin OwnedPages(t) /\ g \notin Tables /\ \A n \in Name : seg[n] # g
      BY <2>1, <2>2, <2>7
    <3>2. PICK u \in Tables : \E w \in Owned(u) : leaf[u][w] = g
      BY <3>1 DEF EachPage
    <3>3. u # t
      BY <3>1, <3>2 DEF OwnedPages
    <3> QED
      BY <2>1, <2>13, <3>2, <3>3 DEF Owned
  <2> QED
    BY <2>5, <2>8, <2>9, <2>10, <2>11, <2>12, <2>14, <2>15, <2>16
<1> QED
  BY <1>3, <1>4

\* The attachments in S, moved to the table r.
Moved(S, r) == {<<a[1], r, a[3]>> : a \in S}

\* seg_dup_attachments makes as many attachments for the new table as the old one
\* has, and all of them are new.
LEMMA MovedCard ==
  ASSUME TypeOK, AttLive, NEW t \in Page, NEW r \in Page, \A a \in att : a[2] # r,
         NEW S \in SUBSET att, \A a \in S : a[2] = t,
         NEW A \in SUBSET att
  PROVE  /\ IsFiniteSet(S) /\ Cardinality(S) \in Nat
         /\ IsFiniteSet(A) /\ Cardinality(A) \in Nat
         /\ IsFiniteSet(A \cup Moved(S, r))
         /\ Cardinality(A \cup Moved(S, r)) = Cardinality(A) + Cardinality(S)
         /\ Moved(S, r) \subseteq Name \X Page \X Va
<1> DEFINE M == Moved(S, r)
           f == [a \in S |-> <<a[1], r, a[3]>>]
<1>1. IsFiniteSet(S) /\ IsFiniteSet(A) /\ Cardinality(A) \in Nat /\ Cardinality(S) \in Nat
  BY FS_Subset, FS_CardinalityType DEF AttLive
<1>2. \A a \in S : a \in Name \X Page \X Va /\ a[2] = t
  BY DEF TypeOK
<1>3. \A a, b \in S : f[a] = f[b] => a = b
  BY <1>2
<1>4. f \in [S -> M] /\ \A m \in M : \E a \in S : f[a] = m
  BY DEF Moved
<1> HIDE DEF f
<1>5. f \in Bijection(S, M)
  BY <1>3, <1>4 DEF Bijection, Injection, Surjection, IsInjective
<1>6. IsFiniteSet(M) /\ Cardinality(M) = Cardinality(S)
  <2>1. ExistsBijection(S, M)
    BY <1>5 DEF ExistsBijection
  <2> QED
    BY <1>1, <2>1, FS_Bijection
<1>7. A \cap M = {}
  BY DEF Moved
<1>8. M \subseteq Name \X Page \X Va
  BY <1>2 DEF Moved
<1> HIDE DEF M
<1>9. /\ IsFiniteSet(A \cup M)
      /\ Cardinality(A \cup M) = Cardinality(A) + Cardinality(M) - Cardinality(A \cap M)
  BY <1>1, <1>6, FS_Union
<1>10. Cardinality(A \cap M) = 0
  BY <1>7, FS_EmptySet, Zenon
<1>11. Cardinality(A \cup M) = Cardinality(A) + Cardinality(S)
  BY <1>1, <1>6, <1>9, <1>10
<1> QED
  BY <1>1, <1>8, <1>9, <1>11 DEF M

\* A copy of an address space has a page from the pool for each private page, and
\* maps the segments under attachments of its own.
LEMMA ForkInv ==
  ASSUME IInv, NEW p \in Proc, NEW c \in Proc, NEW r \in Page, Fork(p, c, r)
  PROVE  IInv'
<1> USE DEF IInv
<1> DEFINE t == table[p]
           gone == Attached(t)
<1>1. /\ t \in Tables /\ t \in Page /\ r \in free /\ gone \in SUBSET att
      /\ \A a \in gone : a[2] = t /\ ~Alive(c)
  BY TablesAre DEF Fork, Attached, Alive
<1>2. Tables' = Tables \cup {r}
  BY PageAssumption DEF TypeOK, Fork, Tables, Alive
<1>3. PICK g \in [Owned(t) -> free \ {r}] :
       /\ \A v, w \in Owned(t) : g[v] = g[w] => v = w
       /\ free' = free \ ({r} \cup {g[v] : v \in Owned(t)})
       /\ leaf' = [leaf EXCEPT ![r] = [v \in Va |-> IF v \in Owned(t) THEN g[v] ELSE leaf[t][v]]]
  BY DEF Fork, Copied, Without
<1>4. \A v \in Owned(t) : v \in Va /\ v \notin shared[t] /\ g[v] \in free /\ g[v] # r
  BY <1>3 DEF Owned
<1>5. /\ leaf' \in [Page -> [Va -> Page \cup {None}]]
      /\ \A u \in Page : u # r => leaf'[u] = leaf[u]
      /\ \A v \in Va : leaf'[r][v] = IF v \in Owned(t) THEN g[v] ELSE leaf[t][v]
  <2> DEFINE E == [v \in Va |-> IF v \in Owned(t) THEN g[v] ELSE leaf[t][v]]
  <2>1. E \in [Va -> Page \cup {None}] /\ \A v \in Va : E[v] = IF v \in Owned(t) THEN g[v] ELSE leaf[t][v]
    BY <1>1, <1>4 DEF TypeOK
  <2>2. leaf' = [leaf EXCEPT ![r] = E]
    BY <1>3
  <2> HIDE DEF E
  <2> QED
    BY <2>1, <2>2 DEF TypeOK
<1>6. /\ shared' \in [Page -> SUBSET Va]
      /\ \A u \in Page : shared'[u] = IF u = r THEN shared[t] ELSE shared[u]
  BY <1>1 DEF Fork, TypeOK
<1>7. /\ att' = att \cup Moved(gone, r)
      /\ seg' = seg /\ lost' = lost /\ Cardinality(gone) <= AttachMax - Cardinality(att)
      /\ \A s \in Name : refs'[s] = refs[s] + Cardinality({a \in gone : a[1] = s})
      /\ refs' = [s \in Name |-> refs'[s]]
  BY DEF Fork, Moved, DupRefs, Drops, DupFits
<1>8. table' \in [Proc -> Page \cup {None}] /\ top' \in [Proc -> 0 .. NVa]
  BY DEF Fork, TypeOK
<1>9. \A a \in att : a[2] # r
  BY <1>1, FreshPage
<1> HIDE DEF t, gone
<1>10. /\ IsFiniteSet(att') /\ Cardinality(att') <= AttachMax
       /\ att' \subseteq Name \X Page \X Va
  <2>0. att \in SUBSET att
    OBVIOUS
  <2>1. /\ Cardinality(att \cup Moved(gone, r)) = Cardinality(att) + Cardinality(gone)
        /\ IsFiniteSet(att \cup Moved(gone, r)) /\ Moved(gone, r) \subseteq Name \X Page \X Va
        /\ Cardinality(att) \in Nat /\ Cardinality(gone) \in Nat
    BY <1>1, <1>9, <2>0, MovedCard, ZenonT(40)
  <2> QED
    BY <1>7, <2>1, AttachAssumption DEF TypeOK
<1>11. ASSUME NEW s \in Name
       PROVE  /\ refs'[s] \in Nat /\ refs'[s] = Cardinality(Of(s)')
              /\ seg[s] # None <=> refs'[s] > 0
  <2> DEFINE G == {a \in gone : a[1] = s}
  <2>1. G \in SUBSET att /\ Of(s) \in SUBSET att /\ \A a \in G : a[2] = t
    BY <1>1 DEF Of
  <2>2. Of(s)' = Of(s) \cup Moved(G, r)
    BY <1>7 DEF Of, Moved
  <2>3. refs'[s] = refs[s] + Cardinality(G)
    BY <1>7
  <2>4. G \subseteq Of(s)
    BY <1>1 DEF Of
  <2> HIDE DEF G
  <2>5. /\ IsFiniteSet(G) /\ Cardinality(G) \in Nat /\ IsFiniteSet(Of(s)) /\ Cardinality(Of(s)) \in Nat
        /\ Cardinality(Of(s) \cup Moved(G, r)) = Cardinality(Of(s)) + Cardinality(G)
    BY <1>1, <1>9, <2>1, MovedCard, ZenonT(40)
  <2>6. Cardinality(Of(s)') = Cardinality(Of(s)) + Cardinality(G)
    BY <2>2, <2>5, Zenon
  <2>7. Cardinality(G) <= Cardinality(Of(s))
    BY <2>4, <2>5, FS_Subset
  <2>8. refs[s] = Cardinality(Of(s)) /\ (seg[s] # None <=> refs[s] > 0)
    BY DEF Counted
  <2> QED
    BY <2>3, <2>5, <2>6, <2>7, <2>8
<1>12. Counted'
  BY <1>7, <1>11 DEF Counted
<1>13. TypeOK'
  <2>1. free' \subseteq Page /\ lost' \subseteq Page
    BY <1>3, <1>7 DEF TypeOK
  <2>2. refs' \in [Name -> Nat]
    BY <1>7, <1>11
  <2>3. seg' \in [Name -> Page \cup {None}]
    BY <1>7 DEF TypeOK
  <2> QED
    BY <1>5, <1>6, <1>8, <1>10, <2>1, <2>2, <2>3 DEF TypeOK
<1>14. DeadEmpty'
  BY <1>2, <1>5, <1>6 DEF DeadEmpty
<1>15. AttLive'
  BY <1>2, <1>7, <1>10 DEF AttLive, Moved
<1>16. SegApart'
  BY <1>1, <1>2, <1>7, FreshPage DEF SegApart
<1>17. NoUseAfterFree'
  <2>1. \A u \in Tables : u \notin free' /\ \A w \in Va : leaf'[u][w] \notin free'
    BY <1>1, <1>3, <1>5, TablesAre DEF NoUseAfterFree
  <2>2. r \notin free' /\ \A w \in Va : leaf'[r][w] \notin free'
    BY <1>1, <1>3, <1>5 DEF NoUseAfterFree
  <2>3. \A s \in Name : seg'[s] \notin free'
    BY <1>3, <1>7 DEF NoUseAfterFree
  <2> QED
    BY <1>2, <2>1, <2>2, <2>3 DEF NoUseAfterFree
<1>18. r \notin Tables /\ \A u \in Tables : Owned(u)' = Owned(u)
  BY <1>1, <1>5, <1>6, TablesAre, FreshPage DEF Owned
<1>19. Owned(r)' = Owned(t)
  <2>1. \A v \in Va : v \in Owned(t) <=> leaf[t][v] # None /\ v \notin shared[t]
    BY DEF Owned
  <2>2. \A v \in Owned(t) : v \in Va /\ leaf'[r][v] # None
    BY <1>4, <1>5, FreshPage
  <2> QED
    BY <1>5, <1>6, <2>1, <2>2 DEF Owned
<1>20. SoleOwner'
  <2> SUFFICES ASSUME NEW u \in Tables', NEW w \in Owned(u)'
               PROVE  /\ \A u2 \in Tables', w2 \in Va : leaf'[u2][w2] = leaf'[u][w] => u2 = u /\ w2 = w
                      /\ leaf'[u][w] \notin Tables' /\ \A n \in Name : seg[n] # leaf'[u][w]
    BY <1>7 DEF SoleOwner
  <2>1. CASE u = r
    <3>1. w \in Owned(t) /\ leaf'[u][w] = g[w] /\ g[w] \in free /\ g[w] # r
      BY <1>4, <1>5, <1>19, <2>1
    <3>2. /\ g[w] \notin Tables /\ \A n \in Name : seg[n] # g[w]
          /\ \A u2 \in Tables, w2 \in Va : leaf[u2][w2] # g[w]
      BY <3>1, FreshPage
    <3>3. \A w2 \in Va : leaf'[r][w2] = g[w] => w2 = w
      BY <1>1, <1>3, <1>5, <3>1, <3>2
    <3> QED
      BY <1>2, <1>5, <1>18, <2>1, <3>1, <3>2, <3>3, TablesAre
  <2>2. CASE u # r
    <3>1. /\ u \in Tables /\ w \in Owned(u) /\ w \in Va /\ leaf'[u][w] = leaf[u][w]
          /\ leaf[u][w] \notin free
      BY <1>2, <1>5, <1>18, <2>2, TablesAre DEF Owned, NoUseAfterFree
    <3>2. \A w2 \in Va : leaf'[r][w2] # leaf[u][w]
      BY <1>1, <1>4, <1>5, <3>1 DEF SoleOwner
    <3> QED
      BY <1>1, <1>2, <1>5, <1>18, <3>1, <3>2, TablesAre DEF SoleOwner
  <2> QED
    BY <2>1, <2>2
<1>21. SharedAttached'
  <2> SUFFICES ASSUME NEW u \in Tables', NEW w \in Va, w \in shared'[u]
               PROVE  \E b \in att' : b[2] = u /\ b[3] = w /\ seg[b[1]] = leaf'[u][w]
    BY <1>7 DEF SharedAttached, Attached
  <2>1. CASE u = r
    <3>1. PICK a \in gone : a[3] = w /\ seg[a[1]] = leaf[t][w]
      BY <1>1, <1>6, <2>1 DEF SharedAttached, gone
    <3>2. leaf'[r][w] = leaf[t][w]
      BY <1>4, <1>5, <1>6, <2>1
    <3>3. <<a[1], r, a[3]>> \in att'
      BY <1>7 DEF Moved
    <3> QED
      BY <2>1, <3>1, <3>2, <3>3
  <2>2. CASE u # r
    <3>1. u \in Tables /\ u \in Page /\ w \in shared[u] /\ leaf'[u] = leaf[u]
      BY <1>2, <1>5, <1>6, <2>2, TablesAre
    <3> QED
      BY <1>7, <3>1 DEF SharedAttached, Attached
  <2> QED
    BY <2>1, <2>2
<1>22. EachPage'
  <2> SUFFICES ASSUME NEW h \in Page, h \notin free', h \notin lost, h \notin Tables',
                      \A n \in Name : seg[n] # h
               PROVE  \E u \in Tables' : \E w \in Owned(u)' : leaf'[u][w] = h
    BY <1>7 DEF EachPage
  <2>1. CASE h \in free
    <3>1. PICK v \in Owned(t) : h = g[v]
      BY <1>2, <1>3, <2>1
    <3> QED
      BY <1>2, <1>4, <1>5, <1>19, <3>1
  <2>2. CASE h \notin free
    <3>1. PICK u \in Tables : \E w \in Owned(u) : leaf[u][w] = h
      BY <1>2, <2>2 DEF EachPage
    <3> QED
      BY <1>2, <1>5, <1>18, <3>1, TablesAre
  <2> QED
    BY <2>1, <2>2
<1> QED
  BY <1>12, <1>13, <1>14, <1>15, <1>16, <1>17, <1>20, <1>21, <1>22

\* Every step keeps the invariant.
LEMMA NextInv == IInv /\ [Next]_vars => IInv'
<1> SUFFICES ASSUME IInv, [Next]_vars PROVE IInv'
  OBVIOUS
<1>1. CASE UNCHANGED vars
  <2>1. Tables' = Tables /\ table' = table /\ top' = top /\ free' = free /\ leaf' = leaf /\ shared' = shared
        /\ seg' = seg /\ refs' = refs /\ att' = att /\ lost' = lost
    BY <1>1 DEF vars, Tables
  <2>2. TypeOK' /\ EachPage'
    BY <2>1 DEF IInv, TypeOK, EachPage, Owned
  <2>3. DeadEmpty' /\ AttLive' /\ SegApart' /\ NoUseAfterFree'
    BY <2>1 DEF IInv, DeadEmpty, AttLive, SegApart, NoUseAfterFree
  <2>4. SoleOwner' /\ SharedAttached'
    BY <2>1 DEF IInv, SoleOwner, SharedAttached, Attached, Owned
  <2>5. Counted'
    BY <2>1 DEF IInv, Counted, Of
  <2> QED
    BY <2>2, <2>3, <2>4, <2>5 DEF IInv
<1>2. CASE Next
  <2> PICK p \in Proc :
         \/ \E r, i \in Page : Spawn(p, r, i)
         \/ \E c \in Proc, r \in Page : Fork(p, c, r)
         \/ \E c \in Proc : Thread(p, c)
         \/ Destroy(p)
         \/ \E i \in Page : Exec(p, i)
         \/ Map(p)
         \/ \E v \in Va, i \in Page : Touch(p, v, i)
         \/ \E s \in Name, i \in Page : Attach(p, s, i)
         \/ \E a \in att : Detach(p, a)
    BY <1>2 DEF Next
  <2> QED
    BY SpawnInv, ForkInv, ThreadInv, DestroyInv, ExecInv, MapInv, TouchInv, AttachInv, DetachInv
<1> QED
  BY <1>1, <1>2

\* The invariant implies what the runs check.
LEMMA InvAccounted == IInv => Accounted
<1> SUFFICES ASSUME IInv PROVE Accounted
  OBVIOUS
<1>1. RefsCount
  <2>1. \A s \in Name : refs[s] = Cardinality({a \in att : a[1] = s}) /\ (seg[s] # None <=> refs[s] > 0)
    BY DEF IInv, Counted, Of
  <2> QED
    BY <2>1 DEF IInv, SharedAttached, RefsCount
<1>2. NoLeak
  <2> DEFINE U == UNION {OwnedPages(t) : t \in Tables}
             S == {seg[s] : s \in Name} \ {None}
  <2>1. ASSUME NEW g \in Page, g \notin free \cup lost \cup Tables, g \notin S
        PROVE  g \in U
    <3>1. PICK t \in Tables : \E v \in Owned(t) : leaf[t][v] = g
      BY <2>1, PageAssumption DEF IInv, EachPage
    <3>2. g \in OwnedPages(t)
      BY <3>1 DEF OwnedPages
    <3> QED
      BY <3>2, Zenon
  <2>2. U \subseteq Page
    <3> SUFFICES ASSUME NEW g \in U PROVE g \in Page
      BY Zenon
    <3>1. PICK t \in Tables : g \in OwnedPages(t)
      BY Zenon
    <3> QED
      BY <3>1, OwnPages
  <2>3. S \subseteq Page /\ free \subseteq Page /\ lost \subseteq Page /\ Tables \subseteq Page
    BY TablesAre DEF IInv, TypeOK
  <2> SUFFICES Page = free \cup lost \cup Tables \cup U \cup S
    BY DEF NoLeak
  <2> HIDE DEF U, S
  <2> QED
    BY <2>1, <2>2, <2>3
<1> QED
  BY <1>1, <1>2 DEF IInv, Accounted

\* Ownership is kept by every fork, exec, page fault, attachment and exit: the
\* inductive invariant of Memory.
THEOREM Ownership == Spec => []IInv
  BY InitInv, NextInv, PTL DEF Spec

\* No page is in the pool while an address space or a segment uses it: exit_process,
\* exec and seg_unref give back a page only when the last user is gone.
THEOREM UseAfterFreeImpossible == Spec => []NoUseAfterFree
<1>1. IInv => NoUseAfterFree
  BY DEF IInv
<1> QED
  BY <1>1, Ownership, PTL

\* A private page has one owner: rfork copies what exec and exit will free.
THEOREM PrivatePages == Spec => []SoleOwner
<1>1. IInv => SoleOwner
  BY DEF IInv
<1> QED
  BY <1>1, Ownership, PTL

\* Reference counts are the number of attachments, and every page is free, owned,
\* a table, a segment or lost to an overwritten leaf.
THEOREM PagesAccounted == Spec => []Accounted
  BY InvAccounted, Ownership, PTL
=============================================================================
