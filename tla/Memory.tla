------------------------------- MODULE Memory -------------------------------
(***************************************************************************)
(* Who owns the pages of physical memory: address spaces (page.c3), which  *)
(* rfork copies or shares (RFMEM threads) and exec replaces, heap          *)
(* reservations that are filled by page faults, and named shared segments  *)
(* with their attachments (segment.c3).                                    *)
(*                                                                         *)
(* An address space is named by the page of its root table, as in the      *)
(* code; its other table pages come and go with the root and are left out. *)
(* A segment is one page, an image one page at address 0, and addresses    *)
(* count pages.  A call that is refused changes nothing and is no step.    *)
(* Every step runs under kernel_lock.                                      *)
(***************************************************************************)
EXTENDS Integers, FiniteSets

CONSTANTS
  Page,       \* the page pool
  Proc,       \* process slots
  Name,       \* names of segments
  NVa,        \* user addresses 0 .. NVa - 1: HEAP_MAX_BYTES
  AttachMax,  \* SEG_ATTACH_MAX
  None        \* no page

ASSUME PageAssumption == None \notin Page /\ IsFiniteSet(Page)
ASSUME NVaAssumption == NVa \in Nat \ {0}
ASSUME AttachAssumption == AttachMax \in Nat /\ IsFiniteSet(Name)

Va == 0 .. NVa - 1

VARIABLES
  free,    \* the pages whose bit in the bitmap is clear
  table,   \* Process.page_table, None for an unused slot
  top,     \* Process.heap_top
  leaf,    \* the user leaves of each page table
  shared,  \* the addresses whose leaf has PAGE_SHARED
  seg,     \* Segment.paddr, None if there is no segment of that name
  refs,    \* Segment.refs
  att,     \* seg_attachments: <<segment, table, address>>
  lost     \* history: private pages whose leaf was overwritten or cleared

vars == <<free, table, top, leaf, shared, seg, refs, att, lost>>

TypeOK ==
  /\ free \subseteq Page /\ lost \subseteq Page
  /\ table \in [Proc -> Page \cup {None}]
  /\ top \in [Proc -> 0 .. NVa]
  /\ leaf \in [Page -> [Va -> Page \cup {None}]]
  /\ shared \in [Page -> SUBSET Va]
  /\ seg \in [Name -> Page \cup {None}]
  /\ refs \in [Name -> Nat]
  /\ att \subseteq Name \X Page \X Va /\ Cardinality(att) <= AttachMax

Empty == [v \in Va |-> None]

Init ==
  /\ free = Page /\ lost = {}
  /\ table = [p \in Proc |-> None]
  /\ top = [p \in Proc |-> 0]
  /\ leaf = [t \in Page |-> Empty]
  /\ shared = [t \in Page |-> {}]
  /\ seg = [s \in Name |-> None]
  /\ refs = [s \in Name |-> 0]
  /\ att = {}

Alive(p) == table[p] # None
Tables == {table[p] : p \in Proc} \ {None}

\* pte_owned_user_leaf: the leaves of table t whose page belongs to it alone.
Owned(t) == {v \in Va : leaf[t][v] # None /\ v \notin shared[t]}
OwnedPages(t) == {leaf[t][v] : v \in Owned(t)}

\* What a step that rewrites the leaf of table t at v loses.
LostAt(t, v) == IF v \in Owned(t) THEN {leaf[t][v]} ELSE {}

Attached(t) == {a \in att : a[2] = t}

\* seg_unref for the attachments gone: the segments they leave without a reference ...
Drops(s, gone) == Cardinality({a \in gone : a[1] = s})
Orphans(gone) == {s \in Name : Drops(s, gone) > 0 /\ refs[s] - Drops(s, gone) <= 0}
OrphanPages(gone) == {seg[s] : s \in Orphans(gone)}

\* ... and what becomes of the tables of segments and attachments.
Unref(gone) ==
  /\ att' = att \ gone
  /\ seg' = [s \in Name |-> IF s \in Orphans(gone) THEN None ELSE seg[s]]
  /\ refs' = [s \in Name |-> IF s \in Orphans(gone) THEN 0 ELSE refs[s] - Drops(s, gone)]

\* The pool after try_alloc_pages has handed out the pages S, one call for each.
Without(S) == free \ S

\* The pool after free_pages of the pages S.
With(S) == free \cup S

\* map_page, try_map_page: the leaf for address v of table t is page i, whatever it was.
Mapped(t, v, i) == [leaf EXCEPT ![t][v] = i]

(***************************************************************************)
(* Processes.                                                              *)
(***************************************************************************)
\* create_process: a root table r and an image page i.
Spawn(p, r, i) ==
  /\ ~Alive(p) /\ r \in free /\ i \in free /\ r # i
  /\ free' = Without({r, i})
  /\ table' = [table EXCEPT ![p] = r]
  /\ top' = [top EXCEPT ![p] = 1]
  /\ leaf' = [leaf EXCEPT ![r] = [Empty EXCEPT ![0] = i]]
  /\ UNCHANGED <<shared, seg, refs, att, lost>>

\* Mutant of Copied: the child maps the parent's heap.
CopiedImage(t) == Owned(t) \cap {0}

\* The leaves rfork copies; the others the child maps as they are.
Copied(t) == Owned(t)

\* seg_attach_free_slots against seg_attachments_of.
DupFits(t) == Cardinality(Attached(t)) <= AttachMax - Cardinality(att)

\* Mutant of DupRefs: the copies are not counted.
DupRefs0(t) == refs

\* The references after seg_dup_attachments.
DupRefs(t) == [s \in Name |-> refs[s] + Drops(s, Attached(t))]

\* rfork without RFMEM: a root table r and a page g[v] for each leaf that is copied.
Fork(p, c, r) ==
  LET t == table[p] IN
  /\ Alive(p) /\ ~Alive(c) /\ DupFits(t) /\ r \in free
  /\ \E g \in [Copied(t) -> free \ {r}] :
       /\ \A v, w \in Copied(t) : g[v] = g[w] => v = w
       /\ free' = Without({r} \cup {g[v] : v \in Copied(t)})
       /\ leaf' = [leaf EXCEPT ![r] =
                     [v \in Va |-> IF v \in Copied(t) THEN g[v] ELSE leaf[t][v]]]
  /\ table' = [table EXCEPT ![c] = r]
  /\ top' = [top EXCEPT ![c] = top[p]]
  /\ shared' = [shared EXCEPT ![r] = shared[t]]
  /\ att' = att \cup {<<a[1], r, a[3]>> : a \in Attached(t)}
  /\ refs' = DupRefs(t)
  /\ UNCHANGED <<seg, lost>>

\* rfork with RFMEM: a thread.  The heap top is copied, not shared.
Thread(p, c) ==
  /\ Alive(p) /\ ~Alive(c)
  /\ table' = [table EXCEPT ![c] = table[p]]
  /\ top' = [top EXCEPT ![c] = top[p]]
  /\ UNCHANGED <<free, leaf, shared, seg, refs, att, lost>>

\* Mutant of TableShared: nobody looks for threads.
TableSharedNever(p) == FALSE

\* Another process is in the same address space.
TableShared(p) == \E q \in Proc \ {p} : table[q] = table[p]

\* The pages that go back to the pool with address space t.
Reclaimed(t) == OwnedPages(t) \cup OrphanPages(Attached(t)) \cup {t}

\* The end of process p: it exits, is killed or faults where no page can be given to it.
Destroy(p) ==
  /\ Alive(p)
  /\ table' = [table EXCEPT ![p] = None]
  /\ top' = [top EXCEPT ![p] = 0]
  /\ IF TableShared(p)
     THEN UNCHANGED <<free, leaf, shared, seg, refs, att>>
     ELSE /\ free' = With(Reclaimed(table[p]))
          /\ leaf' = [leaf EXCEPT ![table[p]] = Empty]
          /\ shared' = [shared EXCEPT ![table[p]] = {}]
          /\ Unref(Attached(table[p]))
  /\ lost' = lost

\* exec: the image page i is staged before the old leaves are freed; segments are let
\* go of; the table stays.
Exec(p, i) ==
  LET t == table[p] IN
  /\ Alive(p) /\ i \in free
  /\ free' = With(OwnedPages(t) \cup OrphanPages(Attached(t))) \ {i}
  /\ leaf' = [leaf EXCEPT ![t] = [Empty EXCEPT ![0] = i]]
  /\ shared' = [shared EXCEPT ![t] = {}]
  /\ top' = [top EXCEPT ![p] = 1]
  /\ Unref(Attached(t))
  /\ UNCHANGED <<table, lost>>

(***************************************************************************)
(* The heap and the segments.                                              *)
(***************************************************************************)
\* SYS_MAP reserves an address.
Map(p) ==
  /\ Alive(p) /\ top[p] < NVa
  /\ top' = [top EXCEPT ![p] = @ + 1]
  /\ UNCHANGED <<free, table, leaf, shared, seg, refs, att, lost>>

\* The test that a page fault and user_range_valid make: the address is in the
\* reservation of p and has no page yet.
Untouched(p, v) == 1 <= v /\ v < top[p] /\ leaf[table[p]][v] = None

\* A page fault, or a system call with an address of the reservation, maps a page i.
Touch(p, v, i) ==
  /\ Alive(p) /\ Untouched(p, v) /\ i \in free
  /\ free' = Without({i})
  /\ leaf' = Mapped(table[p], v, i)
  /\ UNCHANGED <<table, top, shared, seg, refs, att, lost>>

\* SYS_SEGATTACH of a name that is not attached in this address space: page i is the
\* segment's, or a fresh one for a segment that is created.
Attach(p, s, i) ==
  LET t == table[p]
      v == top[p] IN
  /\ Alive(p) /\ \A a \in Attached(t) : a[1] # s
  /\ Cardinality(att) < AttachMax /\ v < NVa
  /\ IF seg[s] = None THEN i \in free ELSE i = seg[s]
  /\ free' = Without({i})
  /\ seg' = [seg EXCEPT ![s] = i]
  /\ refs' = [refs EXCEPT ![s] = @ + 1]
  /\ att' = att \cup {<<s, t, v>>}
  /\ leaf' = Mapped(t, v, i)
  /\ shared' = [shared EXCEPT ![t] = @ \cup {v}]
  /\ top' = [top EXCEPT ![p] = v + 1]
  /\ lost' = lost \cup LostAt(t, v)
  /\ table' = table

\* SYS_SEGDETACH: whatever is mapped at the address is unmapped.
Detach(p, a) ==
  LET t == table[p]
      v == a[3] IN
  /\ Alive(p) /\ a \in Attached(t)
  /\ leaf' = [leaf EXCEPT ![t][v] = None]
  /\ shared' = [shared EXCEPT ![t] = @ \ {v}]
  /\ free' = With(OrphanPages({a}))
  /\ Unref({a})
  /\ lost' = lost \cup LostAt(t, v)
  /\ UNCHANGED <<table, top>>

Next ==
  \E p \in Proc :
    \/ \E r, i \in Page : Spawn(p, r, i)
    \/ \E c \in Proc, r \in Page : Fork(p, c, r)
    \/ \E c \in Proc : Thread(p, c)
    \/ Destroy(p)
    \/ \E i \in Page : Exec(p, i)
    \/ Map(p)
    \/ \E v \in Va, i \in Page : Touch(p, v, i)
    \/ \E s \in Name, i \in Page : Attach(p, s, i)
    \/ \E a \in att : Detach(p, a)

Spec == Init /\ [][Next]_vars

(***************************************************************************)
(* Properties.                                                             *)
(***************************************************************************)
\* No page is given out while an address space or a segment still uses it, also when
\* threads, copies and segments end in any order.
NoUseAfterFree ==
  /\ \A t \in Tables : t \notin free /\ \A v \in Va : leaf[t][v] \notin free
  /\ \A s \in Name : seg[s] \notin free

\* A private page is mapped at one address of one address space, and is neither a
\* table nor a segment.
SoleOwner ==
  \A t \in Tables : \A v \in Owned(t) :
    /\ \A u \in Tables, w \in Va : leaf[u][w] = leaf[t][v] => u = t /\ w = v
    /\ leaf[t][v] \notin Tables /\ \A s \in Name : seg[s] # leaf[t][v]

\* The reference count of a segment is the number of its attachments, it is there as
\* long as that is not zero, and nobody has it mapped without an attachment.
RefsCount ==
  /\ \A s \in Name : /\ refs[s] = Cardinality({a \in att : a[1] = s})
                     /\ seg[s] # None <=> refs[s] > 0
  /\ \A t \in Tables, v \in Va :
       v \in shared[t] => \E a \in Attached(t) : a[3] = v /\ seg[a[1]] = leaf[t][v]

\* Nothing leaks but private pages whose leaf was overwritten: every other page is
\* free, a table, mapped, or a segment.
NoLeak ==
  Page = free \cup lost \cup Tables \cup (UNION {OwnedPages(t) : t \in Tables})
           \cup ({seg[s] : s \in Name} \ {None})

\* The tables of pages, segments and attachments stay in their bounds and agree,
\* through every fork, exec, detach and exit (process.c3, segment.c3).
Accounted == TypeOK /\ RefsCount /\ NoLeak
=============================================================================
