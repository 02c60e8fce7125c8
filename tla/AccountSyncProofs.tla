------------------------- MODULE AccountSyncProofs --------------------------
(***************************************************************************)
(* Theorems about AccountSync, for any numbers of Projects, devices, tabs, *)
(* edits and faults.                                                       *)
(*                                                                         *)
(* TypeOK alone is not inductive: the history of a new version is taken    *)
(* from the history of the version it builds on, so every version named    *)
(* anywhere (in a document, a row, a conflict, a pinned operation, a       *)
(* queue, a reply, a request on the wire, the loaded row of a tab) must    *)
(* already exist in hist.  Known says so, and IInv is TypeOK with Known.   *)
(***************************************************************************)
EXTENDS AccountSync, SequenceTheorems, TLAPS

HistType == [Projects -> Seq(HistEntry)]

\* The values of the type that only name versions of the history h.
ValueAt(h, p) == {v \in SyncProject : v.version \in 1..Len(h[p])}
SentAt(h, p) == {m \in SyncMutation : m.id = p /\ m.value \in ValueAt(h, p)}
RowAt(h, p) == {r \in Row : /\ r.value \in ValueAt(h, p)
                            /\ r.conflict \in ValueAt(h, p) \cup {None}
                            /\ r.sent \in SentAt(h, p) \cup {None}
                            /\ r.copy # p}
MutationAt(h) == {m \in SyncMutation : m.value \in ValueAt(h, m.id)}
ReplyAt(h) == {x \in [id : Projects, value : SyncProject] : x.value \in ValueAt(h, x.id)}
WriteAt(h) == {w \in [id : Projects, base : Nat, read : Nat, doc : SyncProject \cup {None}] :
                  w.doc \in ValueAt(h, w.id) \cup {None}}
LoadedAt(h) == {l \in Loaded : /\ l.version \in 1..Len(h[l.id])
                               /\ l.sent \in SentAt(h, l.id) \cup {None}}
ControlAt(h) == {k \in Control : /\ k.queue \subseteq SUBSET MutationAt(h)
                                 /\ k.batch \subseteq MutationAt(h)
                                 /\ k.reply \subseteq ReplyAt(h)}

KnownCloud(h) == \A p \in Projects : cloud[p] \in ValueAt(h, p) \cup {None}
KnownRows(h) == \A d \in Devices, p \in Projects : rows[d][p] \in RowAt(h, p) \cup {None}
KnownWork(h) == \A t \in Tabs : work[t] \in LoadedAt(h) \cup {None}
KnownCtl(h) == \A t \in Tabs : ctl[t] \in ControlAt(h)
KnownWire(h) == \A request \in wire : request \subseteq WriteAt(h)

\* Nothing names a version that was not written yet.
Known == /\ KnownCloud(hist)
         /\ KnownRows(hist)
         /\ KnownWork(hist)
         /\ KnownCtl(hist)
         /\ KnownWire(hist)

IInv == TypeOK /\ Known

Grows(h, k) == \A p \in Projects : Len(h[p]) <= Len(k[p])

-----------------------------------------------------------------------------
(* What is known stays known. *)

\* The history of a Project is a sequence with a length.
LEMMA HistLength ==
    ASSUME NEW h \in HistType, NEW p \in Projects
    PROVE  h[p] \in Seq(HistEntry) /\ Len(h[p]) \in Nat
<1>1. h[p] \in Seq(HistEntry)
  BY DEF HistType
<1>2. QED
  BY <1>1, LenProperties

\* A longer history knows every value, row, reply and request of a shorter one.
LEMMA KnownGrows ==
    ASSUME NEW h \in HistType, NEW k \in HistType, Grows(h, k)
    PROVE  /\ \A p \in Projects : /\ ValueAt(h, p) \subseteq ValueAt(k, p)
                                  /\ SentAt(h, p) \subseteq SentAt(k, p)
                                  /\ RowAt(h, p) \subseteq RowAt(k, p)
           /\ MutationAt(h) \subseteq MutationAt(k)
           /\ ReplyAt(h) \subseteq ReplyAt(k)
           /\ WriteAt(h) \subseteq WriteAt(k)
           /\ LoadedAt(h) \subseteq LoadedAt(k)
           /\ ControlAt(h) \subseteq ControlAt(k)
<1>0. \A p \in Projects : Len(h[p]) \in Nat /\ Len(k[p]) \in Nat /\ Len(h[p]) <= Len(k[p])
  BY HistLength DEF Grows
<1>00. \A p \in Projects : 1..Len(h[p]) \subseteq 1..Len(k[p])
  <2>1. ASSUME NEW a \in Nat, NEW b \in Nat, a <= b PROVE 1..a \subseteq 1..b
    BY <2>1
  <2>2. QED
    BY <1>0, <2>1
<1>1. \A p \in Projects : ValueAt(h, p) \subseteq ValueAt(k, p)
  BY <1>00 DEF ValueAt
<1>2. \A p \in Projects : SentAt(h, p) \subseteq SentAt(k, p)
  BY <1>1 DEF SentAt
<1>3. \A p \in Projects : RowAt(h, p) \subseteq RowAt(k, p)
  BY <1>1, <1>2 DEF RowAt
<1>4. MutationAt(h) \subseteq MutationAt(k)
  BY <1>1 DEF MutationAt, SyncMutation
<1>5. ReplyAt(h) \subseteq ReplyAt(k)
  BY <1>1 DEF ReplyAt
<1>6. WriteAt(h) \subseteq WriteAt(k)
  BY <1>1 DEF WriteAt
<1>7. LoadedAt(h) \subseteq LoadedAt(k)
  BY <1>00, <1>2 DEF LoadedAt, Loaded
<1>8. ControlAt(h) \subseteq ControlAt(k)
  BY <1>4, <1>5 DEF ControlAt
<1>9. QED
  BY <1>1, <1>2, <1>3, <1>4, <1>5, <1>6, <1>7, <1>8

-----------------------------------------------------------------------------
(* Types of the row operators. *)

\* A local write yields a row whose version is the fresh one.
LEMMA NewRowType ==
    ASSUME NEW h \in HistType, NEW p \in Projects, NEW prev,
           prev = None \/ prev \in Row \/ prev \in Loaded,
           prev # None => prev.sent \in SentAt(h, p) \cup {None},
           NEW n \in 1..Len(h[p]), NEW saved \in BOOLEAN, NEW device \in Devices
    PROVE  /\ NewRow(p, prev, n, saved, device) \in RowAt(h, p)
           /\ NewRow(p, prev, n, saved, device) \in Row
<1> DEFINE r == NewRow(p, prev, n, saved, device)
<1>1. n \in Nat \ {0}
  OBVIOUS
<1>2. r.value \in ValueAt(h, p)
  BY <1>1 DEF NewRow, ValueAt, SyncProject, DeletionStates, Row, Loaded
<1>3. r.sent \in SentAt(h, p) \cup {None} /\ r.conflict = None /\ r.copy # p
  BY NoneAssumption DEF NewRow
<1>4. r.sent \in SyncMutation \cup {None} /\ r.value \in SyncProject
  BY <1>2, <1>3 DEF SentAt, ValueAt
<1>5. r \in Row
  BY <1>1, <1>4 DEF NewRow, Row, Loaded
<1>6. QED
  BY <1>2, <1>3, <1>5 DEF RowAt

\* A row that mirrors a known value is known.
LEMMA CleanRowType ==
    ASSUME NEW h \in HistType, NEW p \in Projects, NEW v \in ValueAt(h, p)
    PROVE  CleanRow(p, v) \in RowAt(h, p)
BY NoneAssumption DEF CleanRow, RowAt, Row, ValueAt, SyncProject

\* An edit of the envelope keeps a row known.
LEMMA RelabelType ==
    ASSUME NEW h \in HistType, NEW p \in Projects, NEW r \in RowAt(h, p),
           NEW n \in 1..Len(h[p]), NEW deletion \in DeletionStates, NEW until \in Nat
    PROVE  Relabel(r, n, deletion, until) \in RowAt(h, p)
<1> DEFINE s == Relabel(r, n, deletion, until)
<1>1. n \in Nat \ {0}
  OBVIOUS
<1>2. r \in Row /\ r.value \in SyncProject
  BY DEF RowAt, ValueAt
<1>3. s.value = [r.value EXCEPT !.deletion = deletion, !.until = until,
                                !.version = n, !.revision = r.baseRev + 1]
  BY <1>2 DEF Relabel, Row
<1>4. s.value \in ValueAt(h, p)
  <2>1. r.baseRev + 1 \in Nat \ {0}
    BY <1>2 DEF Row
  <2>2. s.value \in SyncProject /\ s.value.version = n
    BY <1>1, <1>2, <1>3, <2>1 DEF SyncProject
  <2>3. QED
    BY <2>2 DEF ValueAt
<1>5. s \in Row /\ s.conflict = r.conflict /\ s.sent = r.sent /\ s.copy = r.copy
  BY <1>2, <1>4 DEF Relabel, Row, ValueAt
<1>6. QED
  BY <1>4, <1>5 DEF RowAt

\* So does the tombstone that replaces a discarded Latest.
LEMMA DiscardedType ==
    ASSUME NEW h \in HistType, NEW p \in Projects, NEW r \in RowAt(h, p),
           NEW n \in 1..Len(h[p]), NEW group \in Projects \X Nat
    PROVE  Discarded(r, n, group) \in RowAt(h, p)
<1> DEFINE s == Relabel(r, n, "DELETED", r.value.until)
<1>1. s \in RowAt(h, p)
  <2>1. r.value.until \in Nat /\ "DELETED" \in DeletionStates
    BY DEF RowAt, Row, SyncProject, DeletionStates
  <2>2. QED
    BY <2>1, RelabelType
<1>2. [s EXCEPT !.group = group] \in RowAt(h, p)
  BY <1>1 DEF RowAt, Row
<1>3. QED
  BY <1>2 DEF Discarded

\* An acknowledgement keeps a row known.
LEMMA AcknowledgedType ==
    ASSUME NEW h \in HistType, NEW p \in Projects, NEW r \in RowAt(h, p) \cup {None},
           NEW m \in MutationAt(h)
    PROVE  Acknowledged(r, m) \in RowAt(h, p) \cup {None}
<1>1. CASE r = None \/ (r # None /\ r.base # m.expected)
  BY <1>1 DEF Acknowledged
<1>2. CASE ~(r = None \/ (r # None /\ r.base # m.expected))
  <2> DEFINE newer == r.value.version # m.value.version
             revision == m.value.revision + (IF newer THEN 1 ELSE 0)
  <2>1. r \in Row /\ r.value \in SyncProject /\ r.value.version \in 1..Len(h[p]) /\ r.copy # p
    BY <1>2 DEF RowAt, ValueAt
  <2>2. m.value \in SyncProject
    BY DEF MutationAt, ValueAt
  <2>3. revision \in Nat \ {0} /\ m.value.version \in Nat /\ m.value.revision \in Nat
    BY <2>2 DEF SyncProject
  <2>4. [r.value EXCEPT !.revision = revision] \in ValueAt(h, p)
    BY <2>1, <2>3 DEF SyncProject, ValueAt
  <2>5. Acknowledged(r, m) = [r EXCEPT !.base = m.value.version,
                                       !.baseRev = m.value.revision,
                                       !.value = [r.value EXCEPT !.revision = revision],
                                       !.dirty = newer,
                                       !.conflict = None,
                                       !.sent = None]
    BY <1>2, <2>1 DEF Acknowledged, Row
  <2>6. Acknowledged(r, m) \in Row
    BY <2>1, <2>3, <2>4, <2>5 DEF Row, ValueAt
  <2>7. QED
    BY <2>1, <2>4, <2>5, <2>6 DEF RowAt, Row
<1>3. QED
  BY <1>1, <1>2

\* Merging a known remote value keeps a row known.
LEMMA ReceivedType ==
    ASSUME NEW h \in HistType, NEW p \in Projects, NEW r \in RowAt(h, p) \cup {None},
           NEW v \in ValueAt(h, p), NEW clock \in Nat
    PROVE  Received(p, r, v, clock) \in RowAt(h, p) \cup {None}
<1>1. CleanRow(p, v) \in RowAt(h, p)
  BY CleanRowType
<1>2. CASE r = None
  BY <1>1, <1>2 DEF Received
<1>3. CASE r # None
  <2> DEFINE same == [r EXCEPT !.base = v.version, !.baseRev = v.revision,
                               !.dirty = FALSE, !.conflict = None, !.sent = None]
             pinned == [r EXCEPT !.base = v.version, !.baseRev = v.revision,
                                 !.value.revision = v.revision + 1,
                                 !.conflict = None, !.sent = None]
             clash == [r EXCEPT !.conflict = v, !.sent = None]
  <2>1. r \in Row /\ r \in RowAt(h, p) /\ r.value \in ValueAt(h, p) /\ r.value \in SyncProject
    BY <1>3 DEF RowAt, ValueAt
  <2>2. v \in SyncProject /\ v.version \in Nat /\ v.revision \in Nat /\ v.revision + 1 \in Nat \ {0}
    BY DEF ValueAt, SyncProject
  <2>3. same \in RowAt(h, p)
    <3>1. /\ same \in Row /\ same.value = r.value /\ same.conflict = None /\ same.sent = None
          /\ same.copy = r.copy
      BY <2>1, <2>2 DEF Row
    <3>2. QED
      BY <3>1, <2>1 DEF RowAt
  <2>4. pinned \in RowAt(h, p)
    <3>1. [r.value EXCEPT !.revision = v.revision + 1] \in ValueAt(h, p)
      BY <2>1, <2>2 DEF SyncProject, ValueAt
    <3>2. pinned = [r EXCEPT !.base = v.version, !.baseRev = v.revision,
                             !.value = [r.value EXCEPT !.revision = v.revision + 1],
                             !.conflict = None, !.sent = None]
      BY <2>1 DEF Row
    <3>3. /\ pinned \in Row
          /\ pinned.value = [r.value EXCEPT !.revision = v.revision + 1]
          /\ pinned.conflict = None
          /\ pinned.sent = None
          /\ pinned.copy = r.copy
      BY <2>1, <2>2, <3>1, <3>2 DEF Row, ValueAt
    <3>4. QED
      BY <2>1, <3>1, <3>3 DEF RowAt
  <2>5. clash \in RowAt(h, p)
    <3>1. /\ clash \in Row /\ clash.value = r.value /\ clash.conflict = v /\ clash.sent = None
          /\ clash.copy = r.copy
      BY <2>1, <2>2 DEF Row
    <3>2. QED
      BY <3>1, <2>1 DEF RowAt
  <2>6. \/ Received(p, r, v, clock) = r
        \/ Received(p, r, v, clock) = CleanRow(p, v)
        \/ Received(p, r, v, clock) = same
        \/ Received(p, r, v, clock) = pinned
        \/ Received(p, r, v, clock) = clash
    <3> HIDE DEF same, pinned, clash
    <3>1. v.revision <= r.baseRev \/ v.revision > r.baseRev
      BY <2>1, <2>2 DEF Row
    <3>2. QED
      BY <1>3, <3>1 DEF Received, same, pinned, clash
  <2>7. QED
    BY <1>1, <2>1, <2>3, <2>4, <2>5, <2>6
<1>4. QED
  BY <1>2, <1>3

\* The operation a row would send is about its Project and known.
LEMMA MutationType ==
    ASSUME NEW h \in HistType, NEW p \in Projects, NEW r \in RowAt(h, p)
    PROVE  Mutation(p, r) \in SentAt(h, p)
<1>1. r \in Row /\ r.value \in ValueAt(h, p) /\ r.sent \in SentAt(h, p) \cup {None}
  BY DEF RowAt
<1>2. r.base \in Nat /\ r.value \in SyncProject
  BY <1>1 DEF Row
<1>3. CASE r.sent # None
  BY <1>1, <1>3 DEF Mutation
<1>4. CASE r.sent = None
  <2>1. [id |-> p, expected |-> r.base, value |-> r.value] \in SyncMutation
    BY <1>2 DEF SyncMutation
  <2>2. QED
    BY <1>1, <1>4, <2>1 DEF Mutation, SentAt
<1>5. QED
  BY <1>3, <1>4

\* A pinned operation is a known mutation.
LEMMA SentIsMutation ==
    ASSUME NEW h \in HistType, NEW p \in Projects
    PROVE  SentAt(h, p) \subseteq MutationAt(h)
BY DEF SentAt, MutationAt

\* The outbox of known rows holds known mutations.
LEMMA PendingType ==
    ASSUME NEW h \in HistType, NEW rs,
           \A p \in Projects : rs[p] \in RowAt(h, p) \cup {None}
    PROVE  Pending(rs) \subseteq SUBSET MutationAt(h)
<1>1. \A p \in Projects : rs[p] # None => Mutation(p, rs[p]) \in MutationAt(h)
  BY MutationType, SentIsMutation
<1>2. QED
  BY <1>1 DEF Pending, Members

\* What a transaction sends names known versions only.
LEMMA RequestKnown ==
    ASSUME NEW h \in HistType, NEW docs, NEW batch \in SUBSET MutationAt(h), NEW clock \in Nat,
           \A p \in Projects : docs[p] \in ValueAt(h, p) \cup {None}
    PROVE  Request(docs, batch, clock) \subseteq WriteAt(h)
<1> SUFFICES ASSUME NEW m \in batch
             PROVE  [id   |-> m.id,
                     base |-> m.expected,
                     read |-> VersionOf(docs[m.id]),
                     doc  |-> IF Replayed(docs, m) THEN None ELSE Stored(m, clock)]
                    \in WriteAt(h)
  BY DEF Request
<1>1. /\ m.id \in Projects
      /\ m.expected \in Nat
      /\ m.value \in SyncProject
      /\ m.value \in ValueAt(h, m.id)
  BY DEF MutationAt, SyncMutation
<1>2. VersionOf(docs[m.id]) \in Nat
  BY <1>1 DEF VersionOf, ValueAt, SyncProject
<1>3. Stored(m, clock) \in ValueAt(h, m.id)
  <2>1. DeletionState(m.value, clock) \in DeletionStates
    BY <1>1 DEF DeletionState, DeletionStates, SyncProject
  <2>2. QED
    BY <1>1, <2>1 DEF Stored, ValueAt, SyncProject
<1>4. Stored(m, clock) \in SyncProject
  BY <1>3 DEF ValueAt
<1>5. QED
  BY <1>1, <1>2, <1>3, <1>4 DEF WriteAt

\* A transaction leaves known documents.
LEMMA ApplyKnown ==
    ASSUME NEW h \in HistType, NEW docs, NEW request \in SUBSET WriteAt(h),
           \A p \in Projects : docs[p] \in ValueAt(h, p) \cup {None}
    PROVE  /\ Apply(docs, request) \in [Projects -> SyncProject \cup {None}]
           /\ \A p \in Projects : Apply(docs, request)[p] \in ValueAt(h, p) \cup {None}
<1>1. ASSUME NEW p \in Projects
      PROVE  Apply(docs, request)[p] \in ValueAt(h, p) \cup {None}
  <2> DEFINE written == \E w \in request : w.id = p /\ w.doc # None
             w0 == CHOOSE w \in request : w.id = p /\ w.doc # None
  <2>1. CASE written
    <3>1. w0 \in request /\ w0.id = p /\ w0.doc # None
      BY <2>1
    <3>2. w0.doc \in ValueAt(h, p)
      BY <3>1 DEF WriteAt
    <3>3. QED
      BY <2>1, <3>2 DEF Apply
  <2>2. CASE ~written
    BY <2>2 DEF Apply
  <2>3. QED
    BY <2>1, <2>2
<1>2. Apply(docs, request) = [p \in Projects |-> Apply(docs, request)[p]]
  BY DEF Apply
<1>3. \A p \in Projects : ValueAt(h, p) \subseteq SyncProject
  BY DEF ValueAt
<1>4. QED
  BY <1>1, <1>2, <1>3

-----------------------------------------------------------------------------
(* The history of versions. *)

\* The versions a known version includes are pairs of a Project and a number.
LEMMA SeenType ==
    ASSUME hist \in HistType, NEW p \in Projects, NEW v \in {0} \cup 1..Len(hist[p])
    PROVE  Seen(p, v) \subseteq Projects \X Nat
<1>1. CASE v = 0
  BY <1>1 DEF Seen
<1>2. CASE v # 0
  <2>1. hist[p] \in Seq(HistEntry) /\ v \in 1..Len(hist[p])
    BY <1>2, HistLength
  <2>2. hist[p][v] \in HistEntry
    BY <2>1, ElementOfSeq
  <2>3. QED
    BY <1>2, <2>2 DEF Seen, HistEntry
<1>3. QED
  BY <1>1, <1>2

\* So are those of a known row.
LEMMA SeenRowType ==
    ASSUME hist \in HistType, NEW p \in Projects, NEW r \in RowAt(hist, p) \cup {None}
    PROVE  SeenRow(p, r) \subseteq Projects \X Nat
<1>1. CASE r = None
  BY <1>1 DEF SeenRow
<1>2. CASE r # None
  <2>1. r.value.version \in 1..Len(hist[p])
    BY <1>2 DEF RowAt, ValueAt
  <2>2. QED
    BY <1>2, <2>1, SeenType DEF SeenRow
<1>3. QED
  BY <1>1, <1>2

\* A new entry of the history.
LEMMA EntryType ==
    ASSUME hist \in HistType, NEW p \in Projects, NEW seen \in SUBSET (Projects \X Nat),
           NEW dead \in BOOLEAN
    PROVE  Entry(p, seen, dead) \in HistEntry
<1>1. Fresh(p) \in Nat
  BY HistLength DEF Fresh
<1>2. QED
  BY <1>1 DEF Entry, HistEntry

\* Appending at most one entry per Project makes a longer history that knows
\* the version each new entry is for.
LEMMA HistoryStep ==
    ASSUME hist \in HistType, NEW k, k = [q \in Projects |-> k[q]],
           \A q \in Projects :
               k[q] = hist[q] \/ \E e \in HistEntry : k[q] = Append(hist[q], e)
    PROVE  /\ k \in HistType
           /\ Grows(hist, k)
           /\ \A q \in Projects, e \in HistEntry :
                  k[q] = Append(hist[q], e) => Fresh(q) \in 1..Len(k[q])
<1>1. ASSUME NEW q \in Projects, NEW e \in HistEntry
      PROVE  /\ Append(hist[q], e) \in Seq(HistEntry)
             /\ Len(Append(hist[q], e)) = Len(hist[q]) + 1
  BY HistLength, AppendProperties
<1>2. ASSUME NEW q \in Projects
      PROVE  k[q] \in Seq(HistEntry) /\ Len(hist[q]) <= Len(k[q])
  <2>1. hist[q] \in Seq(HistEntry) /\ Len(hist[q]) \in Nat
    BY HistLength
  <2>2. CASE k[q] = hist[q]
    BY <2>1, <2>2
  <2>3. CASE \E e \in HistEntry : k[q] = Append(hist[q], e)
    <3>1. PICK e \in HistEntry : k[q] = Append(hist[q], e)
      BY <2>3
    <3>2. k[q] \in Seq(HistEntry) /\ Len(k[q]) = Len(hist[q]) + 1
      BY <1>1, <3>1
    <3>3. QED
      BY <2>1, <3>2
  <2>4. QED
    BY <2>2, <2>3
<1>3. ASSUME NEW q \in Projects, NEW e \in HistEntry, k[q] = Append(hist[q], e)
      PROVE  Fresh(q) \in 1..Len(k[q])
  <2>1. Len(hist[q]) \in Nat /\ Len(k[q]) = Len(hist[q]) + 1
    BY <1>1, <1>3, HistLength
  <2>2. QED
    BY <2>1 DEF Fresh
<1>4. QED
  BY <1>2, <1>3 DEF HistType, Grows

-----------------------------------------------------------------------------
(* Frames: what a step leaves alone stays typed and known. *)

\* Parts a step does not touch.
LEMMA StayKnown ==
    ASSUME IInv, hist' \in HistType, Grows(hist, hist')
    PROVE  /\ UNCHANGED cloud => KnownCloud(hist)'
           /\ UNCHANGED rows  => KnownRows(hist)'
           /\ UNCHANGED work  => KnownWork(hist)'
           /\ UNCHANGED ctl   => KnownCtl(hist)'
           /\ UNCHANGED wire  => KnownWire(hist)'
<1>0. hist \in HistType
  BY DEF IInv, TypeOK, HistType
<1>1. /\ \A p \in Projects : /\ ValueAt(hist, p) \subseteq ValueAt(hist', p)
                             /\ RowAt(hist, p) \subseteq RowAt(hist', p)
      /\ WriteAt(hist) \subseteq WriteAt(hist')
      /\ LoadedAt(hist) \subseteq LoadedAt(hist')
      /\ ControlAt(hist) \subseteq ControlAt(hist')
  BY <1>0, KnownGrows
<1>2. UNCHANGED cloud => KnownCloud(hist)'
  BY <1>1 DEF IInv, Known, KnownCloud
<1>3. UNCHANGED rows => KnownRows(hist)'
  BY <1>1 DEF IInv, Known, KnownRows
<1>4. UNCHANGED work => KnownWork(hist)'
  BY <1>1 DEF IInv, Known, KnownWork
<1>5. UNCHANGED ctl => KnownCtl(hist)'
  BY <1>1 DEF IInv, Known, KnownCtl
<1>6. UNCHANGED wire => KnownWire(hist)'
  BY <1>1 DEF IInv, Known, KnownWire
<1>7. QED
  BY <1>2, <1>3, <1>4, <1>5, <1>6

\* The rows of one device are replaced by known ones.
LEMMA RowsStep ==
    ASSUME IInv, hist' \in HistType, Grows(hist, hist'),
           NEW d \in Devices, NEW R, R = [q \in Projects |-> R[q]],
           \A q \in Projects : R[q] \in RowAt(hist', q) \cup {None},
           rows' = [rows EXCEPT ![d] = R]
    PROVE  rows' \in [Devices -> [Projects -> Row \cup {None}]] /\ KnownRows(hist)'
<1>0. hist \in HistType
  BY DEF IInv, TypeOK, HistType
<1>1. \A q \in Projects : RowAt(hist, q) \subseteq RowAt(hist', q)
  BY <1>0, KnownGrows
<1>2. rows \in [Devices -> [Projects -> Row \cup {None}]]
  BY DEF IInv, TypeOK
<1>3. \A q \in Projects : R[q] \in Row \cup {None}
  BY DEF RowAt
<1>4. R \in [Projects -> Row \cup {None}]
  BY <1>3
<1>5. rows' \in [Devices -> [Projects -> Row \cup {None}]]
  BY <1>2, <1>4
<1>6. ASSUME NEW e \in Devices, NEW q \in Projects
      PROVE  rows'[e][q] \in RowAt(hist', q) \cup {None}
  <2>1. CASE e = d
    BY <1>2, <2>1
  <2>2. CASE e # d
    <3>1. rows'[e][q] = rows[e][q]
      BY <1>2, <2>2
    <3>2. rows[e][q] \in RowAt(hist, q) \cup {None}
      BY DEF IInv, Known, KnownRows
    <3>3. QED
      BY <1>1, <3>1, <3>2
  <2>3. QED
    BY <2>1, <2>2
<1>7. QED
  BY <1>5, <1>6 DEF KnownRows

\* The loaded row of one tab is replaced by a known one.
LEMMA WorkStep ==
    ASSUME IInv, hist' \in HistType, Grows(hist, hist'),
           NEW t \in Tabs, NEW l \in LoadedAt(hist') \cup {None},
           work' = [work EXCEPT ![t] = l]
    PROVE  work' \in [Tabs -> Loaded \cup {None}] /\ KnownWork(hist)'
<1>0. hist \in HistType
  BY DEF IInv, TypeOK, HistType
<1>1. LoadedAt(hist) \subseteq LoadedAt(hist')
  BY <1>0, KnownGrows
<1>2. l \in Loaded \cup {None} /\ work \in [Tabs -> Loaded \cup {None}]
  BY DEF LoadedAt, IInv, TypeOK
<1>3. QED
  BY <1>1, <1>2 DEF IInv, Known, KnownWork

\* The controller of one tab moves on, with known mutations and replies.
LEMMA CtlStep ==
    ASSUME IInv, hist' \in HistType, Grows(hist, hist'),
           NEW t \in Tabs, NEW k \in ControlAt(hist'),
           ctl' = [ctl EXCEPT ![t] = k]
    PROVE  ctl' \in [Tabs -> Control] /\ KnownCtl(hist)'
<1>0. hist \in HistType
  BY DEF IInv, TypeOK, HistType
<1>1. ControlAt(hist) \subseteq ControlAt(hist')
  BY <1>0, KnownGrows
<1>2. k \in Control /\ ctl \in [Tabs -> Control]
  BY DEF ControlAt, IInv, TypeOK
<1>3. QED
  BY <1>1, <1>2 DEF IInv, Known, KnownCtl

\* A step that writes no version.
LEMMA SameHistory ==
    ASSUME IInv, UNCHANGED hist
    PROVE  hist \in HistType /\ hist' \in HistType /\ Grows(hist, hist') /\ hist' = hist
<1>1. hist \in HistType
  BY DEF IInv, TypeOK, HistType
<1>2. \A p \in Projects : Len(hist[p]) <= Len(hist[p])
  BY <1>1, HistLength
<1>3. QED
  BY <1>1, <1>2 DEF Grows

-----------------------------------------------------------------------------
(* The initial states. *)

\* Nothing but the seeded and imported versions is named at first.
LEMMA InitIInv == Init => IInv
<1> SUFFICES ASSUME Init PROVE IInv
  OBVIOUS
<1> USE SeedAssumption, TabsAssumption
<1>1. hist \in HistType
  <2>1. <<>> \in Seq(HistEntry)
    BY EmptySeq
  <2>2. \A p \in Projects : <<[seen |-> {<<p, 1>>}, dead |-> FALSE]>> \in Seq(HistEntry)
    <3>1. \A p \in Projects : [seen |-> {<<p, 1>>}, dead |-> FALSE] \in HistEntry
      BY DEF HistEntry
    <3>2. \A e \in HistEntry : <<e>> \in Seq(HistEntry)
      OBVIOUS
    <3>3. QED
      BY <3>1, <3>2
  <2>3. QED
    BY <2>1, <2>2 DEF Init, HistType
<1>2. \A p \in Projects : p \in DOMAIN Seed \/ (\E d \in Devices : p \in Imported[d])
          => 1 \in 1..Len(hist[p])
  <2>1. ASSUME NEW p \in Projects,
               p \in DOMAIN Seed \/ (\E d \in Devices : p \in Imported[d])
        PROVE  1 \in 1..Len(hist[p])
    <3>1. hist[p] = <<[seen |-> {<<p, 1>>}, dead |-> FALSE]>>
      BY <2>1 DEF Init
    <3>2. Len(hist[p]) = 1
      BY <3>1
    <3>3. QED
      BY <3>2
  <2>2. QED
    BY <2>1
<1>3. ASSUME NEW p \in DOMAIN Seed
      PROVE  SeedValue(p) \in ValueAt(hist, p) /\ SeedValue(p) \in SyncProject
  <2>1. Seed[p] \in Devices \cup {None} /\ p \in Projects /\ 1 \in 1..Len(hist[p])
    BY <1>2
  <2>2. (Seed[p] = None) \in BOOLEAN
    OBVIOUS
  <2>3. SeedValue(p) \in SyncProject /\ SeedValue(p).version = 1
    BY <2>1, <2>2 DEF SeedValue, SyncProject, DeletionStates
  <2>4. QED
    BY <2>1, <2>3 DEF ValueAt
<1>4. cloud \in [Projects -> SyncProject \cup {None}] /\ KnownCloud(hist)
  BY <1>3 DEF Init, KnownCloud
<1>5. \A d \in Devices, p \in Projects : rows[d][p] \in RowAt(hist, p) \cup {None}
  <2>1. ASSUME NEW d \in Devices, NEW p \in Projects
        PROVE  rows[d][p] \in RowAt(hist, p) \cup {None}
    <3>1. CASE p \in DOMAIN Seed /\ d \in Synced
      <4>1. rows[d][p] = CleanRow(p, SeedValue(p))
        BY <3>1 DEF Init
      <4>2. QED
        BY <1>1, <1>3, <3>1, <4>1, CleanRowType
    <3>2. CASE ~(p \in DOMAIN Seed /\ d \in Synced) /\ p \in Imported[d]
      <4> DEFINE r == NewRow(p, None, 1, FALSE, d)
      <4>1. rows[d][p] = [r EXCEPT !.staged = TRUE]
        BY <3>2 DEF Init
      <4>2. r \in RowAt(hist, p)
        BY <1>1, <1>2, <3>2, NewRowType
      <4>3. [r EXCEPT !.staged = TRUE] \in RowAt(hist, p)
        BY <4>2 DEF RowAt, Row
      <4>4. QED
        BY <4>1, <4>3
    <3>3. CASE ~(p \in DOMAIN Seed /\ d \in Synced) /\ p \notin Imported[d]
      BY <3>3 DEF Init
    <3>4. QED
      BY <3>1, <3>2, <3>3
  <2>2. QED
    BY <2>1
<1>6. rows \in [Devices -> [Projects -> Row \cup {None}]]
  <2>1. \A d \in Devices, p \in Projects : rows[d][p] \in Row \cup {None}
    BY <1>5 DEF RowAt
  <2>2. QED
    BY <2>1 DEF Init
<1>7. work \in [Tabs -> Loaded \cup {None}] /\ KnownWork(hist)
  BY DEF Init, KnownWork
<1>8. ctl \in [Tabs -> Control] /\ KnownCtl(hist)
  BY DEF Init, KnownCtl, Idle, Control, ControlAt
<1>9. wire \subseteq RequestType /\ KnownWire(hist) /\ now \in Nat /\ faults \in Nat
  BY DEF Init, KnownWire
<1>10. QED
  BY <1>1, <1>4, <1>5, <1>6, <1>7, <1>8, <1>9
     DEF IInv, TypeOK, Known, KnownRows, HistType

-----------------------------------------------------------------------------
(* The steps of the controller. *)

\* What is known of one tab and the rows of its device.
LEMMA TabKnown ==
    ASSUME IInv, NEW t \in Tabs
    PROVE  /\ DeviceOf[t] \in Devices
           /\ ctl[t] \in ControlAt(hist)
           /\ ctl[t] \in Control
           /\ rows[DeviceOf[t]] = [p \in Projects |-> rows[DeviceOf[t]][p]]
           /\ \A p \in Projects : rows[DeviceOf[t]][p] \in RowAt(hist, p) \cup {None}
           /\ \A p \in Projects : cloud[p] \in ValueAt(hist, p) \cup {None}
<1>1. DeviceOf[t] \in Devices
  BY TabsAssumption
<1>2. rows[DeviceOf[t]] \in [Projects -> Row \cup {None}]
  BY <1>1 DEF IInv, TypeOK
<1>3. QED
  BY <1>1, <1>2 DEF IInv, TypeOK, Known, KnownRows, KnownCtl, KnownCloud, ControlAt

\* markSending() pins operations of the outbox in their own rows.
LEMMA MarkSendingStep ==
    ASSUME IInv, NEW t \in Tabs, MarkSending(t) PROVE IInv'
<1>1. /\ hist \in HistType /\ hist' \in HistType /\ Grows(hist, hist') /\ hist' = hist
      /\ UNCHANGED <<cloud, work, wire, now, faults>>
  BY SameHistory DEF MarkSending
<1>2. PICK batch \in ctl[t].queue :
         LET rest == [ctl[t] EXCEPT !.queue = @ \ {batch}] IN
         IF \A m \in batch : StillPending(rows[DeviceOf[t]], m)
         THEN /\ rows' = [rows EXCEPT ![DeviceOf[t]] = [p \in Projects |->
                    IF \E m \in batch : m.id = p
                    THEN [rows[DeviceOf[t]][p] EXCEPT !.sent = CHOOSE m \in batch : m.id = p]
                    ELSE rows[DeviceOf[t]][p]]]
              /\ ctl' = [ctl EXCEPT ![t] = [rest EXCEPT !.pc = "commit", !.batch = batch]]
         ELSE ctl' = [ctl EXCEPT ![t] = rest] /\ UNCHANGED rows
  BY DEF MarkSending
<1> DEFINE d == DeviceOf[t]
           rest == [ctl[t] EXCEPT !.queue = @ \ {batch}]
           pinned == [rest EXCEPT !.pc = "commit", !.batch = batch]
           R == [p \in Projects |->
                    IF \E m \in batch : m.id = p
                    THEN [rows[d][p] EXCEPT !.sent = CHOOSE m \in batch : m.id = p]
                    ELSE rows[d][p]]
<1>3. batch \subseteq MutationAt(hist)
  <2>1. ctl[t].queue \subseteq SUBSET MutationAt(hist)
    BY TabKnown DEF ControlAt
  <2>2. QED
    BY <1>2, <2>1
<1>4. batch \subseteq SyncMutation
  BY <1>3 DEF MutationAt
<1>5. rest \in ControlAt(hist) /\ pinned \in ControlAt(hist)
  <2>0. ctl[t] \in ControlAt(hist) /\ ctl[t] \in Control
    BY TabKnown
  <2>1. rest \in Control /\ pinned \in Control
    <3>1. rest \in Control
      BY <2>0 DEF Control
    <3> HIDE DEF rest
    <3>2. QED
      BY <1>4, <3>1 DEF Control
  <2>2. QED
    BY <1>3, <2>0, <2>1 DEF ControlAt, Control
<1>6. CASE \A m \in batch : StillPending(rows[d], m)
  <2>1. ASSUME NEW p \in Projects PROVE R[p] \in RowAt(hist', p) \cup {None}
    <3>1. rows[d][p] \in RowAt(hist, p) \cup {None}
      BY TabKnown
    <3>2. CASE \E m \in batch : m.id = p
      <4>1. PICK m \in batch : m.id = p /\ m = CHOOSE x \in batch : x.id = p
        BY <3>2
      <4>2. rows[d][p] # None
        BY <1>6, <4>1 DEF StillPending
      <4>3. m \in SentAt(hist, p) /\ m \in SyncMutation
        BY <1>3, <4>1 DEF SentAt, MutationAt
      <4>4. [rows[d][p] EXCEPT !.sent = m] \in RowAt(hist, p)
        BY <3>1, <4>2, <4>3 DEF RowAt, Row
      <4>5. R[p] = [rows[d][p] EXCEPT !.sent = m]
        BY <3>2, <4>1
      <4>6. QED
        BY <1>1, <4>4, <4>5
    <3>3. CASE ~\E m \in batch : m.id = p
      BY <1>1, <3>1, <3>3
    <3>4. QED
      BY <3>2, <3>3
  <2>2. R = [p \in Projects |-> R[p]]
    OBVIOUS
  <2>3. rows' = [rows EXCEPT ![d] = R] /\ ctl' = [ctl EXCEPT ![t] = pinned]
    BY <1>2, <1>6
  <2> HIDE DEF R, pinned
  <2>4. rows' \in [Devices -> [Projects -> Row \cup {None}]] /\ KnownRows(hist)'
    BY <1>1, <2>1, <2>2, <2>3, RowsStep, TabKnown
  <2>5. ctl' \in [Tabs -> Control] /\ KnownCtl(hist)'
    BY <1>1, <1>5, <2>3, CtlStep
  <2>6. QED
    BY <1>1, <2>4, <2>5, StayKnown DEF IInv, TypeOK, Known
<1>7. CASE ~\A m \in batch : StillPending(rows[d], m)
  <2>1. ctl' = [ctl EXCEPT ![t] = rest] /\ UNCHANGED rows
    BY <1>2, <1>7
  <2> HIDE DEF rest
  <2>2. ctl' \in [Tabs -> Control] /\ KnownCtl(hist)'
    BY <1>1, <1>5, <2>1, CtlStep
  <2>3. QED
    BY <1>1, <2>1, <2>2, StayKnown DEF IInv, TypeOK, Known
<1>8. QED
  BY <1>6, <1>7

\* acknowledge() keeps the rows of the group known.
LEMMA AcknowledgeStep ==
    ASSUME IInv, NEW t \in Tabs, Acknowledge(t) PROVE IInv'
<1> DEFINE d == DeviceOf[t]
           batch == ctl[t].batch
           R == [p \in Projects |->
                   IF \E m \in batch : m.id = p
                   THEN Acknowledged(rows[d][p], CHOOSE m \in batch : m.id = p)
                   ELSE rows[d][p]]
           k == [ctl[t] EXCEPT !.pc = "send", !.batch = {}]
<1>1. /\ hist \in HistType /\ hist' \in HistType /\ Grows(hist, hist') /\ hist' = hist
      /\ UNCHANGED <<cloud, work, wire, now, faults>>
  BY SameHistory DEF Acknowledge
<1>2. rows' = [rows EXCEPT ![d] = R] /\ ctl' = [ctl EXCEPT ![t] = k]
  BY DEF Acknowledge, IInv, TypeOK
<1>3. batch \subseteq MutationAt(hist)
  BY TabKnown DEF ControlAt
<1>4. ASSUME NEW p \in Projects PROVE R[p] \in RowAt(hist', p) \cup {None}
  <2>1. CASE \E m \in batch : m.id = p
    <3>1. PICK m \in batch : m.id = p /\ m = CHOOSE x \in batch : x.id = p
      BY <2>1
    <3>2. R[p] = Acknowledged(rows[d][p], m)
      BY <2>1, <3>1
    <3>3. QED
      BY <1>1, <1>3, <3>2, TabKnown, AcknowledgedType
  <2>2. CASE ~\E m \in batch : m.id = p
    BY <1>1, <2>2, TabKnown
  <2>3. QED
    BY <2>1, <2>2
<1>5. k \in ControlAt(hist)
  <2>1. k \in Control /\ k.queue = ctl[t].queue /\ k.batch = {} /\ k.reply = ctl[t].reply
    BY TabKnown DEF Control
  <2>2. QED
    BY <2>1, TabKnown DEF ControlAt
<1>6. R = [p \in Projects |-> R[p]]
  OBVIOUS
<1> HIDE DEF R, k
<1>7. rows' \in [Devices -> [Projects -> Row \cup {None}]] /\ KnownRows(hist)'
  BY <1>1, <1>2, <1>4, <1>6, RowsStep, TabKnown
<1>8. ctl' \in [Tabs -> Control] /\ KnownCtl(hist)'
  BY <1>1, <1>2, <1>5, CtlStep
<1>9. QED
  BY <1>1, <1>7, <1>8, StayKnown DEF IInv, TypeOK, Known

\* Merged rows are known.
LEMMA ReceivedRowsKnown ==
    ASSUME IInv, NEW t \in Tabs, NEW remote \in SUBSET ReplyAt(hist)
    PROVE  LET R == ReceivedRows(rows[DeviceOf[t]], remote) IN
           /\ R = [p \in Projects |-> R[p]]
           /\ \A p \in Projects : R[p] \in RowAt(hist, p) \cup {None}
<1> DEFINE d == DeviceOf[t]
           R == ReceivedRows(rows[d], remote)
<1>1. hist \in HistType /\ now \in Nat
  BY DEF IInv, TypeOK, HistType
<1>2. ASSUME NEW p \in Projects PROVE R[p] \in RowAt(hist, p) \cup {None}
  <2>1. CASE \E x \in remote : x.id = p
    <3>1. PICK x \in remote : x.id = p /\ x = CHOOSE y \in remote : y.id = p
      BY <2>1
    <3>2. x.value \in ValueAt(hist, p)
      BY <3>1 DEF ReplyAt
    <3>3. R[p] = Received(p, rows[d][p], x.value, now)
      BY <2>1, <3>1 DEF ReceivedRows
    <3>4. rows[d][p] \in RowAt(hist, p) \cup {None}
      BY TabKnown
    <3>5. Received(p, rows[d][p], x.value, now) \in RowAt(hist, p) \cup {None}
      BY <1>1, <3>2, <3>4, ReceivedType
    <3>6. QED
      BY <3>3, <3>5
  <2>2. CASE ~\E x \in remote : x.id = p
    BY <2>2, TabKnown DEF ReceivedRows
  <2>3. QED
    BY <2>1, <2>2
<1>3. R = [p \in Projects |-> R[p]]
  BY DEF ReceivedRows
<1>4. QED
  BY <1>2, <1>3

\* A step of one controller that changes at most its rows.
LEMMA ControllerFrame ==
    ASSUME IInv, NEW t \in Tabs, NEW k \in ControlAt(hist), NEW R,
           R = [p \in Projects |-> R[p]],
           \A p \in Projects : R[p] \in RowAt(hist, p) \cup {None},
           ctl' = [ctl EXCEPT ![t] = k],
           rows' = [rows EXCEPT ![DeviceOf[t]] = R] \/ UNCHANGED rows,
           UNCHANGED <<cloud, work, wire, now, faults, hist>>
    PROVE  IInv'
<1>1. /\ hist \in HistType /\ hist' \in HistType /\ Grows(hist, hist') /\ hist' = hist
      /\ DeviceOf[t] \in Devices
  BY SameHistory, TabKnown
<1>2. ctl' \in [Tabs -> Control] /\ KnownCtl(hist)'
  BY <1>1, CtlStep
<1>3. rows' \in [Devices -> [Projects -> Row \cup {None}]] /\ KnownRows(hist)'
  <2>1. CASE rows' = [rows EXCEPT ![DeviceOf[t]] = R]
    BY <1>1, <2>1, RowsStep
  <2>2. CASE UNCHANGED rows
    BY <1>1, <2>2, StayKnown DEF IInv, TypeOK
  <2>3. QED
    BY <2>1, <2>2
<1>4. QED
  BY <1>1, <1>2, <1>3, StayKnown DEF IInv, TypeOK, Known

\* receive() of the conflicts of a refused group.
LEMMA ReceiveConflictsStep ==
    ASSUME IInv, NEW t \in Tabs, ReceiveConflicts(t) PROVE IInv'
<1> DEFINE R == ReceivedRows(rows[DeviceOf[t]], ctl[t].reply)
           k == [ctl[t] EXCEPT !.pc = "send", !.batch = {}, !.reply = {}, !.changed = TRUE]
<1>1. R = [p \in Projects |-> R[p]] /\ \A p \in Projects : R[p] \in RowAt(hist, p) \cup {None}
  <2>1. ctl[t].reply \in SUBSET ReplyAt(hist)
    BY TabKnown DEF ControlAt
  <2>2. QED
    BY <2>1, ReceivedRowsKnown
<1>2. k \in ControlAt(hist)
  <2>1. k \in Control /\ k.queue = ctl[t].queue /\ k.batch = {} /\ k.reply = {}
    BY TabKnown DEF Control
  <2>2. QED
    BY <2>1, TabKnown DEF ControlAt
<1>3. /\ ctl' = [ctl EXCEPT ![t] = k]
      /\ rows' = [rows EXCEPT ![DeviceOf[t]] = R]
      /\ UNCHANGED <<cloud, work, wire, now, faults, hist>>
  BY DEF ReceiveConflicts, IInv, TypeOK
<1> HIDE DEF R, k
<1>4. QED
  BY <1>1, <1>2, <1>3, ControllerFrame

\* receive() of the downloaded documents.
LEMMA ReceiveListStep ==
    ASSUME IInv, NEW t \in Tabs, ReceiveList(t) PROVE IInv'
<1> DEFINE R == ReceivedRows(rows[DeviceOf[t]], ctl[t].reply)
           k == [ctl[t] EXCEPT !.pc = IF ctl[t].first THEN "confirm" ELSE "idle", !.reply = {}]
<1>1. R = [p \in Projects |-> R[p]] /\ \A p \in Projects : R[p] \in RowAt(hist, p) \cup {None}
  <2>1. ctl[t].reply \in SUBSET ReplyAt(hist)
    BY TabKnown DEF ControlAt
  <2>2. QED
    BY <2>1, ReceivedRowsKnown
<1>2. k \in ControlAt(hist)
  <2>1. k \in Control /\ k.queue = ctl[t].queue /\ k.batch = ctl[t].batch /\ k.reply = {}
    BY TabKnown DEF Control
  <2>2. QED
    BY <2>1, TabKnown DEF ControlAt
<1>3. /\ ctl' = [ctl EXCEPT ![t] = k]
      /\ rows' = [rows EXCEPT ![DeviceOf[t]] = R]
      /\ UNCHANGED <<cloud, work, wire, now, faults, hist>>
  BY DEF ReceiveList, IInv, TypeOK
<1> HIDE DEF R, k
<1>4. QED
  BY <1>1, <1>2, <1>3, ControllerFrame

\* list() replies with known documents.
LEMMA ListRemoteStep ==
    ASSUME IInv, NEW t \in Tabs, ListRemote(t) PROVE IInv'
<1> DEFINE k == [ctl[t] EXCEPT !.pc = "listed", !.changed = FALSE, !.reply = Documents]
<1>1. Documents \subseteq ReplyAt(hist)
  <2>1. \A p \in Projects : cloud[p] # None => cloud[p] \in ValueAt(hist, p) /\ cloud[p] \in SyncProject
    BY TabKnown DEF ValueAt
  <2>2. QED
    BY <2>1 DEF Documents, ReplyAt
<1>2. k \in ControlAt(hist)
  <2>1. Documents \subseteq [id : Projects, value : SyncProject]
    BY <1>1 DEF ReplyAt
  <2>2. k \in Control /\ k.queue = ctl[t].queue /\ k.batch = ctl[t].batch /\ k.reply = Documents
    BY <2>1, TabKnown DEF Control
  <2>3. QED
    BY <1>1, <2>2, TabKnown DEF ControlAt
<1>3. ctl' = [ctl EXCEPT ![t] = k] /\ UNCHANGED <<cloud, rows, work, wire, now, faults, hist>>
  BY DEF ListRemote, IInv, TypeOK
<1> HIDE DEF k
<1>4. QED
  BY <1>2, <1>3, TabKnown, ControllerFrame

\* A run without a download.
LEMMA SkipListStep ==
    ASSUME IInv, NEW t \in Tabs, SkipList(t) PROVE IInv'
<1> DEFINE k == [ctl[t] EXCEPT !.pc = IF ctl[t].first THEN "confirm" ELSE "idle"]
<1>1. k \in ControlAt(hist)
  <2>1. /\ k \in Control
        /\ k.queue = ctl[t].queue /\ k.batch = ctl[t].batch /\ k.reply = ctl[t].reply
    BY TabKnown DEF Control
  <2>2. QED
    BY <2>1, TabKnown DEF ControlAt
<1>2. ctl' = [ctl EXCEPT ![t] = k] /\ UNCHANGED <<cloud, rows, work, wire, now, faults, hist>>
  BY DEF SkipList, IInv, TypeOK
<1> HIDE DEF k
<1>3. QED
  BY <1>1, <1>2, TabKnown, ControllerFrame

\* confirmImports() changes only whether rows are staged.
LEMMA ConfirmImportsStep ==
    ASSUME IInv, NEW t \in Tabs, ConfirmImports(t) PROVE IInv'
<1> DEFINE d == DeviceOf[t]
           R == [p \in Projects |->
                   IF rows[d][p] # None /\ rows[d][p].staged
                      /\ ImportConfirmed(rows[d], p, d, now)
                   THEN [rows[d][p] EXCEPT !.staged = FALSE] ELSE rows[d][p]]
           k == [ctl[t] EXCEPT !.pc = "idle", !.first = FALSE]
<1>1. ASSUME NEW p \in Projects PROVE R[p] \in RowAt(hist, p) \cup {None}
  <2>1. rows[d][p] \in RowAt(hist, p) \cup {None}
    BY TabKnown
  <2>2. \A r \in RowAt(hist, p) : [r EXCEPT !.staged = FALSE] \in RowAt(hist, p)
    BY DEF RowAt, Row
  <2>3. QED
    BY <2>1, <2>2
<1>2. R = [p \in Projects |-> R[p]]
  OBVIOUS
<1>3. k \in ControlAt(hist)
  <2>1. /\ k \in Control
        /\ k.queue = ctl[t].queue /\ k.batch = ctl[t].batch /\ k.reply = ctl[t].reply
    BY TabKnown DEF Control
  <2>2. QED
    BY <2>1, TabKnown DEF ControlAt
<1>4. /\ ctl' = [ctl EXCEPT ![t] = k]
      /\ rows' = [rows EXCEPT ![d] = R]
      /\ UNCHANGED <<cloud, work, wire, now, faults, hist>>
  BY DEF ConfirmImports, IInv, TypeOK
<1> HIDE DEF R, k
<1>5. QED
  BY <1>1, <1>2, <1>3, <1>4, ControllerFrame

\* pending() labels what expired and fills the queue.
LEMMA StartRunStep ==
    ASSUME IInv, NEW t \in Tabs, StartRun(t) PROVE IInv'
<1> DEFINE d == DeviceOf[t]
           overdue == Overdue(rows[d], now)
           labelled == [p \in Projects |->
               IF p \in overdue
               THEN Relabel(rows[d][p], Fresh(p), "DELETED", rows[d][p].value.until)
               ELSE rows[d][p]]
           k == [ctl[t] EXCEPT !.pc = "send", !.queue = Pending(labelled)]
<1>1. /\ rows' = [rows EXCEPT ![d] = labelled]
      /\ hist' = [p \in Projects |->
                   IF p \in overdue
                   THEN Append(hist[p], Entry(p, SeenRow(p, rows[d][p]), TRUE)) ELSE hist[p]]
      /\ ctl' = [ctl EXCEPT ![t] = k]
      /\ UNCHANGED <<cloud, work, wire, now, faults>>
  BY DEF StartRun, IInv, TypeOK
<1>2. hist \in HistType
  BY DEF IInv, TypeOK, HistType
<1>3. \A p \in Projects : Entry(p, SeenRow(p, rows[d][p]), TRUE) \in HistEntry
  BY <1>2, TabKnown, SeenRowType, EntryType
<1>4. /\ hist' \in HistType
      /\ Grows(hist, hist')
      /\ \A p \in overdue : Fresh(p) \in 1..Len(hist'[p])
  <2>1. hist' = [p \in Projects |-> hist'[p]]
    BY <1>1
  <2>2. \A p \in Projects :
            hist'[p] = hist[p] \/ \E e \in HistEntry : hist'[p] = Append(hist[p], e)
    BY <1>1, <1>3
  <2>3. \A p \in overdue : p \in Projects /\ \E e \in HistEntry : hist'[p] = Append(hist[p], e)
    BY <1>1, <1>3 DEF Overdue
  <2> HIDE DEF overdue
  <2>4. QED
    BY <1>2, <2>1, <2>2, <2>3, HistoryStep
<1>5. ASSUME NEW p \in Projects PROVE labelled[p] \in RowAt(hist', p) \cup {None}
  <2>1. rows[d][p] \in RowAt(hist', p) \cup {None}
    <3>1. rows[d][p] \in RowAt(hist, p) \cup {None}
      BY TabKnown
    <3>2. RowAt(hist, p) \subseteq RowAt(hist', p)
      BY <1>2, <1>4, KnownGrows
    <3>3. QED
      BY <3>1, <3>2
  <2>2. CASE p \in overdue
    <3>1. rows[d][p] \in RowAt(hist', p)
      BY <2>1, <2>2 DEF Overdue
    <3>2. rows[d][p].value.until \in Nat /\ "DELETED" \in DeletionStates
      BY <3>1 DEF RowAt, Row, SyncProject, DeletionStates
    <3>3. Fresh(p) \in 1..Len(hist'[p])
      BY <1>4, <2>2
    <3>4. Relabel(rows[d][p], Fresh(p), "DELETED", rows[d][p].value.until) \in RowAt(hist', p)
      BY <1>4, <3>1, <3>2, <3>3, RelabelType
    <3>5. QED
      BY <2>2, <3>4
  <2>3. CASE p \notin overdue
    BY <2>1, <2>3
  <2>4. QED
    BY <2>2, <2>3
<1>6. labelled = [p \in Projects |-> labelled[p]]
  OBVIOUS
<1> HIDE DEF labelled
<1>7. k \in ControlAt(hist')
  <2>1. Pending(labelled) \subseteq SUBSET MutationAt(hist')
    BY <1>4, <1>5, PendingType
  <2>2. ctl[t] \in ControlAt(hist') /\ ctl[t] \in Control
    BY <1>2, <1>4, TabKnown, KnownGrows
  <2>3. MutationAt(hist') \subseteq SyncMutation
    BY DEF MutationAt
  <2>4. /\ k \in Control
        /\ k.queue = Pending(labelled) /\ k.batch = ctl[t].batch /\ k.reply = ctl[t].reply
    BY <2>1, <2>2, <2>3 DEF Control
  <2>5. QED
    BY <2>1, <2>2, <2>4 DEF ControlAt
<1> HIDE DEF k
<1>8. rows' \in [Devices -> [Projects -> Row \cup {None}]] /\ KnownRows(hist)'
  BY <1>1, <1>4, <1>5, <1>6, RowsStep, TabKnown
<1>9. ctl' \in [Tabs -> Control] /\ KnownCtl(hist)'
  BY <1>1, <1>4, <1>7, CtlStep
<1>10. QED
  BY <1>1, <1>4, <1>8, <1>9, StayKnown DEF IInv, TypeOK, Known, HistType

\* An abandoned run, and an invalidated one.
LEMMA AbandonedKnown ==
    ASSUME NEW h \in HistType, NEW k \in ControlAt(h), NEW changed \in BOOLEAN
    PROVE  /\ Abandoned(k) \in ControlAt(h)
           /\ [Abandoned(k) EXCEPT !.changed = changed] \in ControlAt(h)
           /\ [k EXCEPT !.changed = TRUE] \in ControlAt(h)
           /\ [[k EXCEPT !.changed = TRUE] EXCEPT !.pc = "committed"] \in ControlAt(h)
<1>1. k \in Control /\ k.queue \subseteq SUBSET MutationAt(h) /\ k.batch \subseteq MutationAt(h)
      /\ k.reply \subseteq ReplyAt(h)
  BY DEF ControlAt
<1>2. /\ Abandoned(k) \in Control
      /\ [Abandoned(k) EXCEPT !.changed = changed] \in Control
      /\ [k EXCEPT !.changed = TRUE] \in Control
      /\ [[k EXCEPT !.changed = TRUE] EXCEPT !.pc = "committed"] \in Control
  BY <1>1 DEF Abandoned, Control
<1>3. /\ Abandoned(k).queue = {} /\ Abandoned(k).batch = {} /\ Abandoned(k).reply = {}
      /\ [Abandoned(k) EXCEPT !.changed = changed].queue = {}
      /\ [Abandoned(k) EXCEPT !.changed = changed].batch = {}
      /\ [Abandoned(k) EXCEPT !.changed = changed].reply = {}
  BY <1>1 DEF Abandoned, Control
<1>4. /\ [k EXCEPT !.changed = TRUE].queue = k.queue
      /\ [k EXCEPT !.changed = TRUE].batch = k.batch
      /\ [k EXCEPT !.changed = TRUE].reply = k.reply
      /\ [[k EXCEPT !.changed = TRUE] EXCEPT !.pc = "committed"].queue = k.queue
      /\ [[k EXCEPT !.changed = TRUE] EXCEPT !.pc = "committed"].batch = k.batch
      /\ [[k EXCEPT !.changed = TRUE] EXCEPT !.pc = "committed"].reply = k.reply
  BY <1>1 DEF Control
<1>5. QED
  BY <1>1, <1>2, <1>3, <1>4 DEF ControlAt

\* commit() publishes the group, reports what it clashes with, or fails.
LEMMA CommitStep ==
    ASSUME IInv, NEW t \in Tabs, Commit(t) PROVE IInv'
<1> DEFINE batch == ctl[t].batch
           clashes == Clashing(batch)
           request == Request(cloud, batch, now)
           reply == {[id |-> m.id, value |-> cloud[m.id]] : m \in clashes}
           k == [ctl[t] EXCEPT !.pc = "conflicted", !.reply = reply]
<1>1. /\ hist \in HistType /\ hist' \in HistType /\ Grows(hist, hist') /\ hist' = hist
      /\ UNCHANGED <<rows, work, wire, now, faults>> /\ now \in Nat
  BY SameHistory DEF Commit, IInv, TypeOK
<1>2. ctl \in [Tabs -> Control] /\ \A u \in Tabs : ctl[u] \in ControlAt(hist)
  BY DEF IInv, TypeOK, Known, KnownCtl
<1>3. batch \subseteq MutationAt(hist)
  BY <1>2 DEF ControlAt
<1>4. \/ /\ ctl' = [ctl EXCEPT ![t] = Abandoned(ctl[t])]
         /\ UNCHANGED cloud
      \/ /\ \A m \in clashes : cloud[m.id] # None
         /\ ctl' = [ctl EXCEPT ![t] = k]
         /\ UNCHANGED cloud
      \/ /\ cloud' = Apply(cloud, request)
         /\ ctl' = [Invalidated EXCEPT ![t].pc = "committed"]
  BY <1>2 DEF Commit
<1>5. CASE ctl' = [ctl EXCEPT ![t] = Abandoned(ctl[t])] /\ UNCHANGED cloud
  <2>1. Abandoned(ctl[t]) \in ControlAt(hist)
    BY <1>1, <1>2, AbandonedKnown
  <2>2. ctl' \in [Tabs -> Control] /\ KnownCtl(hist)'
    BY <1>1, <1>5, <2>1, CtlStep
  <2>3. QED
    BY <1>1, <1>5, <2>2, StayKnown DEF IInv, TypeOK, Known
<1>6. CASE /\ \A m \in clashes : cloud[m.id] # None
           /\ ctl' = [ctl EXCEPT ![t] = k]
           /\ UNCHANGED cloud
  <2>1. reply \subseteq ReplyAt(hist)
    <3>1. clashes \subseteq MutationAt(hist)
      BY <1>3 DEF Clashing
    <3>2. \A m \in clashes : m.id \in Projects /\ cloud[m.id] \in ValueAt(hist, m.id)
      BY <1>6, <3>1, TabKnown DEF MutationAt, SyncMutation
    <3> HIDE DEF clashes
    <3>3. QED
      BY <3>2 DEF ReplyAt, ValueAt
  <2> HIDE DEF reply
  <2>2. k \in ControlAt(hist)
    <3>1. ctl[t] \in Control /\ reply \subseteq [id : Projects, value : SyncProject]
      BY <1>2, <2>1 DEF ReplyAt
    <3>2. k \in Control /\ k.queue = ctl[t].queue /\ k.batch = ctl[t].batch /\ k.reply = reply
      BY <3>1 DEF Control
    <3>3. QED
      BY <1>2, <2>1, <3>2 DEF ControlAt
  <2> HIDE DEF k
  <2>3. ctl' \in [Tabs -> Control] /\ KnownCtl(hist)'
    BY <1>1, <1>6, <2>2, CtlStep
  <2>4. QED
    BY <1>1, <1>6, <2>3, StayKnown DEF IInv, TypeOK, Known
<1>7. CASE cloud' = Apply(cloud, request) /\ ctl' = [Invalidated EXCEPT ![t].pc = "committed"]
  <2>1. request \subseteq WriteAt(hist)
    BY <1>1, <1>3, TabKnown, RequestKnown
  <2> HIDE DEF request
  <2>2. cloud' \in [Projects -> SyncProject \cup {None}] /\ KnownCloud(hist)'
    BY <1>1, <1>7, <2>1, TabKnown, ApplyKnown DEF KnownCloud
  <2>3. ASSUME NEW u \in Tabs PROVE ctl'[u] \in ControlAt(hist)
    <3>1. \/ ctl'[u] = [[ctl[u] EXCEPT !.changed = TRUE] EXCEPT !.pc = "committed"]
          \/ ctl'[u] = [ctl[u] EXCEPT !.changed = TRUE]
      BY <1>7 DEF Invalidated
    <3>2. QED
      BY <1>1, <1>2, <3>1, AbandonedKnown, ZenonT(60)
  <2>4. ctl' = [u \in Tabs |-> ctl'[u]]
    BY <1>7 DEF Invalidated
  <2>5. ctl' \in [Tabs -> Control] /\ KnownCtl(hist)'
    <3>1. \A u \in Tabs : ctl'[u] \in Control
      BY <2>3 DEF ControlAt
    <3>2. QED
      BY <1>1, <2>3, <2>4, <3>1 DEF KnownCtl
  <2>6. QED
    BY <1>1, <2>2, <2>5, StayKnown DEF IInv, TypeOK, Known
<1>8. QED
  BY <1>4, <1>5, <1>6, <1>7

\* A step of any controller.
LEMMA ControllerStepIInv ==
    ASSUME IInv, NEW t \in Tabs, ControllerStep(t) PROVE IInv'
BY StartRunStep, MarkSendingStep, CommitStep, AcknowledgeStep, ReceiveConflictsStep,
   ListRemoteStep, ReceiveListStep, SkipListStep, ConfirmImportsStep DEF ControllerStep

-----------------------------------------------------------------------------
(* Faults, reloads, the server and the clock. *)

\* A request that is left behind names known versions only.
LEMMA OrphanedKnown ==
    ASSUME IInv, NEW t \in Tabs
    PROVE  /\ Orphaned(t) \subseteq RequestType
           /\ \A request \in Orphaned(t) : request \subseteq WriteAt(hist)
<1>1. hist \in HistType /\ now \in Nat
  BY DEF IInv, TypeOK, HistType
<1>2. ctl[t].batch \in SUBSET MutationAt(hist)
  BY TabKnown DEF ControlAt
<1>3. Request(cloud, ctl[t].batch, now) \subseteq WriteAt(hist)
  BY <1>1, <1>2, TabKnown, RequestKnown
<1>4. Request(cloud, ctl[t].batch, now) \in RequestType
  BY <1>3 DEF WriteAt, RequestType
<1>5. QED
  BY <1>3, <1>4 DEF Orphaned, IInv, TypeOK, Known, KnownWire

\* A failed run.
LEMMA FailStep ==
    ASSUME IInv, NEW t \in Tabs, Fail(t) PROVE IInv'
<1> DEFINE changed == ctl[t].changed \/ ctl[t].pc = "listed"
           k == [Abandoned(ctl[t]) EXCEPT !.changed = changed]
<1>1. /\ hist \in HistType /\ hist' \in HistType /\ Grows(hist, hist') /\ hist' = hist
      /\ UNCHANGED <<cloud, rows, work, now>>
  BY SameHistory DEF Fail
<1>2. faults' \in Nat
  BY DEF Fail, IInv, TypeOK
<1>3. k \in ControlAt(hist)
  <2>1. changed \in BOOLEAN
    OBVIOUS
  <2>2. QED
    BY <1>1, <2>1, TabKnown, AbandonedKnown
<1>4. ctl' = [ctl EXCEPT ![t] = k]
  BY DEF Fail
<1> HIDE DEF k
<1>5. ctl' \in [Tabs -> Control] /\ KnownCtl(hist)'
  BY <1>1, <1>3, <1>4, CtlStep
<1>6. wire' \subseteq RequestType /\ KnownWire(hist)'
  BY <1>1, OrphanedKnown DEF Fail, KnownWire
<1>7. QED
  BY <1>1, <1>2, <1>5, <1>6, StayKnown DEF IInv, TypeOK, Known

\* The loaded row of an edited or reloaded Project.
LEMMA CaptureKnown ==
    ASSUME NEW h \in HistType, NEW p \in Projects, NEW r \in RowAt(h, p)
    PROVE  Capture(p, r) \in LoadedAt(h)
<1>1. r \in Row /\ r.value \in SyncProject /\ r.value.version \in 1..Len(h[p])
      /\ r.sent \in SentAt(h, p) \cup {None}
  BY DEF RowAt, ValueAt
<1>2. Capture(p, r) \in Loaded
  BY <1>1 DEF Capture, Loaded, Row, SyncProject
<1>3. QED
  BY <1>1, <1>2 DEF Capture, LoadedAt

\* A reloaded tab.
LEMMA ReloadStep ==
    ASSUME IInv, NEW t \in Tabs, Reload(t) PROVE IInv'
<1> DEFINE d == DeviceOf[t]
           l == IF work[t] = None THEN None ELSE Recovered(d, work[t])
<1>1. /\ hist \in HistType /\ hist' \in HistType /\ Grows(hist, hist') /\ hist' = hist
      /\ UNCHANGED <<cloud, rows, now>>
  BY SameHistory DEF Reload
<1>2. faults' \in Nat
  BY DEF Reload, IInv, TypeOK
<1>3. l \in LoadedAt(hist) \cup {None}
  <2>1. CASE work[t] = None
    BY <2>1
  <2>2. CASE work[t] # None
    <3>1. work[t] \in LoadedAt(hist) /\ work[t] \in Loaded /\ work[t].id \in Projects
      BY <2>2 DEF IInv, Known, KnownWork, LoadedAt, Loaded
    <3>2. [work[t] EXCEPT !.sent = None, !.staged = FALSE] \in LoadedAt(hist)
      BY <3>1 DEF LoadedAt, Loaded
    <3>3. Active(rows[d][work[t].id], now) =>
              Capture(work[t].id, rows[d][work[t].id]) \in LoadedAt(hist)
      <4>1. rows[d][work[t].id] \in RowAt(hist, work[t].id) \cup {None}
        BY <3>1, TabKnown
      <4>2. QED
        BY <1>1, <3>1, <4>1, CaptureKnown DEF Active
    <3>4. QED
      BY <2>2, <3>2, <3>3 DEF Recovered
  <2>3. QED
    BY <2>1, <2>2
<1>4. Idle \in ControlAt(hist)
  BY DEF Idle, Control, ControlAt
<1>5. ctl' = [ctl EXCEPT ![t] = Idle] /\ work' = [work EXCEPT ![t] = l]
  BY DEF Reload
<1> HIDE DEF l
<1>6. ctl' \in [Tabs -> Control] /\ KnownCtl(hist)'
  BY <1>1, <1>4, <1>5, CtlStep
<1>7. work' \in [Tabs -> Loaded \cup {None}] /\ KnownWork(hist)'
  BY <1>1, <1>3, <1>5, WorkStep
<1>8. wire' \subseteq RequestType /\ KnownWire(hist)'
  BY <1>1, OrphanedKnown DEF Reload, KnownWire
<1>9. QED
  BY <1>1, <1>2, <1>6, <1>7, <1>8, StayKnown DEF IInv, TypeOK, Known

\* A tab closes its Project.
LEMMA CloseStep ==
    ASSUME IInv, NEW t \in Tabs, Close(t) PROVE IInv'
<1>1. /\ hist \in HistType /\ hist' \in HistType /\ Grows(hist, hist') /\ hist' = hist
      /\ UNCHANGED <<cloud, rows, ctl, wire, now, faults>>
      /\ work' = [work EXCEPT ![t] = None]
  BY SameHistory DEF Close
<1>2. work' \in [Tabs -> Loaded \cup {None}] /\ KnownWork(hist)'
  BY <1>1, WorkStep
<1>3. QED
  BY <1>1, <1>2, StayKnown DEF IInv, TypeOK, Known

\* A request that was left behind reaches the server.
LEMMA DeliverStep ==
    ASSUME IInv, Deliver PROVE IInv'
<1>1. /\ hist \in HistType /\ hist' \in HistType /\ Grows(hist, hist') /\ hist' = hist
      /\ UNCHANGED <<rows, work, now, faults>>
  BY SameHistory DEF Deliver
<1>2. PICK request \in wire :
         /\ wire' = wire \ {request}
         /\ \/ cloud' = Apply(cloud, request) /\ ctl' = Invalidated
            \/ UNCHANGED <<cloud, ctl>>
  BY DEF Deliver
<1>3. wire' \subseteq RequestType /\ KnownWire(hist)'
  BY <1>1, <1>2 DEF IInv, TypeOK, Known, KnownWire
<1>4. request \in SUBSET WriteAt(hist)
  BY DEF IInv, Known, KnownWire
<1>5. cloud' \in [Projects -> SyncProject \cup {None}] /\ KnownCloud(hist)'
  <2>1. CASE cloud' = Apply(cloud, request)
    <3>1. \A p \in Projects : cloud[p] \in ValueAt(hist, p) \cup {None}
      BY DEF IInv, Known, KnownCloud
    <3>2. QED
      BY <1>1, <1>4, <2>1, <3>1, ApplyKnown DEF KnownCloud
  <2>2. CASE UNCHANGED cloud
    BY <1>1, <2>2, StayKnown DEF IInv, TypeOK
  <2>3. QED
    BY <1>2, <2>1, <2>2
<1>6. ctl' \in [Tabs -> Control] /\ KnownCtl(hist)'
  <2>1. CASE ctl' = Invalidated
    <3>1. \A u \in Tabs : [ctl[u] EXCEPT !.changed = TRUE] \in ControlAt(hist)
      BY <1>1, TabKnown, AbandonedKnown
    <3>2. QED
      BY <1>1, <2>1, <3>1 DEF Invalidated, KnownCtl, ControlAt
  <2>2. CASE UNCHANGED ctl
    BY <1>1, <2>2, StayKnown DEF IInv, TypeOK
  <2>3. QED
    BY <1>2, <2>1, <2>2
<1>7. QED
  BY <1>1, <1>3, <1>5, <1>6, StayKnown DEF IInv, TypeOK, Known

\* The clock moves.
LEMMA TickStep ==
    ASSUME IInv, Tick PROVE IInv'
<1>1. /\ hist' \in HistType /\ Grows(hist, hist') /\ hist' = hist
      /\ UNCHANGED <<cloud, rows, work, ctl, wire, faults>> /\ now' \in Nat
  BY SameHistory DEF Tick, IInv, TypeOK
<1>2. QED
  BY <1>1, StayKnown DEF IInv, TypeOK, Known

\* A step that leaves every variable alone.
LEMMA StutterStep ==
    ASSUME IInv, UNCHANGED vars PROVE IInv'
<1>1. /\ hist' \in HistType /\ Grows(hist, hist') /\ hist' = hist
      /\ UNCHANGED <<cloud, rows, work, ctl, wire, now, faults>>
  BY SameHistory DEF vars
<1>2. QED
  BY <1>1, StayKnown DEF IInv, TypeOK, Known

-----------------------------------------------------------------------------
(* The user's edits. *)

\* One new version of one Project.
LEMMA OneEntry ==
    ASSUME IInv, NEW p \in Projects, NEW seen \in SUBSET (Projects \X Nat),
           NEW dead \in BOOLEAN,
           hist' = [hist EXCEPT ![p] = Append(@, Entry(p, seen, dead))]
    PROVE  hist' \in HistType /\ Grows(hist, hist') /\ Fresh(p) \in 1..Len(hist'[p])
<1>1. hist \in HistType
  BY DEF IInv, TypeOK, HistType
<1>2. Entry(p, seen, dead) \in HistEntry
  BY <1>1, EntryType
<1>3. hist'[p] = Append(hist[p], Entry(p, seen, dead))
  BY <1>1 DEF HistType
<1>4. hist' = [q \in Projects |-> hist'[q]] /\ \A q \in Projects : q # p => hist'[q] = hist[q]
  BY <1>1 DEF HistType
<1>5. \A q \in Projects :
          hist'[q] = hist[q] \/ \E e \in HistEntry : hist'[q] = Append(hist[q], e)
  BY <1>2, <1>3, <1>4
<1>6. QED
  BY <1>1, <1>2, <1>3, <1>4, <1>5, HistoryStep

\* One row of the tab's device is replaced by a known one.
LEMMA RowStep ==
    ASSUME IInv, hist' \in HistType, Grows(hist, hist'),
           NEW t \in Tabs, NEW p \in Projects, NEW r \in RowAt(hist', p),
           rows' = [rows EXCEPT ![DeviceOf[t]][p] = r]
    PROVE  rows' \in [Devices -> [Projects -> Row \cup {None}]] /\ KnownRows(hist)'
<1> DEFINE d == DeviceOf[t]
           R == [rows[d] EXCEPT ![p] = r]
<1>1. d \in Devices /\ rows \in [Devices -> [Projects -> Row \cup {None}]]
  BY TabKnown DEF IInv, TypeOK
<1>2. ASSUME NEW q \in Projects PROVE R[q] \in RowAt(hist', q) \cup {None}
  <2>1. hist \in HistType
    BY DEF IInv, TypeOK, HistType
  <2>2. RowAt(hist, q) \subseteq RowAt(hist', q)
    BY <2>1, KnownGrows
  <2>3. rows[d][q] \in RowAt(hist, q) \cup {None}
    BY TabKnown
  <2>4. QED
    BY <1>1, <2>2, <2>3
<1>3. R = [q \in Projects |-> R[q]] /\ rows' = [rows EXCEPT ![d] = R]
  BY <1>1
<1> HIDE DEF R
<1>4. QED
  BY <1>1, <1>2, <1>3, RowsStep

\* An edited envelope is a known row with a new version.
LEMMA EditStep ==
    ASSUME IInv, NEW t \in Tabs, NEW p \in Projects, NEW r, NEW dead \in BOOLEAN,
           Edit(DeviceOf[t], p, r, dead), rows[DeviceOf[t]][p] # None
    PROVE  /\ hist' \in HistType
           /\ Grows(hist, hist')
           /\ Fresh(p) \in 1..Len(hist'[p])
           /\ rows[DeviceOf[t]][p] \in RowAt(hist', p)
           /\ r \in RowAt(hist', p) =>
                 rows' \in [Devices -> [Projects -> Row \cup {None}]] /\ KnownRows(hist)'
<1> DEFINE row == rows[DeviceOf[t]][p]
<1>1. hist \in HistType
  BY DEF IInv, TypeOK, HistType
<1>2. row \in RowAt(hist, p)
  BY TabKnown
<1>3. SeenRow(p, row) \in SUBSET (Projects \X Nat)
  BY <1>1, <1>2, SeenRowType
<1>4. hist' \in HistType /\ Grows(hist, hist') /\ Fresh(p) \in 1..Len(hist'[p])
  BY <1>3, OneEntry DEF Edit
<1>5. row \in RowAt(hist', p)
  BY <1>1, <1>2, <1>4, KnownGrows
<1>6. r \in RowAt(hist', p) =>
          rows' \in [Devices -> [Projects -> Row \cup {None}]] /\ KnownRows(hist)'
  BY <1>4, RowStep DEF Edit
<1>7. QED
  BY <1>4, <1>5, <1>6

\* Deleting a Project.
LEMMA DeleteStep ==
    ASSUME IInv, NEW t \in Tabs, NEW p \in Projects, Delete(t, p) PROVE IInv'
<1> DEFINE row == rows[DeviceOf[t]][p]
           r == Relabel(row, Fresh(p), "PENDING_DELETE", now + UndoWindow)
           l == IF work[t] # None /\ work[t].id = p THEN None ELSE work[t]
<1>1. /\ Edit(DeviceOf[t], p, r, TRUE) /\ row # None
      /\ UNCHANGED <<cloud, ctl, wire, now, faults>>
      /\ work' = [work EXCEPT ![t] = l]
  BY DEF Delete, Active
<1>2. /\ hist' \in HistType /\ Grows(hist, hist') /\ Fresh(p) \in 1..Len(hist'[p])
      /\ row \in RowAt(hist', p)
      /\ r \in RowAt(hist', p) =>
             rows' \in [Devices -> [Projects -> Row \cup {None}]] /\ KnownRows(hist)'
  BY <1>1, EditStep
<1>3. r \in RowAt(hist', p)
  <2>1. now + UndoWindow \in Nat /\ "PENDING_DELETE" \in DeletionStates
    BY UndoWindowAssumption DEF IInv, TypeOK, DeletionStates
  <2>2. QED
    BY <1>2, <2>1, RelabelType
<1>4. l \in LoadedAt(hist') \cup {None}
  <2>1. hist \in HistType
    BY DEF IInv, TypeOK, HistType
  <2>2. LoadedAt(hist) \subseteq LoadedAt(hist')
    BY <1>2, <2>1, KnownGrows
  <2>3. QED
    BY <2>2 DEF IInv, Known, KnownWork
<1> HIDE DEF r, l
<1>5. work' \in [Tabs -> Loaded \cup {None}] /\ KnownWork(hist)'
  BY <1>1, <1>2, <1>4, WorkStep
<1>6. QED
  BY <1>1, <1>2, <1>3, <1>5, StayKnown DEF IInv, TypeOK, Known, HistType

\* Undoing a deletion.
LEMMA UndoStep ==
    ASSUME IInv, NEW t \in Tabs, NEW p \in Projects, Undo(t, p) PROVE IInv'
<1> DEFINE row == rows[DeviceOf[t]][p]
           r == Relabel(row, Fresh(p), "ACTIVE", 0)
<1>1. /\ Edit(DeviceOf[t], p, r, FALSE) /\ row # None
      /\ UNCHANGED <<cloud, work, ctl, wire, now, faults>>
  BY DEF Undo
<1>2. /\ hist' \in HistType /\ Grows(hist, hist') /\ Fresh(p) \in 1..Len(hist'[p])
      /\ row \in RowAt(hist', p)
      /\ r \in RowAt(hist', p) =>
             rows' \in [Devices -> [Projects -> Row \cup {None}]] /\ KnownRows(hist)'
  BY <1>1, EditStep
<1>3. r \in RowAt(hist', p)
  <2>1. "ACTIVE" \in DeletionStates
    BY DEF DeletionStates
  <2>2. QED
    BY <1>2, <2>1, RelabelType
<1> HIDE DEF r
<1>4. QED
  BY <1>1, <1>2, <1>3, StayKnown DEF IInv, TypeOK, Known, HistType

\* Keeping or dropping a staged Latest.
LEMMA ImportLatestStep ==
    ASSUME IInv, NEW t \in Tabs, NEW p \in Projects, NEW keep \in BOOLEAN,
           ImportLatest(t, p, keep)
    PROVE  IInv'
<1> DEFINE d == DeviceOf[t]
           row == rows[d][p]
           fresh == NewRow(p, None, Fresh(p), keep, d)
           value == [fresh.value EXCEPT !.deletion = "DELETED", !.token = row.value.token,
                                        !.saved = row.value.saved,
                                        !.latest = IF row.value.saved THEN None ELSE d]
           r == IF keep THEN fresh ELSE [fresh EXCEPT !.value = value]
<1>1. UNCHANGED <<cloud, work, ctl, wire, now, faults>> /\ row # None
  BY DEF ImportLatest
<1>2. d \in Devices
  BY TabKnown
<1>4. Edit(d, p, r, ~keep)
  BY DEF ImportLatest
<1>5. /\ hist' \in HistType /\ Grows(hist, hist') /\ Fresh(p) \in 1..Len(hist'[p])
      /\ row \in RowAt(hist', p)
      /\ r \in RowAt(hist', p) =>
             rows' \in [Devices -> [Projects -> Row \cup {None}]] /\ KnownRows(hist)'
  <2>1. (~keep) \in BOOLEAN
    BY Zenon
  <2>2. PICK dead \in BOOLEAN : dead = ~keep
    BY <2>1
  <2>3. Edit(DeviceOf[t], p, r, dead) /\ rows[DeviceOf[t]][p] # None
    BY <1>1, <1>4, <2>2
  <2> HIDE DEF r, fresh, value
  <2>4. QED
    BY <2>3, EditStep
<1>6. fresh \in RowAt(hist', p)
  BY <1>2, <1>5, NewRowType
<1>7. r \in RowAt(hist', p)
  <2>1. row.value \in SyncProject
    BY <1>5 DEF RowAt, Row
  <2>2. fresh \in Row /\ fresh.value \in SyncProject /\ fresh.value.version \in 1..Len(hist'[p])
    BY <1>6 DEF RowAt, ValueAt
  <2>3. value \in ValueAt(hist', p)
    BY <1>2, <2>1, <2>2 DEF ValueAt, SyncProject, DeletionStates
  <2> HIDE DEF value, fresh
  <2>4. [fresh EXCEPT !.value = value] \in RowAt(hist', p)
    <3>1. [fresh EXCEPT !.value = value] \in Row
      BY <2>2, <2>3 DEF Row, ValueAt
    <3>2. QED
      BY <1>6, <2>2, <2>3, <3>1 DEF RowAt, Row
  <2>5. QED
    BY <1>6, <2>4
<1> HIDE DEF r
<1>8. QED
  BY <1>1, <1>5, <1>7, StayKnown DEF IInv, TypeOK, Known, HistType

\* The entries of discarded Latest.
LEMMA DiscardHistory ==
    ASSUME IInv, NEW t \in Tabs, NEW p \in Projects
    PROVE  LET k == DiscardHist(rows[DeviceOf[t]], p, DeviceOf[t])
               latest == OwnLatest(rows[DeviceOf[t]], p, DeviceOf[t], now)
           IN
           /\ k = [q \in Projects |-> k[q]]
           /\ k[p] = hist[p]
           /\ \A q \in Projects :
                  k[q] = hist[q] \/ \E e \in HistEntry : k[q] = Append(hist[q], e)
           /\ \A q \in latest : q \in Projects /\ \E e \in HistEntry : k[q] = Append(hist[q], e)
<1> DEFINE d == DeviceOf[t]
           k == DiscardHist(rows[d], p, d)
           latest == OwnLatest(rows[d], p, d, now)
<1>1. hist \in HistType
  BY DEF IInv, TypeOK, HistType
<1>2. \A q \in Projects : Entry(q, SeenRow(q, rows[d][q]), TRUE) \in HistEntry
  BY <1>1, TabKnown, SeenRowType, EntryType
<1>3. latest \subseteq Projects /\ p \notin latest
  BY DEF OwnLatest
<1>4. k = [q \in Projects |->
              IF q \in latest
              THEN Append(hist[q], Entry(q, SeenRow(q, rows[d][q]), TRUE)) ELSE hist[q]]
  BY DEF DiscardHist
<1> HIDE DEF k, latest
<1>5. QED
  BY <1>2, <1>3, <1>4 DEF k, latest

\* The rows of discarded Latest.
LEMMA DiscardKnown ==
    ASSUME IInv, NEW t \in Tabs, NEW p \in Projects, NEW group, NEW k \in HistType,
           Grows(hist, k),
           \A q \in OwnLatest(rows[DeviceOf[t]], p, DeviceOf[t], now) :
               group \in Projects \X Nat /\ Fresh(q) \in 1..Len(k[q])
    PROVE  LET R == Discard(rows[DeviceOf[t]], p, DeviceOf[t], group) IN
           /\ R = [q \in Projects |-> R[q]]
           /\ \A q \in Projects : R[q] \in RowAt(k, q) \cup {None}
<1> DEFINE d == DeviceOf[t]
           R == Discard(rows[d], p, d, group)
           latest == OwnLatest(rows[d], p, d, now)
<1>1. ASSUME NEW q \in Projects PROVE R[q] \in RowAt(k, q) \cup {None}
  <2>1. rows[d][q] \in RowAt(k, q) \cup {None}
    <3>1. rows[d][q] \in RowAt(hist, q) \cup {None}
      BY TabKnown
    <3>2. RowAt(hist, q) \subseteq RowAt(k, q)
      <4>1. hist \in HistType
        BY DEF IInv, TypeOK, HistType
      <4>2. QED
        BY <4>1, KnownGrows
    <3>3. QED
      BY <3>1, <3>2
  <2>2. CASE q \in latest
    <3>1. rows[d][q] \in RowAt(k, q)
      BY <2>1, <2>2 DEF OwnLatest, Active
    <3>2. Discarded(rows[d][q], Fresh(q), group) \in RowAt(k, q)
      BY <2>2, <3>1, DiscardedType
    <3>3. QED
      BY <2>2, <3>2 DEF Discard
  <2>3. CASE q \notin latest
    BY <2>1, <2>3 DEF Discard
  <2>4. QED
    BY <2>2, <2>3
<1>2. R = [q \in Projects |-> R[q]]
  BY DEF Discard
<1>3. QED
  BY <1>1, <1>2

\* Opening a Project.
LEMMA OpenStep ==
    ASSUME IInv, NEW t \in Tabs, NEW p \in Projects, Open(t, p) PROVE IInv'
<1> DEFINE d == DeviceOf[t]
           latest == OwnLatest(rows[d], p, d, now)
           q0 == CHOOSE q \in latest : TRUE
           group == <<q0, Fresh(q0)>>
           R == Discard(rows[d], p, d, group)
           l == Capture(p, rows[d][p])
<1>1. /\ rows' = [rows EXCEPT ![d] = R]
      /\ hist' = DiscardHist(rows[d], p, d)
      /\ work' = [work EXCEPT ![t] = l]
      /\ rows[d][p] # None
      /\ UNCHANGED <<cloud, ctl, wire, now, faults>>
  BY DEF Open, Active
<1>2. hist \in HistType
  BY DEF IInv, TypeOK, HistType
<1>3. /\ hist' \in HistType /\ Grows(hist, hist')
      /\ \A q \in latest : Fresh(q) \in 1..Len(hist'[q])
  <2>1. /\ hist' = [q \in Projects |-> hist'[q]]
        /\ \A q \in Projects :
               hist'[q] = hist[q] \/ \E e \in HistEntry : hist'[q] = Append(hist[q], e)
        /\ \A q \in latest : q \in Projects /\ \E e \in HistEntry : hist'[q] = Append(hist[q], e)
    BY <1>1, DiscardHistory
  <2> HIDE DEF latest
  <2>2. QED
    BY <1>2, <2>1, HistoryStep
<1>4. \A q \in latest : group \in Projects \X Nat
  <2>1. ASSUME NEW q \in latest PROVE group \in Projects \X Nat
    <3>1. q0 \in latest
      BY <2>1
    <3> HIDE DEF q0
    <3>2. q0 \in Projects
      BY <3>1 DEF OwnLatest
    <3>3. Fresh(q0) \in Nat
      BY <1>2, <3>2, HistLength DEF Fresh
    <3>4. QED
      BY <3>2, <3>3
  <2>2. QED
    BY <2>1
<1> HIDE DEF group
<1>5. R = [q \in Projects |-> R[q]] /\ \A q \in Projects : R[q] \in RowAt(hist', q) \cup {None}
  BY <1>3, <1>4, DiscardKnown
<1>6. l \in LoadedAt(hist')
  <2>1. rows[d][p] \in RowAt(hist, p)
    BY <1>1, TabKnown
  <2>2. LoadedAt(hist) \subseteq LoadedAt(hist')
    BY <1>2, <1>3, KnownGrows
  <2>3. QED
    BY <1>2, <2>1, <2>2, CaptureKnown
<1> HIDE DEF R, l
<1>7. rows' \in [Devices -> [Projects -> Row \cup {None}]] /\ KnownRows(hist)'
  BY <1>1, <1>3, <1>5, TabKnown, RowsStep
<1>8. work' \in [Tabs -> Loaded \cup {None}] /\ KnownWork(hist)'
  BY <1>1, <1>3, <1>6, WorkStep
<1>9. QED
  BY <1>1, <1>3, <1>7, <1>8, StayKnown DEF IInv, TypeOK, Known, HistType

\* An autosave, a named save, or a save over a row that changed remotely.
LEMMA WriteStep ==
    ASSUME IInv, NEW t \in Tabs, NEW p \in Projects, NEW named \in BOOLEAN,
           Write(t, p, named)
    PROVE  IInv'
<1> DEFINE d == DeviceOf[t]
           rs == rows[d]
           old == rs[p]
           loaded == IF work[t] # None /\ work[t].id = p THEN work[t] ELSE None
           stale == RemoteChanged(loaded, old)
           saved == named \/ (loaded # None /\ loaded.saved)
           new == NewRow(p, IF stale THEN loaded ELSE old, Fresh(p), saved, d)
           next == [new EXCEPT !.conflict = IF stale THEN old.value ELSE None,
                               !.group = IF old # None /\ old.dirty THEN old.group ELSE @]
           seen == IF stale THEN Seen(p, loaded.version) ELSE SeenRow(p, old)
           others == IF saved THEN rs ELSE Discard(rs, p, d, next.group)
           R == [others EXCEPT ![p] = next]
           k == IF saved THEN hist ELSE DiscardHist(rs, p, d)
           latest == OwnLatest(rs, p, d, now)
<1>1. /\ rows' = [rows EXCEPT ![d] = R]
      /\ hist' = [k EXCEPT ![p] = Append(@, Entry(p, seen, FALSE))]
      /\ work' = [work EXCEPT ![t] = Capture(p, next)]
      /\ UNCHANGED <<cloud, ctl, wire, now, faults>>
  BY DEF Write
<1>2. hist \in HistType /\ d \in Devices
  BY TabKnown DEF IInv, TypeOK, HistType
<1>3. old \in RowAt(hist, p) \cup {None}
  BY TabKnown
<1>4. loaded # None => loaded \in LoadedAt(hist) /\ loaded \in Loaded /\ loaded.id = p
  BY DEF IInv, Known, KnownWork, LoadedAt
<1>5. stale => loaded # None /\ old # None
  BY DEF RemoteChanged
<1>6. saved \in BOOLEAN
  BY Zenon
<1>7. seen \in SUBSET (Projects \X Nat)
  <2>1. CASE stale
    <3>1. loaded.version \in 1..Len(hist[p])
      BY <1>4, <1>5, <2>1 DEF LoadedAt
    <3>2. QED
      BY <1>2, <2>1, <3>1, SeenType
  <2>2. CASE ~stale
    BY <1>2, <1>3, <2>2, SeenRowType
  <2>3. QED
    BY <2>1, <2>2
<1>8. Entry(p, seen, FALSE) \in HistEntry
  BY <1>2, <1>7, EntryType
<1>9. /\ k = [q \in Projects |-> k[q]] /\ k[p] = hist[p]
      /\ \A q \in Projects :
             k[q] = hist[q] \/ \E e \in HistEntry : k[q] = Append(hist[q], e)
      /\ ~saved => \A q \in latest : /\ q \in Projects
                                     /\ \E e \in HistEntry : k[q] = Append(hist[q], e)
  <2>1. CASE saved
    BY <1>2, <2>1 DEF HistType
  <2>2. CASE ~saved
    BY <2>2, DiscardHistory
  <2>3. QED
    BY <2>1, <2>2
<1>10. p \notin latest
  BY DEF OwnLatest
<1> HIDE DEF k, latest, seen
<1>11. /\ hist' \in HistType /\ Grows(hist, hist') /\ Fresh(p) \in 1..Len(hist'[p])
       /\ ~saved => \A q \in latest : Fresh(q) \in 1..Len(hist'[q])
  <2>1. hist'[p] = Append(hist[p], Entry(p, seen, FALSE))
    BY <1>1, <1>9
  <2>2. \A q \in Projects : q # p => hist'[q] = k[q]
    BY <1>1, <1>9
  <2>3. hist' = [q \in Projects |-> hist'[q]]
    BY <1>1, <1>9
  <2>4. \A q \in Projects :
            hist'[q] = hist[q] \/ \E e \in HistEntry : hist'[q] = Append(hist[q], e)
    BY <1>8, <1>9, <2>1, <2>2
  <2>5. ~saved => \A q \in latest : /\ q \in Projects
                                    /\ \E e \in HistEntry : hist'[q] = Append(hist[q], e)
    BY <1>9, <1>10, <2>2
  <2>6. QED
    BY <1>2, <1>8, <2>1, <2>3, <2>4, <2>5, HistoryStep
<1>12. /\ RowAt(hist, p) \subseteq RowAt(hist', p)
       /\ LoadedAt(hist) \subseteq LoadedAt(hist')
       /\ \A q \in Projects : RowAt(hist, q) \subseteq RowAt(hist', q)
  BY <1>2, <1>11, KnownGrows
<1>13. new \in RowAt(hist', p)
  <2> DEFINE prev == IF stale THEN loaded ELSE old
  <2>1. prev = None \/ prev \in Row \/ prev \in Loaded
    BY <1>3, <1>4, <1>5 DEF RowAt
  <2>2. prev # None => prev.sent \in SentAt(hist', p) \cup {None}
    <3>1. CASE stale
      BY <1>4, <1>5, <1>12, <3>1 DEF LoadedAt
    <3>2. CASE ~stale
      BY <1>3, <1>12, <3>2 DEF RowAt
    <3>3. QED
      BY <3>1, <3>2
  <2> HIDE DEF prev, saved
  <2>3. NewRow(p, prev, Fresh(p), saved, d) \in RowAt(hist', p)
    BY <1>2, <1>6, <1>11, <2>1, <2>2, NewRowType
  <2>4. QED
    BY <2>3 DEF prev
<1> HIDE DEF new
<1>14. next \in RowAt(hist', p) /\ next.group \in Projects \X Nat
  <2>1. stale => old.value \in ValueAt(hist', p) /\ old.value \in SyncProject
    BY <1>3, <1>5, <1>12 DEF RowAt, ValueAt
  <2>2. old # None => old.group \in Projects \X Nat
    BY <1>3 DEF RowAt, Row
  <2>3. new \in Row
    BY <1>13 DEF RowAt
  <2> HIDE DEF stale, old
  <2>4. /\ next \in Row /\ next.value = new.value /\ next.sent = new.sent /\ next.copy = new.copy
        /\ next.conflict = IF stale THEN old.value ELSE None
    BY <2>1, <2>2, <2>3 DEF Row
  <2>5. next \in RowAt(hist', p)
    BY <1>13, <2>1, <2>4 DEF RowAt
  <2>6. next.group \in Projects \X Nat
    BY <2>4 DEF Row
  <2>7. QED
    BY <2>5, <2>6
<1> HIDE DEF next
<1>15. /\ others = [q \in Projects |-> others[q]]
       /\ \A q \in Projects : others[q] \in RowAt(hist', q) \cup {None}
  <2>1. CASE saved
    BY <1>12, <2>1, TabKnown
  <2>2. CASE ~saved
    BY <1>11, <1>14, <2>2, DiscardKnown DEF latest
  <2>3. QED
    BY <2>1, <2>2
<1> HIDE DEF others
<1>16. R = [q \in Projects |-> R[q]] /\ \A q \in Projects : R[q] \in RowAt(hist', q) \cup {None}
  BY <1>14, <1>15
<1>17. Capture(p, next) \in LoadedAt(hist')
  BY <1>11, <1>14, CaptureKnown
<1> HIDE DEF R
<1>18. rows' \in [Devices -> [Projects -> Row \cup {None}]] /\ KnownRows(hist)'
  BY <1>1, <1>2, <1>11, <1>16, RowsStep
<1>19. work' \in [Tabs -> Loaded \cup {None}] /\ KnownWork(hist)'
  BY <1>1, <1>11, <1>17, WorkStep
<1>20. QED
  BY <1>1, <1>11, <1>18, <1>19, StayKnown DEF IInv, TypeOK, Known, HistType

\* The conflicting group of a resolved row: known rows, unpinned and regrouped.
LEMMA RegroupedKnown ==
    ASSUME IInv, NEW t \in Tabs, NEW p \in Projects, NEW copy, NEW group \in Projects \X Nat
    PROVE  \A q \in Projects :
               Regrouped(rows[DeviceOf[t]], p, copy, group)[q] \in RowAt(hist, q) \cup {None}
<1> DEFINE rs == rows[DeviceOf[t]]
<1> SUFFICES ASSUME NEW q \in Projects
             PROVE  Regrouped(rs, p, copy, group)[q] \in RowAt(hist, q) \cup {None}
  OBVIOUS
<1>1. rs[q] \in RowAt(hist, q) \cup {None}
  BY TabKnown
<1>2. rs[q] # None => [rs[q] EXCEPT !.group = group, !.sent = None] \in RowAt(hist, q)
  <2>1. ASSUME NEW r \in RowAt(hist, q)
        PROVE  [r EXCEPT !.group = group, !.sent = None] \in RowAt(hist, q)
    BY DEF RowAt, Row
  <2>2. QED
    BY <1>1, <2>1
<1>3. \/ Regrouped(rs, p, copy, group)[q] = rs[q]
      \/ rs[q] # None /\ Regrouped(rs, p, copy, group)[q] = [rs[q] EXCEPT !.group = group, !.sent = None]
  BY DEF Regrouped
<1>4. QED
  BY <1>1, <1>2, <1>3

\* The rebased original of a resolved conflict.
LEMMA RebasedKnown ==
    ASSUME NEW h \in HistType, NEW p \in Projects, NEW r \in RowAt(h, p), r.conflict # None,
           NEW content \in SyncProject, NEW copy \in (Projects \cup {None}) \ {p},
           Fresh(p) \in 1..Len(h[p])
    PROVE  Rebased(p, r, content, copy) \in RowAt(h, p)
<1> DEFINE value == [content EXCEPT !.version = Fresh(p), !.token = Fresh(p),
                                    !.revision = r.conflict.revision + 1]
           s == Rebased(p, r, content, copy)
<1>1. r.conflict \in SyncProject
  BY DEF RowAt, ValueAt
<1>2. /\ r.conflict.version \in Nat /\ r.conflict.revision \in Nat
      /\ r.conflict.revision + 1 \in Nat \ {0}
  BY <1>1 DEF SyncProject
<1>3. Fresh(p) \in Nat \ {0}
  OBVIOUS
<1>4. value \in SyncProject /\ value.version = Fresh(p)
  BY <1>2, <1>3 DEF SyncProject
<1>5. value \in ValueAt(h, p)
  BY <1>4 DEF ValueAt
<1> HIDE DEF value
<1>6. s = [base |-> r.conflict.version, baseRev |-> r.conflict.revision, value |-> value,
           dirty |-> TRUE, conflict |-> None, group |-> <<p, Fresh(p)>>, sent |-> None,
           copy |-> copy, staged |-> FALSE]
  BY DEF Rebased, value
<1> HIDE DEF s
<1>7. s \in Row
  BY <1>2, <1>3, <1>4, <1>6 DEF Row
<1>8. QED
  BY <1>5, <1>6, <1>7 DEF RowAt, s

\* The versions a choice takes from the local branch.
LEMMA LocalSeenType ==
    ASSUME IInv, NEW t \in Tabs, NEW p \in Projects, rows[DeviceOf[t]][p] # None
    PROVE  /\ LocalSeen(rows[DeviceOf[t]], p) \in SUBSET (Projects \X Nat)
           /\ StagedCopy(rows[DeviceOf[t]], p) \in (Projects \cup {None}) \ {p}
<1> DEFINE rs == rows[DeviceOf[t]]
           c == StagedCopy(rs, p)
<1>1. hist \in HistType
  BY DEF IInv, TypeOK, HistType
<1>2. \A q \in Projects : SeenRow(q, rs[q]) \subseteq Projects \X Nat
  BY <1>1, TabKnown, SeenRowType
<1>3. c = None \/ c = rs[p].copy
  BY DEF StagedCopy
<1>4. c \in (Projects \cup {None}) \ {p}
  <2>1. rs[p] \in RowAt(hist, p) \cup {None}
    BY TabKnown
  <2>2. QED
    BY <1>3, <2>1, NoneAssumption DEF RowAt, Row
<1> HIDE DEF c, rs
<1>5. QED
  BY <1>2, <1>4 DEF LocalSeen, c, rs

\* The versions of the conflicting remote value.
LEMMA ConflictSeenType ==
    ASSUME IInv, NEW t \in Tabs, NEW p \in Projects, rows[DeviceOf[t]][p] # None,
           rows[DeviceOf[t]][p].conflict # None
    PROVE  /\ Seen(p, rows[DeviceOf[t]][p].conflict.version) \in SUBSET (Projects \X Nat)
           /\ rows[DeviceOf[t]][p].conflict \in SyncProject
<1> DEFINE r == rows[DeviceOf[t]][p]
<1>1. hist \in HistType
  BY DEF IInv, TypeOK, HistType
<1>2. r.conflict \in ValueAt(hist, p)
  BY TabKnown DEF RowAt
<1>3. r.conflict.version \in 1..Len(hist[p])
  BY <1>2 DEF ValueAt
<1>4. QED
  BY <1>1, <1>2, <1>3, SeenType DEF ValueAt

\* Resolving with one of the two branches.
LEMMA ResolveOneStep ==
    ASSUME IInv, NEW t \in Tabs, NEW p \in Projects, NEW content \in SyncProject,
           rows[DeviceOf[t]][p] # None, rows[DeviceOf[t]][p].conflict # None,
           ResolveOne(DeviceOf[t], p, content)
    PROVE  /\ hist' \in HistType
           /\ Grows(hist, hist')
           /\ rows' \in [Devices -> [Projects -> Row \cup {None}]]
           /\ KnownRows(hist)'
<1> DEFINE d == DeviceOf[t]
           rs == rows[d]
           c == StagedCopy(rs, p)
           rest == Regrouped(rs, p, c, <<p, Fresh(p)>>)
           seen == LocalSeen(rs, p) \cup Seen(p, rs[p].conflict.version)
           s == Rebased(p, rs[p], content, None)
           R == [q \in Projects |-> IF q = p THEN s ELSE IF q = c THEN None ELSE rest[q]]
<1>1. /\ rows' = [rows EXCEPT ![d] = R]
      /\ hist' = [hist EXCEPT ![p] = Append(@, Entry(p, seen, FALSE))]
  BY DEF ResolveOne
<1>2. hist \in HistType /\ d \in Devices
  BY TabKnown DEF IInv, TypeOK, HistType
<1>3. seen \in SUBSET (Projects \X Nat)
  BY LocalSeenType, ConflictSeenType
<1> HIDE DEF seen
<1>4. hist' \in HistType /\ Grows(hist, hist') /\ Fresh(p) \in 1..Len(hist'[p])
  BY <1>1, <1>3, OneEntry
<1>5. \A q \in Projects : RowAt(hist, q) \subseteq RowAt(hist', q)
  BY <1>2, <1>4, KnownGrows
<1>6. s \in RowAt(hist', p)
  <2>1. rs[p] \in RowAt(hist', p)
    BY <1>5, TabKnown
  <2>2. None \in (Projects \cup {None}) \ {p}
    BY NoneAssumption
  <2>3. QED
    BY <1>4, <2>1, <2>2, RebasedKnown
<1>7. \A q \in Projects : rest[q] \in RowAt(hist, q) \cup {None}
  <2>1. <<p, Fresh(p)>> \in Projects \X Nat
    BY <1>2, HistLength DEF Fresh
  <2>2. QED
    BY <2>1, RegroupedKnown
<1> HIDE DEF rest, s, c
<1>8. R = [q \in Projects |-> R[q]] /\ \A q \in Projects : R[q] \in RowAt(hist', q) \cup {None}
  BY <1>5, <1>6, <1>7
<1> HIDE DEF R
<1>9. QED
  BY <1>1, <1>2, <1>4, <1>8, RowsStep

\* Resolving with both branches: the original and its copy get one entry each.
LEMMA ResolveBothStep ==
    ASSUME IInv, NEW t \in Tabs, NEW p \in Projects, NEW c \in Projects,
           rows[DeviceOf[t]][p] # None, rows[DeviceOf[t]][p].conflict # None,
           ResolveBoth(DeviceOf[t], p, c)
    PROVE  /\ hist' \in HistType
           /\ Grows(hist, hist')
           /\ rows' \in [Devices -> [Projects -> Row \cup {None}]]
           /\ KnownRows(hist)'
<1> DEFINE d == DeviceOf[t]
           rs == rows[d]
           staged == StagedCopy(rs, p)
           group == <<p, Fresh(p)>>
           rest == Regrouped(rs, p, staged, group)
           s == Rebased(p, rs[p], rs[p].conflict, c)
           new == NewRow(c, None, Fresh(c), TRUE, d)
           copy == [new EXCEPT !.group = group]
           R == [q \in Projects |-> IF q = p THEN s ELSE IF q = c THEN copy ELSE rest[q]]
           ep == Entry(p, Seen(p, rs[p].conflict.version), FALSE)
           ec == Entry(c, LocalSeen(rs, p), FALSE)
<1>1. /\ rows' = [rows EXCEPT ![d] = R]
      /\ hist' = [hist EXCEPT ![p] = Append(@, ep), ![c] = Append(@, ec)]
      /\ IF staged = None THEN hist[c] = <<>> /\ c # p ELSE c = staged
  BY DEF ResolveBoth
<1>2. hist \in HistType /\ d \in Devices
  BY TabKnown DEF IInv, TypeOK, HistType
<1>3. c # p
  BY <1>1, LocalSeenType
<1>4. ep \in HistEntry /\ ec \in HistEntry
  BY <1>2, LocalSeenType, ConflictSeenType, EntryType
<1> HIDE DEF ep, ec
<1>5. /\ hist' \in HistType /\ Grows(hist, hist')
      /\ Fresh(p) \in 1..Len(hist'[p]) /\ Fresh(c) \in 1..Len(hist'[c])
  <2>1. /\ hist' = [q \in Projects |-> hist'[q]]
        /\ hist'[p] = Append(hist[p], ep)
        /\ hist'[c] = Append(hist[c], ec)
        /\ \A q \in Projects : q # p /\ q # c => hist'[q] = hist[q]
    BY <1>1, <1>2, <1>3 DEF HistType
  <2>2. \A q \in Projects :
            hist'[q] = hist[q] \/ \E e \in HistEntry : hist'[q] = Append(hist[q], e)
    BY <1>4, <2>1
  <2>3. QED
    BY <1>2, <1>4, <2>1, <2>2, HistoryStep
<1>6. \A q \in Projects : RowAt(hist, q) \subseteq RowAt(hist', q)
  BY <1>2, <1>5, KnownGrows
<1>7. s \in RowAt(hist', p)
  <2>1. rs[p] \in RowAt(hist', p)
    BY <1>6, TabKnown
  <2>2. rs[p].conflict \in SyncProject
    BY ConflictSeenType
  <2>3. QED
    BY <1>3, <1>5, <2>1, <2>2, RebasedKnown
<1>8. group \in Projects \X Nat
  BY <1>2, HistLength DEF Fresh
<1> HIDE DEF group
<1>9. copy \in RowAt(hist', c)
  <2>1. new \in RowAt(hist', c)
    BY <1>2, <1>5, NewRowType
  <2> HIDE DEF new
  <2>2. QED
    BY <1>8, <2>1 DEF RowAt, Row
<1>10. \A q \in Projects : rest[q] \in RowAt(hist, q) \cup {None}
  BY <1>8, RegroupedKnown
<1> HIDE DEF rest, s, copy
<1>11. R = [q \in Projects |-> R[q]] /\ \A q \in Projects : R[q] \in RowAt(hist', q) \cup {None}
  BY <1>6, <1>7, <1>9, <1>10
<1> HIDE DEF R
<1>12. QED
  BY <1>1, <1>2, <1>5, <1>11, RowsStep

\* Resolving a conflict.
LEMMA ResolveStep ==
    ASSUME IInv, NEW t \in Tabs, NEW p \in Projects, Resolve(t, p) PROVE IInv'
<1> DEFINE d == DeviceOf[t]
           r == rows[d][p]
<1>1. /\ r # None /\ r.conflict # None
      /\ UNCHANGED <<cloud, work, ctl, wire, now, faults>>
      /\ \/ ResolveLocal(d, p)
         \/ ResolveRemote(d, p)
         \/ \E c \in Projects : ResolveBoth(d, p, c)
  BY DEF Resolve
<1>2. r.value \in SyncProject /\ r.conflict \in SyncProject
  BY <1>1, TabKnown, ConflictSeenType DEF RowAt, Row
<1>3. /\ hist' \in HistType
      /\ Grows(hist, hist')
      /\ rows' \in [Devices -> [Projects -> Row \cup {None}]]
      /\ KnownRows(hist)'
  <2>1. CASE ResolveLocal(d, p)
    <3> DEFINE saved == IF StagedCopy(rows[d], p) # None THEN TRUE ELSE r.value.saved
               content == [r.value EXCEPT !.saved = saved]
    <3>1. ResolveOne(d, p, content)
      BY <2>1 DEF ResolveLocal
    <3>2. content \in SyncProject
      BY <1>2 DEF SyncProject
    <3> HIDE DEF content
    <3>3. QED
      BY <1>1, <3>1, <3>2, ResolveOneStep
  <2>2. CASE ResolveRemote(d, p)
    BY <1>1, <1>2, <2>2, ResolveOneStep DEF ResolveRemote
  <2>3. CASE \E c \in Projects : ResolveBoth(d, p, c)
    BY <1>1, <2>3, ResolveBothStep
  <2>4. QED
    BY <1>1, <2>1, <2>2, <2>3
<1>4. QED
  BY <1>1, <1>3, StayKnown DEF IInv, TypeOK, Known, HistType

\* A step of any user.
LEMMA UserStepIInv ==
    ASSUME IInv, NEW t \in Tabs, UserStep(t) PROVE IInv'
BY WriteStep, OpenStep, DeleteStep, UndoStep, ImportLatestStep, ResolveStep, CloseStep
   DEF UserStep

-----------------------------------------------------------------------------
(* The invariant. *)

\* Every step preserves the invariant.
LEMMA NextIInv == IInv /\ [Next]_vars => IInv'
<1> SUFFICES ASSUME IInv, [Next]_vars PROVE IInv'
  OBVIOUS
<1>1. ASSUME NEW t \in Tabs, UserStep(t) PROVE IInv'
  BY <1>1, UserStepIInv
<1>2. ASSUME NEW t \in Tabs, ControllerStep(t) PROVE IInv'
  BY <1>2, ControllerStepIInv
<1>3. ASSUME NEW t \in Tabs, Fail(t) PROVE IInv'
  BY <1>3, FailStep
<1>4. ASSUME NEW t \in Tabs, Reload(t) PROVE IInv'
  BY <1>4, ReloadStep
<1>5. CASE Deliver
  BY <1>5, DeliverStep
<1>6. CASE Tick
  BY <1>6, TickStep
<1>7. CASE UNCHANGED vars
  BY <1>7, StutterStep
<1>8. QED
  BY <1>1, <1>2, <1>3, <1>4, <1>5, <1>6, <1>7 DEF Next

\* Every reachable state is typed and names only versions that were written.
THEOREM TypeCorrect == Spec => []IInv
<1>1. QED
  BY InitIInv, NextIInv, PTL DEF Spec

\* Every variable of Account Sync has its type, in every reachable state.
THEOREM TypesHold == Spec => []TypeOK
<1>1. IInv => TypeOK
  BY DEF IInv
<1>2. QED
  BY <1>1, TypeCorrect, PTL

-----------------------------------------------------------------------------
(* The documents implement the ledger. *)

\* The entry of a document is an entry, and its deadline follows the label.
LEMMA LedgerEntryType ==
    ASSUME NEW doc \in SyncProject
    PROVE  /\ LedgerEntry(doc) \in LedgerEntries
           /\ LedgerEntry(doc).version = doc.version
           /\ LedgerEntry(doc).revision = doc.revision
           /\ doc.deletion = "ACTIVE" => LedgerEntry(doc).ends = None
           /\ doc.deletion = "PENDING_DELETE" => LedgerEntry(doc).ends = doc.until
           /\ doc.deletion = "DELETED" => LedgerEntry(doc).ends = 0
           /\ LedgerEntry(doc) # None
<1> DEFINE ends == CASE doc.deletion = "ACTIVE" -> None
                     [] doc.deletion = "PENDING_DELETE" -> doc.until
                     [] doc.deletion = "DELETED" -> 0
<1>1. /\ doc.deletion = "ACTIVE" => ends = None
      /\ doc.deletion = "PENDING_DELETE" => ends = doc.until
      /\ doc.deletion = "DELETED" => ends = 0
  OBVIOUS
<1>2. ends \in Nat \cup {None}
  BY <1>1 DEF SyncProject, DeletionStates
<1>3. doc # None
  BY NoneAssumption
<1>4. LedgerEntry(doc) = [version |-> doc.version, revision |-> doc.revision, ends |-> ends]
  BY <1>3 DEF LedgerEntry
<1> HIDE DEF ends
<1>5. LedgerEntry(doc) \in LedgerEntries
  BY <1>2, <1>4 DEF LedgerEntries, SyncProject
<1>6. QED
  BY <1>1, <1>4, <1>5, NoneAssumption

\* What the Rules allow to be written follows what is there.
LEMMA AllowedFollows ==
    ASSUME now \in Nat, NEW old \in SyncProject \cup {None}, NEW new \in SyncProject, NEW base,
           IF old = None THEN RulesCreate(new, base, now) ELSE RulesUpdate(old, new, base, now)
    PROVE  Ledger!Follows(LedgerEntry(old), LedgerEntry(new))
<1>1. /\ LedgerEntry(new) # None
      /\ LedgerEntry(new).version = new.version
      /\ LedgerEntry(new).revision = new.revision
  BY LedgerEntryType
<1>2. CASE old = None
  <2>1. LedgerEntry(old) = None
    BY <1>2 DEF LedgerEntry
  <2>2. new.revision = 1
    BY <1>2 DEF RulesCreate
  <2>3. QED
    BY <1>1, <2>1, <2>2 DEF Ledger!Follows, Ledger!Tombstone
<1>3. CASE old # None
  <2>1. old \in SyncProject
    BY <1>3
  <2>2. /\ LedgerEntry(old) # None
        /\ LedgerEntry(old).version = old.version
        /\ LedgerEntry(old).revision = old.revision
    BY <2>1, LedgerEntryType
  <2>3. /\ new.version # old.version
        /\ new.revision = old.revision + 1
        /\ old.deletion = "PENDING_DELETE" /\ new.deletion = "PENDING_DELETE" =>
               new.until = old.until
        /\ RulesDeleted(old, now) => new.deletion = "DELETED"
    BY <1>3 DEF RulesUpdate
  <2>4. LedgerEntry(new).revision = 1 + LedgerEntry(old).revision
    BY <1>1, <2>1, <2>2, <2>3 DEF SyncProject
  <2>5. old.deletion \in DeletionStates /\ new.deletion \in DeletionStates
    BY <2>1 DEF SyncProject
  <2>6. Ledger!Tombstone(LedgerEntry(old)) => LedgerEntry(new).ends = 0
    <3> SUFFICES ASSUME LedgerEntry(old).ends # None, now >= LedgerEntry(old).ends
                 PROVE  LedgerEntry(new).ends = 0
      BY DEF Ledger!Tombstone
    <3>1. old.deletion # "ACTIVE"
      BY <2>1, LedgerEntryType
    <3>2. old.deletion = "PENDING_DELETE" => old.until <= now
      BY <2>1, LedgerEntryType DEF SyncProject
    <3>3. RulesDeleted(old, now)
      BY <2>5, <3>1, <3>2 DEF RulesDeleted, DeletionStates
    <3>4. QED
      BY <2>3, <3>3, LedgerEntryType
  <2>7. \/ LedgerEntry(old).ends = None \/ LedgerEntry(old).ends = 0
        \/ LedgerEntry(new).ends = None \/ LedgerEntry(new).ends = 0
        \/ LedgerEntry(new).ends = LedgerEntry(old).ends
    BY <2>1, <2>3, <2>5, LedgerEntryType DEF DeletionStates
  <2>8. QED
    BY <1>1, <2>2, <2>3, <2>4, <2>6, <2>7 DEF Ledger!Follows
<1>4. QED
  BY <1>2, <1>3

\* A transaction that the server applies publishes entries.
LEMMA ApplyPublishes ==
    ASSUME IInv, NEW request, request \subseteq WriteAt(hist), Applies(cloud, request, now),
           cloud' = Apply(cloud, request), UNCHANGED now
    PROVE  Ledger!Publish
<1>1. ASSUME NEW p \in Projects, LedgerEntry(cloud'[p]) # LedgerEntry(cloud[p])
      PROVE  Ledger!Follows(LedgerEntry(cloud[p]), LedgerEntry(cloud'[p]))
  <2> DEFINE w0 == CHOOSE w \in request : w.id = p /\ w.doc # None
  <2>1. \E w \in request : w.id = p /\ w.doc # None
    BY <1>1 DEF Apply
  <2>2. w0 \in request /\ w0.id = p /\ w0.doc # None
    BY <2>1
  <2>3. cloud'[p] = w0.doc
    BY <2>1 DEF Apply
  <2> HIDE DEF w0
  <2>4. w0.doc \in SyncProject
    BY <2>2 DEF WriteAt
  <2>5. IF cloud[p] = None THEN RulesCreate(w0.doc, w0.base, now)
        ELSE RulesUpdate(cloud[p], w0.doc, w0.base, now)
    BY <2>2 DEF Applies, RulesAllow
  <2>6. cloud[p] \in SyncProject \cup {None} /\ now \in Nat
    BY DEF IInv, TypeOK
  <2>7. QED
    BY <2>3, <2>4, <2>5, <2>6, AllowedFollows
<1>2. QED
  BY <1>1 DEF Ledger!Publish

\* A step that leaves the documents and the clock alone publishes nothing.
LEMMA IdlePublishes ==
    ASSUME UNCHANGED <<cloud, now>>
    PROVE  [Ledger!Publish \/ Ledger!Pass]_<<[p \in Projects |-> LedgerEntry(cloud[p])], now>>
OBVIOUS

\* What the user does on a device leaves the documents and the clock alone.
LEMMA UserLeavesDocuments ==
    ASSUME NEW t \in Tabs, UserStep(t)
    PROVE  UNCHANGED cloud /\ UNCHANGED now
<1>1. ASSUME NEW p \in Projects, NEW named \in BOOLEAN, Write(t, p, named)
      PROVE  UNCHANGED cloud /\ UNCHANGED now
  BY <1>1 DEF Write
<1>2. ASSUME NEW p \in Projects, Open(t, p)
      PROVE  UNCHANGED cloud /\ UNCHANGED now
  BY <1>2 DEF Open
<1>3. ASSUME NEW p \in Projects, Delete(t, p)
      PROVE  UNCHANGED cloud /\ UNCHANGED now
  BY <1>3 DEF Delete
<1>4. ASSUME NEW p \in Projects, Undo(t, p)
      PROVE  UNCHANGED cloud /\ UNCHANGED now
  BY <1>4 DEF Undo
<1>5. ASSUME NEW p \in Projects, NEW keep \in BOOLEAN, ImportLatest(t, p, keep)
      PROVE  UNCHANGED cloud /\ UNCHANGED now
  BY <1>5 DEF ImportLatest
<1>6. ASSUME NEW p \in Projects, Resolve(t, p)
      PROVE  UNCHANGED cloud /\ UNCHANGED now
  BY <1>6 DEF Resolve
<1>7. ASSUME Close(t)
      PROVE  UNCHANGED cloud /\ UNCHANGED now
  BY <1>7 DEF Close
<1>8. QED
  BY <1>1, <1>2, <1>3, <1>4, <1>5, <1>6, <1>7 DEF UserStep

\* Every step of Account Sync is a step of the ledger, or none.
LEMMA NextImplements ==
    ASSUME IInv, [Next]_vars
    PROVE  [Ledger!Publish \/ Ledger!Pass]_<<[p \in Projects |-> LedgerEntry(cloud[p])], now>>
<1>1. ASSUME NEW t \in Tabs, UserStep(t) PROVE UNCHANGED <<cloud, now>>
  BY <1>1, UserLeavesDocuments
<1>2. ASSUME NEW t \in Tabs, ControllerStep(t) PROVE UNCHANGED <<cloud, now>> \/ Ledger!Publish
  <2>1. CASE Commit(t)
    <3> DEFINE request == Request(cloud, ctl[t].batch, now)
    <3>1. UNCHANGED now
      BY <2>1 DEF Commit
    <3>2. \/ UNCHANGED cloud
          \/ Applies(cloud, request, now) /\ cloud' = Apply(cloud, request)
      BY <2>1 DEF Commit
    <3>3. request \subseteq WriteAt(hist)
      <4>1. ctl[t].batch \in SUBSET MutationAt(hist)
        BY DEF IInv, Known, KnownCtl, ControlAt
      <4>2. hist \in HistType /\ now \in Nat
        BY DEF IInv, TypeOK, HistType
      <4>3. \A p \in Projects : cloud[p] \in ValueAt(hist, p) \cup {None}
        BY DEF IInv, Known, KnownCloud
      <4>4. QED
        BY <4>1, <4>2, <4>3, RequestKnown
    <3> HIDE DEF request
    <3>4. QED
      BY <3>1, <3>2, <3>3, ApplyPublishes
  <2>2. CASE ~Commit(t)
    BY <1>2, <2>2 DEF ControllerStep, StartRun, MarkSending, Acknowledge, ReceiveConflicts,
                      ListRemote, ReceiveList, SkipList, ConfirmImports
  <2>3. QED
    BY <2>1, <2>2
<1>3. ASSUME NEW t \in Tabs, Fail(t) \/ Reload(t) PROVE UNCHANGED <<cloud, now>>
  BY <1>3 DEF Fail, Reload
<1>4. CASE Deliver
  <2>1. PICK request \in wire :
            /\ UNCHANGED now
            /\ \/ UNCHANGED cloud
               \/ Applies(cloud, request, now) /\ cloud' = Apply(cloud, request)
    BY <1>4 DEF Deliver
  <2>2. request \subseteq WriteAt(hist)
    BY DEF IInv, Known, KnownWire
  <2>3. UNCHANGED <<cloud, now>> \/ Ledger!Publish
    BY <2>1, <2>2, ApplyPublishes
  <2>4. QED
    BY <2>3, IdlePublishes
<1>5. CASE Tick
  BY <1>5 DEF Tick, Ledger!Pass
<1>6. CASE UNCHANGED vars
  BY <1>6, IdlePublishes DEF vars
<1>7. QED
  BY <1>1, <1>2, <1>3, <1>4, <1>5, <1>6, IdlePublishes DEF Next

\* The ledger starts with the entries that are already synced.
LEMMA InitImplements == Init => Ledger!Init
<1> SUFFICES ASSUME Init PROVE Ledger!Init
  OBVIOUS
<1>1. ASSUME NEW p \in Projects
      PROVE  LedgerEntry(cloud[p]) \in {None} \cup [version : {1}, revision : {1}, ends : {None}]
  <2>1. CASE p \in DOMAIN Seed
    <3>1. cloud[p] = SeedValue(p)
      BY <2>1 DEF Init
    <3>2. SeedValue(p) \in SyncProject
      BY <2>1, SeedAssumption DEF SeedValue, SyncProject, DeletionStates
    <3>3. /\ SeedValue(p).version = 1 /\ SeedValue(p).revision = 1
          /\ SeedValue(p).deletion = "ACTIVE"
      BY DEF SeedValue
    <3> DEFINE e == LedgerEntry(SeedValue(p))
    <3>4. e \in LedgerEntries /\ e.version = 1 /\ e.revision = 1 /\ e.ends = None
      BY <3>2, <3>3, LedgerEntryType
    <3> HIDE DEF e
    <3>5. e \in [version : {1}, revision : {1}, ends : {None}]
      BY <3>4 DEF LedgerEntries
    <3>6. QED
      BY <3>1, <3>5 DEF e
  <2>2. CASE p \notin DOMAIN Seed
    BY <2>2 DEF Init, LedgerEntry
  <2>3. QED
    BY <2>1, <2>2
<1>2. now = 0
  BY DEF Init
<1>3. QED
  BY <1>1, <1>2 DEF Ledger!Init

\* Whatever the devices do, the documents are a ledger: entries of a Project
\* are numbered without gaps, tombstones are final, running deadlines stay.
THEOREM LedgerImplemented == Spec => ImplementsLedger
<1>1. Init => Ledger!Init
  BY InitImplements
<1>2. IInv /\ [Next]_vars =>
          [Ledger!Publish \/ Ledger!Pass]_<<[p \in Projects |-> LedgerEntry(cloud[p])], now>>
  BY NextImplements
<1>3. QED
  BY <1>1, <1>2, TypeCorrect, PTL DEF Spec, ImplementsLedger, Ledger!Spec
-----------------------------------------------------------------------------
(* Nothing is overwritten unseen, where every device has one tab.           *)
(*                                                                          *)
(* A version builds on the base it is sent with.  Edits only add to what a  *)
(* row builds on and leave its base; the base moves to a version the row    *)
(* builds on: one received as the row's own or its pinned operation's, one  *)
(* the user chose against, or the one in flight.  For the last the row has  *)
(* to stay what it was pinned as until the reply is there; that nobody else *)
(* works on the rows meanwhile is where a second tab would break it.        *)

OneTabPerDevice == \A t, u \in Tabs : DeviceOf[t] = DeviceOf[u] => t = u

\* What version v of Project p builds on in the history h.
SeenAt(h, p, v) == IF v = 0 THEN {} ELSE h[p][v].seen

\* An operation builds on the version it expects.
Descends(h, m) == m.expected # 0 => <<m.id, m.expected>> \in SeenAt(h, m.id, m.value.version)

\* So does version v on a base and a pinned operation.
Builds(h, p, base, sent, v) ==
    /\ base # 0 => <<p, base>> \in SeenAt(h, p, v)
    /\ sent # None => Descends(h, sent) /\ <<p, sent.value.version>> \in SeenAt(h, p, v)

RowBuilt(h, p, r) == r # None => Builds(h, p, r.base, r.sent, r.value.version)
LoadedBuilt(h, l) == l # None => Builds(h, l.id, l.base, l.sent, l.version)
ControlBuilt(h, k) == /\ \A batch \in k.queue : \A m \in batch : Descends(h, m)
                      /\ \A m \in k.batch : Descends(h, m)
WriteBuilt(h, w) == w.doc # None /\ w.base # 0 =>
                        <<w.id, w.base>> \in SeenAt(h, w.id, w.doc.version)

\* The row of an operation in flight is still the one it was sent from, edited.
Pinned(h, r, m) ==
    r # None => /\ r.dirty
                /\ r.conflict = None
                /\ ~r.staged
                /\ r.base = m.expected =>
                       <<m.id, m.value.version>> \in SeenAt(h, m.id, r.value.version)

Flying(k) == k.pc \in {"commit", "committed"}
HeldBy(t) == Flying(ctl[t]) =>
                 \A m \in ctl[t].batch : Pinned(hist, rows[DeviceOf[t]][m.id], m)

\* Every version builds on itself.
SelfSeen(h) == \A p \in Projects : \A v \in 1..Len(h[p]) : <<p, v>> \in h[p][v].seen

Built ==
    /\ SelfSeen(hist)
    /\ \A d \in Devices, p \in Projects : RowBuilt(hist, p, rows[d][p])
    /\ \A t \in Tabs : LoadedBuilt(hist, work[t])
    /\ \A t \in Tabs : ControlBuilt(hist, ctl[t])
    /\ \A request \in wire : \A w \in request : WriteBuilt(hist, w)
    /\ \A t \in Tabs : HeldBy(t)

\* Versions are added to a history, and never changed.
Extends(h, k) ==
    \A p \in Projects : Len(h[p]) <= Len(k[p]) /\ \A v \in 1..Len(h[p]) : k[p][v] = h[p][v]

\* A step adds a version of Project p that builds on seen.
Adds(p, seen) == \E dead \in BOOLEAN : hist'[p] = Append(hist[p], Entry(p, seen, dead))

\* An element is added at the end of a sequence.
LEMMA AppendAt ==
    ASSUME NEW S, NEW s \in Seq(S), NEW e
    PROVE  /\ Len(Append(s, e)) = Len(s) + 1
           /\ Append(s, e)[Len(s) + 1] = e
           /\ \A i \in 1..Len(s) : Append(s, e)[i] = s[i]
OBVIOUS

\* A step that adds versions extends the history, and they build on themselves.
LEMMA HistoryExtends ==
    ASSUME IInv, SelfSeen(hist),
           \A p \in Projects : hist'[p] = hist[p] \/ \E seen : Adds(p, seen)
    PROVE  /\ Extends(hist, hist')
           /\ SelfSeen(hist')
           /\ \A p \in Projects : \A seen :
                  Adds(p, seen) => SeenAt(hist', p, Fresh(p)) = {<<p, Fresh(p)>>} \cup seen
<1>1. hist \in HistType
  BY DEF IInv, TypeOK, HistType
<1>2. ASSUME NEW p \in Projects, NEW seen, Adds(p, seen)
      PROVE  /\ Len(hist'[p]) = Len(hist[p]) + 1
             /\ hist'[p][Fresh(p)].seen = {<<p, Fresh(p)>>} \cup seen
             /\ \A v \in 1..Len(hist[p]) : hist'[p][v] = hist[p][v]
             /\ Len(hist[p]) \in Nat
  <2>1. PICK e : hist'[p] = Append(hist[p], e) /\ e.seen = {<<p, Fresh(p)>>} \cup seen
    BY <1>2 DEF Adds, Entry
  <2>2. hist[p] \in Seq(HistEntry) /\ Len(hist[p]) \in Nat
    BY <1>1, HistLength
  <2>3. QED
    BY <2>1, <2>2, AppendAt DEF Fresh
<1>3. ASSUME NEW p \in Projects
      PROVE  Len(hist[p]) <= Len(hist'[p]) /\ \A v \in 1..Len(hist[p]) : hist'[p][v] = hist[p][v]
  <2>1. Len(hist[p]) \in Nat
    BY <1>1, HistLength
  <2>2. QED
    BY <1>2, <2>1
<1>4. ASSUME NEW p \in Projects, NEW v \in 1..Len(hist'[p]) PROVE <<p, v>> \in hist'[p][v].seen
  <2>1. CASE hist'[p] = hist[p]
    BY <1>4, <2>1 DEF SelfSeen
  <2>2. CASE hist'[p] # hist[p]
    <3>1. PICK seen : Adds(p, seen)
      BY <2>2
    <3>2. CASE v \in 1..Len(hist[p])
      BY <1>2, <3>1, <3>2 DEF SelfSeen
    <3>3. CASE v \notin 1..Len(hist[p])
      <4>1. PICK n \in Nat : n = Len(hist[p])
        BY <1>2, <3>1
      <4>2. v \in 1..(n + 1) /\ v \notin 1..n
        BY <1>2, <1>4, <3>1, <3>3, <4>1
      <4>3. v = n + 1
        BY ONLY <4>1, <4>2
      <4>4. v = Fresh(p)
        BY <4>1, <4>3 DEF Fresh
      <4>5. QED
        BY <1>2, <3>1, <4>4
    <3>4. QED
      BY <3>2, <3>3
  <2>3. QED
    BY <2>1, <2>2
<1>5. ASSUME NEW p \in Projects, NEW seen, Adds(p, seen)
      PROVE  SeenAt(hist', p, Fresh(p)) = {<<p, Fresh(p)>>} \cup seen
  <2>1. Fresh(p) # 0
    BY <1>2, <1>5 DEF Fresh
  <2>2. QED
    BY <1>2, <1>5, <2>1 DEF SeenAt
<1>6. QED
  BY <1>3, <1>4, <1>5 DEF Extends, SelfSeen

\* What is built stays built as versions are added.
LEMMA BuiltGrows ==
    ASSUME NEW h \in HistType, NEW k \in HistType, Extends(h, k)
    PROVE  /\ \A p \in Projects : \A v \in 1..Len(h[p]) : SeenAt(k, p, v) = SeenAt(h, p, v)
           /\ \A m \in MutationAt(h) : Descends(h, m) => Descends(k, m)
           /\ \A p \in Projects : \A r : r \in RowAt(h, p) /\ RowBuilt(h, p, r) => RowBuilt(k, p, r)
           /\ \A l \in LoadedAt(h) : LoadedBuilt(h, l) => LoadedBuilt(k, l)
           /\ \A w \in WriteAt(h) : WriteBuilt(h, w) => WriteBuilt(k, w)
           /\ \A m \in MutationAt(h) : \A r : r \in RowAt(h, m.id) /\ Pinned(h, r, m) => Pinned(k, r, m)
<1>1. \A p \in Projects : \A v \in 1..Len(h[p]) : SeenAt(k, p, v) = SeenAt(h, p, v)
  BY DEF SeenAt, Extends
<1>2. \A m \in MutationAt(h) : Descends(h, m) => Descends(k, m)
  BY <1>1 DEF Descends, MutationAt, ValueAt, SyncMutation
<1>3. \A p \in Projects : SentAt(h, p) \subseteq MutationAt(h)
  BY SentIsMutation
<1>4. ASSUME NEW p \in Projects, NEW base, NEW sent \in SentAt(h, p) \cup {None}, NEW v \in 1..Len(h[p]),
             Builds(h, p, base, sent, v)
      PROVE  Builds(k, p, base, sent, v)
  BY <1>1, <1>2, <1>3, <1>4 DEF Builds
<1>5. \A p \in Projects : \A r : r \in RowAt(h, p) /\ RowBuilt(h, p, r) => RowBuilt(k, p, r)
  BY <1>4 DEF RowBuilt, RowAt, ValueAt
<1>6. \A l \in LoadedAt(h) : LoadedBuilt(h, l) => LoadedBuilt(k, l)
  BY <1>4 DEF LoadedBuilt, LoadedAt, Loaded
<1>7. \A w \in WriteAt(h) : WriteBuilt(h, w) => WriteBuilt(k, w)
  BY <1>1 DEF WriteBuilt, WriteAt, ValueAt
<1>8. ASSUME NEW m \in MutationAt(h), NEW r \in RowAt(h, m.id), Pinned(h, r, m) PROVE Pinned(k, r, m)
  <2>1. m.id \in Projects /\ r.value.version \in 1..Len(h[m.id])
    BY <1>8 DEF MutationAt, SyncMutation, RowAt, ValueAt
  <2>2. SeenAt(k, m.id, r.value.version) = SeenAt(h, m.id, r.value.version)
    BY <1>1, <2>1
  <2>3. QED
    BY <1>8, <2>2 DEF Pinned
<1>9. QED
  BY <1>1, <1>2, <1>5, <1>6, <1>7, <1>8

\* The row s is the row r, edited: it keeps the base and builds on more.
Continues(h, k, p, r, s) ==
    /\ s.base = r.base
    /\ s.sent \in {r.sent, None}
    /\ SeenAt(h, p, r.value.version) \subseteq SeenAt(k, p, s.value.version)
    /\ r.dirty => s.dirty
    /\ s.conflict = r.conflict
    /\ s.staged => r.staged

\* An edited row is built, and stays that of an operation in flight.
LEMMA EditedBuilt ==
    ASSUME NEW h \in HistType, NEW k \in HistType, Extends(h, k), NEW p \in Projects,
           NEW r \in RowAt(h, p), r # None, NEW s, Continues(h, k, p, r, s), RowBuilt(h, p, r)
    PROVE  /\ RowBuilt(k, p, s)
           /\ \A m \in MutationAt(h) : m.id = p /\ Pinned(h, r, m) => Pinned(k, s, m)
<1>1. r.sent # None => Descends(k, r.sent)
  <2>1. r.sent # None => r.sent \in MutationAt(h)
    BY SentIsMutation DEF RowAt
  <2>2. QED
    BY <2>1, BuiltGrows DEF RowBuilt, Builds
<1>2. RowBuilt(k, p, s)
  BY <1>1 DEF RowBuilt, Builds, Continues
<1>3. QED
  BY <1>2 DEF Pinned, Continues

\* Parts a step leaves alone stay built.
LEMMA StayBuilt ==
    ASSUME IInv, IInv', Built, Extends(hist, hist')
    PROVE  /\ \A d \in Devices, p \in Projects :
                  rows'[d][p] = rows[d][p] => RowBuilt(hist', p, rows'[d][p])
           /\ \A t \in Tabs : work'[t] = work[t] => LoadedBuilt(hist', work'[t])
           /\ \A t \in Tabs :
                  ctl'[t].queue \subseteq ctl[t].queue /\ ctl'[t].batch \subseteq ctl[t].batch
                      => ControlBuilt(hist', ctl'[t])
           /\ \A request \in wire : \A w \in request : WriteBuilt(hist', w)
           /\ \A t \in Tabs :
                  /\ rows'[DeviceOf[t]] = rows[DeviceOf[t]]
                  /\ Flying(ctl'[t]) => Flying(ctl[t]) /\ ctl'[t].batch = ctl[t].batch
                  => HeldBy(t)'
<1>1. hist \in HistType /\ hist' \in HistType
  BY DEF IInv, TypeOK, HistType
<1>2. ASSUME NEW d \in Devices, NEW p \in Projects, rows'[d][p] = rows[d][p]
      PROVE  RowBuilt(hist', p, rows'[d][p])
  <2>1. rows[d][p] \in RowAt(hist, p) \cup {None} /\ RowBuilt(hist, p, rows[d][p])
    BY DEF IInv, Known, KnownRows, Built
  <2>2. RowBuilt(hist', p, rows[d][p])
    BY <1>1, <2>1, BuiltGrows DEF RowBuilt
  <2>3. QED
    BY <1>2, <2>2
<1>3. ASSUME NEW t \in Tabs, work'[t] = work[t] PROVE LoadedBuilt(hist', work'[t])
  <2>1. work[t] \in LoadedAt(hist) \cup {None} /\ LoadedBuilt(hist, work[t])
    BY DEF IInv, Known, KnownWork, Built
  <2>2. LoadedBuilt(hist', work[t])
    BY <1>1, <2>1, BuiltGrows DEF LoadedBuilt
  <2>3. QED
    BY <1>3, <2>2
<1>4. ASSUME NEW t \in Tabs,
             ctl'[t].queue \subseteq ctl[t].queue, ctl'[t].batch \subseteq ctl[t].batch
      PROVE  ControlBuilt(hist', ctl'[t])
  <2>1. ControlBuilt(hist, ctl[t])
    BY DEF Built
  <2>2. ctl[t].queue \subseteq SUBSET MutationAt(hist) /\ ctl[t].batch \subseteq MutationAt(hist)
    BY DEF IInv, Known, KnownCtl, ControlAt
  <2>3. \A m \in MutationAt(hist) : Descends(hist, m) => Descends(hist', m)
    BY <1>1, BuiltGrows
  <2>4. QED
    BY <1>4, <2>1, <2>2, <2>3 DEF ControlBuilt
<1>5. ASSUME NEW request \in wire, NEW w \in request PROVE WriteBuilt(hist', w)
  <2>1. w \in WriteAt(hist) /\ WriteBuilt(hist, w)
    BY DEF IInv, Known, KnownWire, Built
  <2>2. QED
    BY <1>1, <2>1, BuiltGrows
<1>6. ASSUME NEW t \in Tabs, rows'[DeviceOf[t]] = rows[DeviceOf[t]],
             Flying(ctl'[t]) => Flying(ctl[t]) /\ ctl'[t].batch = ctl[t].batch
      PROVE  HeldBy(t)'
  <2>1. SUFFICES ASSUME Flying(ctl[t]), NEW m \in ctl[t].batch
                 PROVE  Pinned(hist', rows[DeviceOf[t]][m.id], m)
    BY <1>6 DEF HeldBy
  <2>2. Pinned(hist, rows[DeviceOf[t]][m.id], m)
    BY <2>1 DEF Built, HeldBy
  <2>3. m \in MutationAt(hist) /\ m.id \in Projects
    BY DEF IInv, Known, KnownCtl, ControlAt, MutationAt, SyncMutation
  <2>4. rows[DeviceOf[t]][m.id] \in RowAt(hist, m.id) \cup {None}
    BY <2>3, TabKnown
  <2>5. QED
    BY <1>1, <2>2, <2>3, <2>4, BuiltGrows DEF Pinned
<1>7. QED
  BY <1>2, <1>3, <1>4, <1>5, <1>6

\* Rows of a device that a user's step replaces: built, and still those of every
\* operation in flight that they were.
Kept(d) ==
    /\ \A e \in Devices : e # d => rows'[e] = rows[e]
    /\ \A p \in Projects :
           /\ RowBuilt(hist', p, rows'[d][p])
           /\ \A m \in MutationAt(hist) : m.id = p /\ Pinned(hist, rows[d][p], m)
                                              => Pinned(hist', rows'[d][p], m)

\* A user's step that keeps the rows, and leaves the tab a built row.
LEMMA UserBuilt ==
    ASSUME IInv, IInv', Built, NEW t \in Tabs, UNCHANGED <<ctl, wire>>,
           Extends(hist, hist'), SelfSeen(hist'), Kept(DeviceOf[t]),
           \A u \in Tabs \ {t} : work'[u] = work[u], LoadedBuilt(hist', work'[t])
    PROVE  Built'
<1>1. \A d \in Devices, p \in Projects : RowBuilt(hist', p, rows'[d][p])
  BY StayBuilt DEF Kept
<1>2. \A u \in Tabs : LoadedBuilt(hist', work'[u])
  BY StayBuilt
<1>3. \A u \in Tabs : ControlBuilt(hist', ctl'[u])
  BY StayBuilt
<1>4. \A request \in wire' : \A w \in request : WriteBuilt(hist', w)
  BY StayBuilt
<1>5. ASSUME NEW u \in Tabs PROVE HeldBy(u)'
  <2>1. CASE DeviceOf[u] # DeviceOf[t]
    <3>1. rows'[DeviceOf[u]] = rows[DeviceOf[u]]
      BY <2>1, TabKnown DEF Kept
    <3>2. QED
      BY <3>1, StayBuilt
  <2>2. CASE DeviceOf[u] = DeviceOf[t]
    <3>1. SUFFICES ASSUME Flying(ctl[u]), NEW m \in ctl[u].batch
                   PROVE  Pinned(hist', rows'[DeviceOf[t]][m.id], m)
      BY <2>2 DEF HeldBy
    <3>2. Pinned(hist, rows[DeviceOf[t]][m.id], m)
      BY <2>2, <3>1 DEF Built, HeldBy
    <3>3. m \in MutationAt(hist) /\ m.id \in Projects
      BY DEF IInv, Known, KnownCtl, ControlAt, MutationAt, SyncMutation
    <3>4. QED
      BY <3>2, <3>3 DEF Kept
  <2>3. QED
    BY <2>1, <2>2
<1>6. QED
  BY <1>1, <1>2, <1>3, <1>4, <1>5 DEF Built

\* A row that was edited, or left alone, is kept.
LEMMA EditKeeps ==
    ASSUME IInv, Built, hist' \in HistType, Extends(hist, hist'), NEW t \in Tabs, NEW p \in Projects, NEW s,
           \/ s = rows[DeviceOf[t]][p]
           \/ rows[DeviceOf[t]][p] # None /\ Continues(hist, hist', p, rows[DeviceOf[t]][p], s)
    PROVE  /\ RowBuilt(hist', p, s)
           /\ \A m \in MutationAt(hist) : m.id = p /\ Pinned(hist, rows[DeviceOf[t]][p], m)
                                              => Pinned(hist', s, m)
<1> DEFINE r == rows[DeviceOf[t]][p]
<1>1. hist \in HistType
  BY DEF IInv, TypeOK, HistType
<1>2. r \in RowAt(hist, p) \cup {None} /\ RowBuilt(hist, p, r)
  BY TabKnown DEF Built
<1>3. CASE r = None /\ s = r
  BY <1>3 DEF RowBuilt, Pinned
<1>4. CASE r # None /\ s = r
  BY <1>1, <1>2, <1>4, BuiltGrows
<1>5. CASE r # None /\ Continues(hist, hist', p, r, s)
  BY <1>1, <1>2, <1>5, EditedBuilt
<1>6. QED
  BY <1>3, <1>4, <1>5

\* The operators that edit a row continue it, once its version is in the history.
LEMMA RelabelContinues ==
    ASSUME NEW h \in HistType, NEW k, NEW p \in Projects, NEW r \in RowAt(h, p), NEW n,
           SeenAt(h, p, r.value.version) \subseteq SeenAt(k, p, n), NEW deletion, NEW until, NEW group
    PROVE  /\ Continues(h, k, p, r, Relabel(r, n, deletion, until))
           /\ Continues(h, k, p, r, Discarded(r, n, group))
<1> DEFINE s == Relabel(r, n, deletion, until)
<1>0. r # None /\ None \notin Row
  BY NoneAssumption DEF RowAt
<1>1. r \in Row /\ r.value \in SyncProject
  BY DEF RowAt, Row
<1>2. ASSUME NEW del, NEW til
      PROVE  LET s1 == Relabel(r, n, del, til) IN
             /\ s1.base = r.base /\ s1.sent = r.sent /\ s1.value.version = n /\ s1.dirty
             /\ s1.conflict = r.conflict /\ s1.staged = r.staged
             /\ LET s2 == [s1 EXCEPT !.group = group] IN
                  /\ s2.base = r.base /\ s2.sent = r.sent /\ s2.value.version = n /\ s2.dirty
                  /\ s2.conflict = r.conflict /\ s2.staged = r.staged
  BY <1>1 DEF Relabel, Row, SyncProject
<1>3. QED
  BY <1>2 DEF Continues, Discarded

\* A new version that builds on all of what the row builds on.
LEMMA AddsToRow ==
    ASSUME IInv, IInv', Built, NEW t \in Tabs, NEW p \in Projects, NEW seen,
           rows[DeviceOf[t]][p] # None, Adds(p, seen), SeenRow(p, rows[DeviceOf[t]][p]) \subseteq seen,
           \A q \in Projects : hist'[q] = hist[q] \/ \E more : Adds(q, more)
    PROVE  LET r == rows[DeviceOf[t]][p] IN
           SeenAt(hist, p, r.value.version) \subseteq SeenAt(hist', p, Fresh(p))
BY HistoryExtends, ZenonT(60) DEF Built, SeenRow, Seen, SeenAt

\* Edits of one row.
LEMMA EditBuilt ==
    ASSUME IInv, IInv', Built, NEW t \in Tabs, NEW p \in Projects, NEW s, NEW dead \in BOOLEAN,
           rows[DeviceOf[t]][p] # None, Edit(DeviceOf[t], p, s, dead), UNCHANGED <<ctl, wire>>,
           \A u \in Tabs \ {t} : work'[u] = work[u], work'[t] \in {work[t], None},
           \/ \E deletion, until : s = Relabel(rows[DeviceOf[t]][p], Fresh(p), deletion, until)
           \/ rows[DeviceOf[t]][p].staged /\ s.base = 0 /\ s.sent = None
    PROVE  Built'
<1> DEFINE d == DeviceOf[t]
           r == rows[d][p]
<1>1. d \in Devices /\ r \in RowAt(hist, p) /\ hist \in HistType /\ hist' \in HistType
  BY TabKnown DEF IInv, TypeOK, HistType
<1>2. /\ rows' = [rows EXCEPT ![d][p] = s]
      /\ hist' = [hist EXCEPT ![p] = Append(@, Entry(p, SeenRow(p, r), dead))]
  BY DEF Edit
<1>3. /\ Adds(p, SeenRow(p, r))
      /\ \A q \in Projects : hist'[q] = hist[q] \/ \E more : Adds(q, more)
  BY <1>1, <1>2 DEF Adds, HistType
<1>4. Extends(hist, hist') /\ SelfSeen(hist')
  BY <1>3, HistoryExtends DEF Built
<1>5. SeenAt(hist, p, r.value.version) \subseteq SeenAt(hist', p, Fresh(p))
  BY <1>3, AddsToRow
<1>6. /\ RowBuilt(hist', p, s)
      /\ \A m \in MutationAt(hist) : m.id = p /\ Pinned(hist, r, m) => Pinned(hist', s, m)
  <2>1. CASE \E deletion, until : s = Relabel(r, Fresh(p), deletion, until)
    <3>1. PICK deletion, until : s = Relabel(r, Fresh(p), deletion, until)
      BY <2>1
    <3> HIDE DEF r
    <3>2. Continues(hist, hist', p, r, Relabel(r, Fresh(p), deletion, until))
      BY <1>1, <1>5, RelabelContinues
    <3>3. Continues(hist, hist', p, r, s)
      BY <3>1, <3>2
    <3>4. QED
      BY <1>1, <1>4, <3>3, EditKeeps DEF r
  <2>2. CASE r.staged /\ s.base = 0 /\ s.sent = None
    BY <2>2 DEF RowBuilt, Builds, Pinned
  <2>3. QED
    BY <2>1, <2>2
<1>7. /\ \A e \in Devices : e # d => rows'[e] = rows[e]
      /\ rows'[d][p] = s
      /\ \A q \in Projects \ {p} : rows'[d][q] = rows[d][q]
  BY <1>1, <1>2 DEF IInv, TypeOK
<1>8. Kept(d)
  BY <1>1, <1>4, <1>6, <1>7, EditKeeps DEF Kept
<1>9. LoadedBuilt(hist', work'[t])
  BY <1>4, StayBuilt DEF LoadedBuilt
<1>10. QED
  BY <1>4, <1>8, <1>9, UserBuilt

\* Deleting a Project, undoing that, and deciding on a staged Latest.
LEMMA EnvelopeBuilt ==
    ASSUME IInv, IInv', Built, NEW t \in Tabs, NEW p \in Projects, NEW keep \in BOOLEAN,
           Delete(t, p) \/ Undo(t, p) \/ ImportLatest(t, p, keep)
    PROVE  Built'
<1> DEFINE d == DeviceOf[t]
<1>1. CASE Delete(t, p)
  BY <1>1, EditBuilt DEF Delete, Active, IInv, TypeOK
<1>2. CASE Undo(t, p)
  BY <1>2, EditBuilt DEF Undo
<1>3. CASE ImportLatest(t, p, keep)
  <2> DEFINE fresh == NewRow(p, None, Fresh(p), keep, d)
             value == [fresh.value EXCEPT !.deletion = "DELETED",
                                          !.token = rows[d][p].value.token,
                                          !.saved = rows[d][p].value.saved,
                                          !.latest = IF rows[d][p].value.saved THEN None ELSE d]
             next == IF keep THEN fresh ELSE [fresh EXCEPT !.value = value]
  <2>1. /\ Edit(d, p, next, ~keep) /\ rows[d][p] # None /\ rows[d][p].staged
        /\ UNCHANGED <<work, ctl, wire>>
    BY <1>3 DEF ImportLatest
  <2>2. fresh.base = 0 /\ fresh.sent = None
    BY DEF NewRow
  <2>3. [fresh EXCEPT !.value = value].base = 0 /\ [fresh EXCEPT !.value = value].sent = None
    BY DEF NewRow
  <2> HIDE DEF fresh, value
  <2>4. next.base = 0 /\ next.sent = None
    BY <2>2, <2>3
  <2> HIDE DEF next
  <2>5. QED
    BY <2>1, <2>4, EditBuilt
<1>4. QED
  BY <1>1, <1>2, <1>3

\* The discarded Latest are edited; every other row stays.
LEMMA DiscardKeeps ==
    ASSUME IInv, IInv', Built, NEW t \in Tabs, NEW p \in Projects, NEW group,
           \A q \in Projects : hist'[q] = hist[q] \/ \E more : Adds(q, more),
           \A q \in OwnLatest(rows[DeviceOf[t]], p, DeviceOf[t], now) :
               Adds(q, SeenRow(q, rows[DeviceOf[t]][q]))
    PROVE  LET R == Discard(rows[DeviceOf[t]], p, DeviceOf[t], group) IN
           \A q \in Projects :
               \/ R[q] = rows[DeviceOf[t]][q]
               \/ rows[DeviceOf[t]][q] # None
                    /\ Continues(hist, hist', q, rows[DeviceOf[t]][q], R[q])
<1> DEFINE d == DeviceOf[t]
           latest == OwnLatest(rows[d], p, d, now)
           R == Discard(rows[d], p, d, group)
<1>1. ASSUME NEW q \in Projects, q \in latest
      PROVE  rows[d][q] # None /\ Continues(hist, hist', q, rows[d][q], R[q])
  <2>1. rows[d][q] # None /\ rows[d][q] \in RowAt(hist, q) /\ hist \in HistType
    BY <1>1, TabKnown DEF OwnLatest, Active, IInv, TypeOK, HistType
  <2>2. SeenAt(hist, q, rows[d][q].value.version) \subseteq SeenAt(hist', q, Fresh(q))
    BY <1>1, <2>1, AddsToRow
  <2>3. R[q] = Discarded(rows[d][q], Fresh(q), group)
    BY <1>1 DEF Discard
  <2>4. QED
    BY <2>1, <2>2, <2>3, RelabelContinues
<1>2. ASSUME NEW q \in Projects, q \notin latest PROVE R[q] = rows[d][q]
  BY <1>2 DEF Discard
<1>3. QED
  BY <1>1, <1>2

\* What DiscardHist adds.
LEMMA DiscardAdds ==
    ASSUME IInv, NEW t \in Tabs, NEW p \in Projects
    PROVE  LET k == DiscardHist(rows[DeviceOf[t]], p, DeviceOf[t]) IN
           /\ \A q \in OwnLatest(rows[DeviceOf[t]], p, DeviceOf[t], now) :
                  q \in Projects \ {p}
                  /\ k[q] = Append(hist[q], Entry(q, SeenRow(q, rows[DeviceOf[t]][q]), TRUE))
           /\ \A q \in Projects \ OwnLatest(rows[DeviceOf[t]], p, DeviceOf[t], now) : k[q] = hist[q]
           /\ k = [q \in Projects |-> k[q]]
BY DEF DiscardHist, OwnLatest

\* Opening a Project.
LEMMA OpenBuilt ==
    ASSUME IInv, IInv', Built, NEW t \in Tabs, NEW p \in Projects, Open(t, p) PROVE Built'
<1> DEFINE d == DeviceOf[t]
           latest == OwnLatest(rows[d], p, d, now)
           group == LET q == CHOOSE q \in latest : TRUE IN <<q, Fresh(q)>>
           R == Discard(rows[d], p, d, group)
           l == Capture(p, rows[d][p])
<1>1. /\ rows' = [rows EXCEPT ![d] = R]
      /\ hist' = DiscardHist(rows[d], p, d)
      /\ work' = [work EXCEPT ![t] = l]
      /\ rows[d][p] # None
      /\ UNCHANGED <<cloud, ctl, wire, now, faults>>
  BY DEF Open, Active
<1> HIDE DEF group
<1>2. d \in Devices /\ hist \in HistType /\ hist' \in HistType
  BY TabKnown DEF IInv, TypeOK, HistType
<1>3. /\ \A q \in Projects : hist'[q] = hist[q] \/ \E more : Adds(q, more)
      /\ \A q \in latest : Adds(q, SeenRow(q, rows[d][q]))
  <2>1. \A q \in latest : hist'[q] = Append(hist[q], Entry(q, SeenRow(q, rows[d][q]), TRUE))
    BY <1>1, DiscardAdds
  <2>2. \A q \in Projects \ latest : hist'[q] = hist[q]
    BY <1>1 DEF DiscardHist
  <2> HIDE DEF latest
  <2>3. QED
    BY <2>1, <2>2 DEF Adds
<1>4. Extends(hist, hist') /\ SelfSeen(hist')
  BY <1>3, HistoryExtends DEF Built
<1>5. \A q \in Projects : \/ R[q] = rows[d][q]
                          \/ rows[d][q] # None /\ Continues(hist, hist', q, rows[d][q], R[q])
  BY <1>3, DiscardKeeps
<1>6. /\ \A e \in Devices : e # d => rows'[e] = rows[e]
      /\ rows'[d] = R
  BY <1>1, <1>2 DEF IInv, TypeOK
<1>7. Kept(d)
  BY <1>2, <1>4, <1>5, <1>6, EditKeeps DEF Kept
<1>8. LoadedBuilt(hist', work'[t])
  <2>1. work'[t] = l
    BY <1>1 DEF IInv, TypeOK
  <2>2. RowBuilt(hist', p, rows[d][p])
    BY <1>2, <1>4, EditKeeps
  <2>3. PICK r : r = rows[d][p]
    OBVIOUS
  <2>4. Builds(hist', p, r.base, r.sent, r.value.version)
    BY <1>1, <2>2, <2>3 DEF RowBuilt
  <2>5. /\ work'[t].id = p /\ work'[t].base = r.base /\ work'[t].sent = r.sent
        /\ work'[t].version = r.value.version
    BY <2>1, <2>3 DEF Capture
  <2>6. QED
    BY <2>4, <2>5 DEF LoadedBuilt
<1>9. \A u \in Tabs \ {t} : work'[u] = work[u]
  BY <1>1 DEF IInv, TypeOK
<1>10. QED
  BY <1>1, <1>4, <1>7, <1>8, <1>9, UserBuilt

\* What builds on a base goes on doing so under a version that builds on more.
LEMMA BuildsOn ==
    ASSUME NEW h \in HistType, NEW k \in HistType, Extends(h, k), NEW p \in Projects, NEW base,
           NEW sent \in SentAt(h, p) \cup {None}, NEW v, NEW n, Builds(h, p, base, sent, v),
           SeenAt(h, p, v) \subseteq SeenAt(k, p, n)
    PROVE  Builds(k, p, base, sent, n)
<1>1. sent # None => Descends(k, sent)
  <2>1. sent # None => sent \in MutationAt(h)
    BY SentIsMutation
  <2>2. QED
    BY <2>1, BuiltGrows DEF Builds
<1>2. QED
  BY <1>1 DEF Builds

\* No operation is about a Project without versions.
LEMMA NothingWritten ==
    ASSUME NEW h \in HistType, NEW p \in Projects, h[p] = <<>>
    PROVE  \A m \in MutationAt(h) : m.id # p
BY DEF MutationAt, ValueAt

\* Saving: the new version builds on the row, or on what the tab had loaded.
LEMMA SaveBuilt ==
    ASSUME IInv, IInv', Built, NEW t \in Tabs, NEW p \in Projects, NEW named \in BOOLEAN,
           Write(t, p, named)
    PROVE  Built'
<1> DEFINE d == DeviceOf[t]
           rs == rows[d]
           old == rs[p]
           loaded == IF work[t] # None /\ work[t].id = p THEN work[t] ELSE None
           stale == RemoteChanged(loaded, old)
           saved == named \/ (loaded # None /\ loaded.saved)
           prev == IF stale THEN loaded ELSE old
           new == NewRow(p, prev, Fresh(p), saved, d)
           next == [new EXCEPT !.conflict = IF stale THEN old.value ELSE None,
                               !.group = IF old # None /\ old.dirty THEN old.group ELSE @]
           seen == IF stale THEN Seen(p, loaded.version) ELSE SeenRow(p, old)
           others == IF saved THEN rs ELSE Discard(rs, p, d, next.group)
           R == [others EXCEPT ![p] = next]
           k == IF saved THEN hist ELSE DiscardHist(rs, p, d)
           latest == OwnLatest(rs, p, d, now)
<1>1. /\ rows' = [rows EXCEPT ![d] = R]
      /\ hist' = [k EXCEPT ![p] = Append(@, Entry(p, seen, FALSE))]
      /\ work' = [work EXCEPT ![t] = Capture(p, next)]
      /\ IF loaded = None THEN hist[p] = <<>> ELSE old # None
      /\ ~AnyConflict(rs)
      /\ UNCHANGED <<cloud, ctl, wire, now, faults>>
  BY DEF Write
<1>2. hist \in HistType /\ hist' \in HistType /\ d \in Devices
  BY TabKnown DEF IInv, TypeOK, HistType
<1>3. old \in RowAt(hist, p) \cup {None} /\ RowBuilt(hist, p, old)
  BY TabKnown DEF Built
<1>4. loaded # None => loaded \in LoadedAt(hist) /\ loaded.id = p /\ LoadedBuilt(hist, loaded)
  BY DEF IInv, Known, KnownWork, Built
<1>5. stale => loaded # None /\ old # None /\ ~old.dirty
  BY DEF RemoteChanged
<1>6. /\ next.base = IF prev = None THEN 0 ELSE prev.base
      /\ next.sent = IF prev = None THEN None ELSE prev.sent
      /\ next.staged = IF prev = None THEN FALSE ELSE prev.staged
      /\ next.dirty /\ next.conflict = (IF stale THEN old.value ELSE None)
      /\ next.value.version = Fresh(p)
  BY DEF NewRow
<1> HIDE DEF new, next
<1>7. /\ others = [q \in Projects |-> others[q]]
      /\ R[p] = next /\ \A q \in Projects \ {p} : R[q] = others[q]
  <2>1. rs = [q \in Projects |-> rs[q]]
    BY TabKnown
  <2>2. others = [q \in Projects |-> others[q]]
    BY <2>1 DEF Discard
  <2> HIDE DEF others
  <2>3. QED
    BY <2>2
<1>8. /\ k = [q \in Projects |-> k[q]] /\ k[p] = hist[p]
      /\ \A q \in Projects :
             \/ k[q] = hist[q]
             \/ \E dead \in BOOLEAN : \E more : k[q] = Append(hist[q], Entry(q, more, dead))
      /\ ~saved => \A q \in latest :
                       k[q] = Append(hist[q], Entry(q, SeenRow(q, rs[q]), TRUE))
  <2>1. p \notin latest /\ latest \subseteq Projects
    BY DEF OwnLatest
  <2>2. CASE saved
    BY <1>2, <2>2 DEF HistType
  <2>3. CASE ~saved
    <3>1. k = [q \in Projects |-> IF q \in latest
                                  THEN Append(hist[q], Entry(q, SeenRow(q, rs[q]), TRUE)) ELSE hist[q]]
      BY <2>3 DEF DiscardHist
    <3> HIDE DEF latest, k
    <3>2. QED
      BY <2>1, <3>1
  <2>4. QED
    BY <2>2, <2>3
<1>9. hist'[p] = Append(hist[p], Entry(p, seen, FALSE)) /\ \A q \in Projects \ {p} : hist'[q] = k[q]
  <2> HIDE DEF k, seen
  <2>1. QED
    BY <1>1, <1>8
<1> HIDE DEF k
<1>10. /\ Adds(p, seen)
       /\ \A q \in Projects : hist'[q] = hist[q] \/ \E more : Adds(q, more)
       /\ ~saved => \A q \in latest : Adds(q, SeenRow(q, rs[q]))
  <2>1. p \notin latest /\ latest \subseteq Projects
    BY DEF OwnLatest
  <2> HIDE DEF seen, latest
  <2>2. Adds(p, seen)
    BY <1>9 DEF Adds
  <2>3. ASSUME NEW q \in Projects PROVE hist'[q] = hist[q] \/ \E more : Adds(q, more)
    <3>1. CASE q = p
      BY <2>2, <3>1
    <3>2. CASE q # p
      BY <1>8, <1>9, <3>2 DEF Adds
    <3>3. QED
      BY <3>1, <3>2
  <2>4. ~saved => \A q \in latest : Adds(q, SeenRow(q, rs[q]))
    BY <1>8, <1>9, <2>1 DEF Adds
  <2>5. QED
    BY <2>2, <2>3, <2>4
<1>11. Extends(hist, hist') /\ SelfSeen(hist') /\ SeenAt(hist', p, Fresh(p)) = {<<p, Fresh(p)>>} \cup seen
  BY <1>10, HistoryExtends DEF Built
<1>12. /\ Builds(hist', p, next.base, next.sent, next.value.version)
       /\ \A m \in MutationAt(hist) : m.id = p /\ Pinned(hist, old, m) => Pinned(hist', next, m)
  <2>1. CASE stale
    <3>1. Builds(hist, p, loaded.base, loaded.sent, loaded.version)
      BY <1>4, <1>5, <2>1 DEF LoadedBuilt
    <3>2. SeenAt(hist, p, loaded.version) \subseteq SeenAt(hist', p, Fresh(p))
      BY <1>11, <2>1 DEF Seen, SeenAt
    <3>3. loaded.sent \in SentAt(hist, p) \cup {None}
      BY <1>4, <1>5, <2>1 DEF LoadedAt
    <3>4. next.base = loaded.base /\ next.sent = loaded.sent
      BY <1>5, <1>6, <2>1
    <3> HIDE DEF loaded
    <3>5. Builds(hist', p, loaded.base, loaded.sent, Fresh(p))
      BY <1>2, <1>11, <3>1, <3>2, <3>3, BuildsOn
    <3>6. Builds(hist', p, next.base, next.sent, next.value.version)
      BY <1>6, <3>4, <3>5
    <3>7. \A m : ~Pinned(hist, old, m)
      BY <1>5, <2>1 DEF Pinned
    <3>8. QED
      BY <3>6, <3>7
  <2>2. CASE ~stale /\ old # None
    <3>1. SeenAt(hist, p, old.value.version) \subseteq SeenAt(hist', p, next.value.version)
      BY <1>6, <1>11, <2>2 DEF SeenRow, Seen, SeenAt
    <3>2. old.conflict = None
      BY <1>1, <2>2 DEF AnyConflict
    <3>3. Continues(hist, hist', p, old, next)
      BY <1>6, <2>2, <3>1, <3>2 DEF Continues
    <3>4. \A m \in MutationAt(hist) : m.id = p /\ Pinned(hist, old, m) => Pinned(hist', next, m)
      BY <1>2, <1>11, <2>2, <3>3, EditKeeps
    <3>5. Builds(hist, p, old.base, old.sent, old.value.version) /\ old.sent \in SentAt(hist, p) \cup {None}
      BY <1>3, <2>2 DEF RowBuilt, RowAt
    <3>6. next.base = old.base /\ next.sent = old.sent
      BY <1>6, <2>2
    <3> HIDE DEF old
    <3>7. Builds(hist', p, old.base, old.sent, next.value.version)
      BY <1>2, <1>11, <3>1, <3>5, BuildsOn
    <3>8. QED
      BY <3>4, <3>6, <3>7
  <2>3. CASE old = None
    <3>1. hist[p] = <<>>
      BY <1>1, <2>3
    <3>2. next.base = 0 /\ next.sent = None
      BY <1>5, <1>6, <2>3
    <3>3. Builds(hist', p, next.base, next.sent, next.value.version)
      BY <3>2 DEF Builds
    <3>4. QED
      BY <1>2, <3>1, <3>3, NothingWritten
  <2>4. QED
    BY <1>5, <2>1, <2>2, <2>3
<1>13. \A q \in Projects : \/ others[q] = rs[q]
                           \/ rs[q] # None /\ Continues(hist, hist', q, rs[q], others[q])
  <2>1. CASE saved
    BY <2>1
  <2>2. CASE ~saved
    BY <1>10, <2>2, DiscardKeeps
  <2>3. QED
    BY <2>1, <2>2
<1>14. /\ \A e \in Devices : e # d => rows'[e] = rows[e]
       /\ rows'[d] = R
  BY <1>1, <1>2 DEF IInv, TypeOK
<1> HIDE DEF others
<1>15. Kept(d)
  <2>1. ASSUME NEW q \in Projects
        PROVE  /\ RowBuilt(hist', q, R[q])
               /\ \A m \in MutationAt(hist) : m.id = q /\ Pinned(hist, rs[q], m) => Pinned(hist', R[q], m)
    <3>1. CASE q = p
      BY <1>7, <1>12, <3>1 DEF RowBuilt
    <3>2. CASE q # p
      BY <1>2, <1>7, <1>11, <1>13, <3>2, EditKeeps
    <3>3. QED
      BY <3>1, <3>2
  <2>2. QED
    BY <1>14, <2>1 DEF Kept
<1>16. LoadedBuilt(hist', work'[t]) /\ \A u \in Tabs \ {t} : work'[u] = work[u]
  <2>1. work'[t] = Capture(p, next) /\ \A u \in Tabs \ {t} : work'[u] = work[u]
    BY <1>1 DEF IInv, TypeOK
  <2>2. QED
    BY <1>12, <2>1 DEF Capture, LoadedBuilt
<1>17. QED
  BY <1>1, <1>11, <1>15, <1>16, UserBuilt

\* A resolved original is rebased on the version the user chose against or for.
LEMMA RebasedBuilt ==
    ASSUME IInv, Built, Extends(hist, hist'), SelfSeen(hist'), hist' \in HistType,
           NEW t \in Tabs, NEW p \in Projects, NEW content \in SyncProject, NEW copy,
           rows[DeviceOf[t]][p] # None, rows[DeviceOf[t]][p].conflict # None,
           Seen(p, rows[DeviceOf[t]][p].conflict.version) \subseteq SeenAt(hist', p, Fresh(p))
    PROVE  LET s == Rebased(p, rows[DeviceOf[t]][p], content, copy) IN
           /\ RowBuilt(hist', p, s)
           /\ \A m : ~Pinned(hist, rows[DeviceOf[t]][p], m)
<1> DEFINE v == rows[DeviceOf[t]][p].conflict.version
           s == Rebased(p, rows[DeviceOf[t]][p], content, copy)
<1>1. s.base = v /\ s.sent = None /\ s.value.version = Fresh(p)
  BY DEF Rebased, SyncProject
<1>2. v \in 1..Len(hist[p]) /\ v # 0
  <2>1. rows[DeviceOf[t]][p].conflict \in ValueAt(hist, p)
    BY TabKnown DEF RowAt
  <2>2. QED
    BY <2>1 DEF ValueAt, SyncProject
<1>3. <<p, v>> \in Seen(p, v)
  BY <1>2 DEF Built, SelfSeen, Seen
<1>4. Builds(hist', p, s.base, s.sent, s.value.version)
  BY <1>1, <1>3 DEF Builds
<1> HIDE DEF s
<1>5. QED
  BY <1>4 DEF RowBuilt, Pinned, s

\* The rows of the conflicting group continue.
LEMMA RegroupedKeeps ==
    ASSUME IInv, Built, Extends(hist, hist'), hist' \in HistType, NEW t \in Tabs, NEW p \in Projects,
           NEW copy, NEW group
    PROVE  LET R == Regrouped(rows[DeviceOf[t]], p, copy, group) IN
           \A q \in Projects :
               /\ RowBuilt(hist', q, R[q])
               /\ \A m \in MutationAt(hist) :
                      m.id = q /\ Pinned(hist, rows[DeviceOf[t]][q], m) => Pinned(hist', R[q], m)
<1> DEFINE rs == rows[DeviceOf[t]]
           R == Regrouped(rs, p, copy, group)
<1> SUFFICES ASSUME NEW q \in Projects
             PROVE  /\ RowBuilt(hist', q, R[q])
                    /\ \A m \in MutationAt(hist) :
                           m.id = q /\ Pinned(hist, rs[q], m) => Pinned(hist', R[q], m)
  OBVIOUS
<1>1. hist \in HistType
  BY DEF IInv, TypeOK, HistType
<1>2. CASE R[q] = rs[q]
  BY <1>2, EditKeeps
<1>3. CASE rs[q] # None /\ R[q] = [rs[q] EXCEPT !.group = group, !.sent = None]
  <2> DEFINE r == rs[q]
             s == [r EXCEPT !.group = group, !.sent = None]
  <2>1. r \in RowAt(hist, q) /\ r \in Row
    BY <1>3, TabKnown DEF RowAt
  <2>2. /\ s.base = r.base /\ s.sent = None /\ s.value = r.value /\ s.dirty = r.dirty
        /\ s.conflict = r.conflict /\ s.staged = r.staged
    BY <2>1 DEF Row
  <2>3. r.value.version \in 1..Len(hist[q])
    BY <2>1 DEF RowAt, ValueAt
  <2> HIDE DEF s
  <2>4. SeenAt(hist', q, r.value.version) = SeenAt(hist, q, r.value.version)
    BY <1>1, <2>3, BuiltGrows
  <2>5. Continues(hist, hist', q, r, s)
    BY <2>2, <2>4 DEF Continues
  <2>6. R[q] = s
    BY <1>3 DEF s
  <2> HIDE DEF R
  <2>7. QED
    BY <1>3, <2>5, <2>6, EditKeeps
<1>4. QED
  BY <1>2, <1>3 DEF Regrouped

\* Resolving with one of the two branches.
LEMMA ResolveOneBuilt ==
    ASSUME IInv, IInv', Built, NEW t \in Tabs, NEW p \in Projects, NEW content \in SyncProject,
           rows[DeviceOf[t]][p] # None, rows[DeviceOf[t]][p].conflict # None,
           ResolveOne(DeviceOf[t], p, content), UNCHANGED <<work, ctl, wire>>
    PROVE  Built'
<1> DEFINE d == DeviceOf[t]
           rs == rows[d]
           c == StagedCopy(rs, p)
           group == <<p, Fresh(p)>>
           rest == Regrouped(rs, p, c, group)
           seen == LocalSeen(rs, p) \cup Seen(p, rs[p].conflict.version)
           s == Rebased(p, rs[p], content, None)
           R == [q \in Projects |-> IF q = p THEN s ELSE IF q = c THEN None ELSE rest[q]]
<1>1. /\ rows' = [rows EXCEPT ![d] = R]
      /\ hist' = [hist EXCEPT ![p] = Append(@, Entry(p, seen, FALSE))]
  BY DEF ResolveOne
<1>2. hist \in HistType /\ hist' \in HistType /\ d \in Devices
  BY TabKnown DEF IInv, TypeOK, HistType
<1> HIDE DEF seen
<1>3. Adds(p, seen) /\ \A q \in Projects : hist'[q] = hist[q] \/ \E more : Adds(q, more)
  BY <1>1, <1>2 DEF Adds, HistType
<1>4. Extends(hist, hist') /\ SelfSeen(hist') /\ SeenAt(hist', p, Fresh(p)) = {<<p, Fresh(p)>>} \cup seen
  BY <1>3, HistoryExtends DEF Built
<1>5. RowBuilt(hist', p, s) /\ \A m : ~Pinned(hist, rs[p], m)
  <2>1. Seen(p, rs[p].conflict.version) \subseteq SeenAt(hist', p, Fresh(p))
    BY <1>4 DEF seen
  <2>2. QED
    BY <1>2, <1>4, <2>1, RebasedBuilt
<1> HIDE DEF group
<1>6. \A q \in Projects :
          /\ RowBuilt(hist', q, rest[q])
          /\ \A m \in MutationAt(hist) : m.id = q /\ Pinned(hist, rs[q], m) => Pinned(hist', rest[q], m)
  BY <1>2, <1>4, RegroupedKeeps
<1>7. (\A e \in Devices : e # d => rows'[e] = rows[e]) /\ rows'[d] = R
  BY <1>1, <1>2 DEF IInv, TypeOK
<1> HIDE DEF s, rest, c
<1>8. Kept(d)
  <2>1. ASSUME NEW q \in Projects
        PROVE  /\ RowBuilt(hist', q, R[q])
               /\ \A m \in MutationAt(hist) : m.id = q /\ Pinned(hist, rs[q], m) => Pinned(hist', R[q], m)
    <3>1. CASE q = p
      BY <1>5, <3>1
    <3>2. CASE q # p /\ q = c
      BY <3>2 DEF RowBuilt, Pinned
    <3>3. CASE q # p /\ q # c
      BY <1>6, <3>3
    <3>4. QED
      BY <3>1, <3>2, <3>3
  <2> HIDE DEF R
  <2>2. QED
    BY <1>7, <2>1 DEF Kept
<1>9. (\A u \in Tabs \ {t} : work'[u] = work[u]) /\ LoadedBuilt(hist', work'[t])
  BY <1>4, StayBuilt
<1>10. QED
  BY <1>4, <1>8, <1>9, UserBuilt

\* The copy that "both" makes builds on the local branch, and on what is in
\* flight for a copy made before.
LEMMA CopyBuilt ==
    ASSUME IInv, Built, NEW t \in Tabs, NEW p \in Projects, NEW c \in Projects, NEW group,
           IF StagedCopy(rows[DeviceOf[t]], p) = None THEN hist[c] = <<>> /\ c # p
           ELSE c = StagedCopy(rows[DeviceOf[t]], p),
           LocalSeen(rows[DeviceOf[t]], p) \subseteq SeenAt(hist', c, Fresh(c))
    PROVE  LET s == [NewRow(c, None, Fresh(c), TRUE, DeviceOf[t]) EXCEPT !.group = group] IN
           /\ RowBuilt(hist', c, s)
           /\ \A m \in MutationAt(hist) : m.id = c /\ Pinned(hist, rows[DeviceOf[t]][c], m)
                                              => Pinned(hist', s, m)
<1> DEFINE rs == rows[DeviceOf[t]]
           r == rs[c]
           s == [NewRow(c, None, Fresh(c), TRUE, DeviceOf[t]) EXCEPT !.group = group]
<1>1. /\ s.base = 0 /\ s.sent = None /\ s.value.version = Fresh(c)
      /\ s.dirty /\ s.conflict = None /\ ~s.staged
  BY DEF NewRow
<1>2. hist \in HistType
  BY DEF IInv, TypeOK, HistType
<1>3. RowBuilt(hist', c, s)
  BY <1>1 DEF RowBuilt, Builds
<1> HIDE DEF s
<1>4. ASSUME NEW m \in MutationAt(hist), m.id = c, Pinned(hist, r, m) PROVE Pinned(hist', s, m)
  <2>1. CASE StagedCopy(rs, p) = None
    BY <1>2, <1>4, <2>1, NothingWritten
  <2>2. CASE StagedCopy(rs, p) # None
    <3>1. r # None /\ r.base = 0 /\ c = StagedCopy(rs, p)
      BY <2>2 DEF StagedCopy
    <3>2. SeenAt(hist, c, r.value.version) \subseteq LocalSeen(rs, p)
      BY <2>2, <3>1 DEF LocalSeen, SeenRow, Seen, SeenAt
    <3>3. m.expected = 0 => <<c, m.value.version>> \in SeenAt(hist', c, Fresh(c))
      BY <1>4, <3>1, <3>2 DEF Pinned
    <3>4. QED
      BY <1>1, <1>4, <3>3 DEF Pinned
  <2>3. QED
    BY <2>1, <2>2
<1>5. QED
  BY <1>3, <1>4 DEF s

\* Resolving with both branches.
LEMMA ResolveBothBuilt ==
    ASSUME IInv, IInv', Built, NEW t \in Tabs, NEW p \in Projects, NEW c \in Projects,
           rows[DeviceOf[t]][p] # None, rows[DeviceOf[t]][p].conflict # None,
           ResolveBoth(DeviceOf[t], p, c), UNCHANGED <<work, ctl, wire>>
    PROVE  Built'
<1> DEFINE d == DeviceOf[t]
           rs == rows[d]
           staged == StagedCopy(rs, p)
           group == <<p, Fresh(p)>>
           rest == Regrouped(rs, p, staged, group)
           s == Rebased(p, rs[p], rs[p].conflict, c)
           copy == [NewRow(c, None, Fresh(c), TRUE, d) EXCEPT !.group = group]
           R == [q \in Projects |-> IF q = p THEN s ELSE IF q = c THEN copy ELSE rest[q]]
           remote == Seen(p, rs[p].conflict.version)
           local == LocalSeen(rs, p)
           ep == Entry(p, remote, FALSE)
           ec == Entry(c, local, FALSE)
<1>1. /\ rows' = [rows EXCEPT ![d] = R]
      /\ hist' = [hist EXCEPT ![p] = Append(@, ep), ![c] = Append(@, ec)]
      /\ IF staged = None THEN hist[c] = <<>> /\ c # p ELSE c = staged
  BY DEF ResolveBoth
<1>2. hist \in HistType /\ hist' \in HistType /\ d \in Devices
  BY TabKnown DEF IInv, TypeOK, HistType
<1>3. c # p
  BY <1>1, LocalSeenType
<1> HIDE DEF ep, ec, staged
<1>4. /\ hist'[p] = Append(hist[p], ep)
      /\ hist'[c] = Append(hist[c], ec)
      /\ \A q \in Projects : q # p /\ q # c => hist'[q] = hist[q]
  BY <1>1, <1>2, <1>3 DEF HistType
<1> HIDE DEF local, remote
<1>5. /\ Adds(p, remote) /\ Adds(c, local)
      /\ \A q \in Projects : hist'[q] = hist[q] \/ \E more : Adds(q, more)
  BY <1>4 DEF Adds, ep, ec
<1>6. /\ Extends(hist, hist') /\ SelfSeen(hist')
      /\ remote \subseteq SeenAt(hist', p, Fresh(p))
      /\ local \subseteq SeenAt(hist', c, Fresh(c))
  BY <1>5, HistoryExtends DEF Built
<1>7. RowBuilt(hist', p, s) /\ \A m : ~Pinned(hist, rs[p], m)
  BY <1>2, <1>6, RebasedBuilt, ConflictSeenType DEF remote
<1> HIDE DEF group
<1>8. /\ RowBuilt(hist', c, copy)
      /\ \A m \in MutationAt(hist) : m.id = c /\ Pinned(hist, rs[c], m) => Pinned(hist', copy, m)
  BY <1>1, <1>6, CopyBuilt DEF local, staged
<1>9. \A q \in Projects :
          /\ RowBuilt(hist', q, rest[q])
          /\ \A m \in MutationAt(hist) : m.id = q /\ Pinned(hist, rs[q], m) => Pinned(hist', rest[q], m)
  BY <1>2, <1>6, RegroupedKeeps
<1>10. (\A e \in Devices : e # d => rows'[e] = rows[e]) /\ rows'[d] = R
  BY <1>1, <1>2 DEF IInv, TypeOK
<1> HIDE DEF s, rest, copy
<1>11. Kept(d)
  <2>1. ASSUME NEW q \in Projects
        PROVE  /\ RowBuilt(hist', q, R[q])
               /\ \A m \in MutationAt(hist) : m.id = q /\ Pinned(hist, rs[q], m) => Pinned(hist', R[q], m)
    <3>1. CASE q = p
      BY <1>7, <3>1
    <3>2. CASE q # p /\ q = c
      BY <1>8, <3>2
    <3>3. CASE q # p /\ q # c
      BY <1>9, <3>3
    <3>4. QED
      BY <3>1, <3>2, <3>3
  <2> HIDE DEF R
  <2>2. QED
    BY <1>10, <2>1 DEF Kept
<1>12. (\A u \in Tabs \ {t} : work'[u] = work[u]) /\ LoadedBuilt(hist', work'[t])
  BY <1>6, StayBuilt
<1>13. QED
  BY <1>6, <1>11, <1>12, UserBuilt

\* Resolving a conflict.
LEMMA ResolveBuilt ==
    ASSUME IInv, IInv', Built, NEW t \in Tabs, NEW p \in Projects, Resolve(t, p) PROVE Built'
<1> DEFINE d == DeviceOf[t]
           r == rows[d][p]
<1>1. /\ r # None /\ r.conflict # None
      /\ UNCHANGED <<work, ctl, wire>>
      /\ \/ ResolveLocal(d, p)
         \/ ResolveRemote(d, p)
         \/ \E c \in Projects : ResolveBoth(d, p, c)
  BY DEF Resolve
<1>2. r.value \in SyncProject /\ r.conflict \in SyncProject
  BY <1>1, TabKnown, ConflictSeenType DEF RowAt, Row
<1>3. CASE ResolveLocal(d, p)
  <2> DEFINE saved == IF StagedCopy(rows[d], p) # None THEN TRUE ELSE r.value.saved
             content == [r.value EXCEPT !.saved = saved]
  <2>1. ResolveOne(d, p, content)
    BY <1>3 DEF ResolveLocal
  <2>2. content \in SyncProject
    BY <1>2 DEF SyncProject
  <2> HIDE DEF content
  <2>3. QED
    BY <1>1, <2>1, <2>2, ResolveOneBuilt
<1>4. CASE ResolveRemote(d, p)
  BY <1>1, <1>2, <1>4, ResolveOneBuilt DEF ResolveRemote
<1>5. CASE \E c \in Projects : ResolveBoth(d, p, c)
  BY <1>1, <1>5, ResolveBothBuilt
<1>6. QED
  BY <1>1, <1>3, <1>4, <1>5

\* A step that adds no version.
LEMMA SameExtends ==
    ASSUME IInv, Built, UNCHANGED hist
    PROVE  Extends(hist, hist') /\ SelfSeen(hist') /\ hist \in HistType /\ hist' \in HistType
<1>1. hist \in HistType /\ hist' = hist
  BY DEF IInv, TypeOK, HistType
<1>2. \A p \in Projects : Len(hist[p]) \in Nat
  BY <1>1, HistLength
<1>3. Extends(hist, hist')
  BY <1>1, <1>2 DEF Extends
<1>4. QED
  BY <1>1, <1>3 DEF Built

\* A step of any user.
LEMMA UserStepBuilt ==
    ASSUME IInv, IInv', Built, NEW t \in Tabs, UserStep(t) PROVE Built'
<1>1. CASE Close(t)
  <2>1. /\ UNCHANGED <<rows, ctl, wire, hist>>
        /\ \A u \in Tabs \ {t} : work'[u] = work[u]
        /\ LoadedBuilt(hist', work'[t])
    BY <1>1 DEF Close, LoadedBuilt, IInv, TypeOK
  <2>2. Extends(hist, hist') /\ SelfSeen(hist') /\ hist' \in HistType
    BY <2>1, SameExtends
  <2>3. Kept(DeviceOf[t])
    BY <2>1, <2>2, EditKeeps DEF Kept
  <2>4. QED
    BY <2>1, <2>2, <2>3, UserBuilt
<1>2. CASE ~Close(t)
  BY <1>2, SaveBuilt, OpenBuilt, EnvelopeBuilt, ResolveBuilt DEF UserStep
<1>3. QED
  BY <1>1, <1>2

\* A step of one tab's controller, which is alone with the rows of its device.
LEMMA ControllerBuilt ==
    ASSUME OneTabPerDevice, IInv, IInv', Built, NEW t \in Tabs, UNCHANGED <<work, wire>>,
           Extends(hist, hist'), SelfSeen(hist'),
           \A e \in Devices : e # DeviceOf[t] => rows'[e] = rows[e],
           \A p \in Projects : RowBuilt(hist', p, rows'[DeviceOf[t]][p]),
           \A u \in Tabs \ {t} : ctl'[u] = ctl[u],
           ControlBuilt(hist', ctl'[t]), HeldBy(t)'
    PROVE  Built'
<1>1. \A d \in Devices, p \in Projects : RowBuilt(hist', p, rows'[d][p])
  BY StayBuilt
<1>2. \A u \in Tabs : LoadedBuilt(hist', work'[u])
  BY StayBuilt
<1>3. \A u \in Tabs : ControlBuilt(hist', ctl'[u])
  BY StayBuilt
<1>4. \A request \in wire' : \A w \in request : WriteBuilt(hist', w)
  BY StayBuilt
<1>5. ASSUME NEW u \in Tabs \ {t} PROVE HeldBy(u)'
  <2>1. DeviceOf[u] # DeviceOf[t] /\ DeviceOf[u] \in Devices
    BY <1>5, TabKnown DEF OneTabPerDevice
  <2>2. rows'[DeviceOf[u]] = rows[DeviceOf[u]] /\ ctl'[u] = ctl[u]
    BY <2>1
  <2>3. QED
    BY <2>2, StayBuilt
<1>6. QED
  BY <1>1, <1>2, <1>3, <1>4, <1>5 DEF Built

\* A step that leaves the rows and the history alone.
LEMMA QuietBuilt ==
    ASSUME IInv, IInv', Built, UNCHANGED <<rows, hist>>,
           \A u \in Tabs : /\ ctl'[u].queue \subseteq ctl[u].queue
                           /\ ctl'[u].batch \subseteq ctl[u].batch
                           /\ Flying(ctl'[u]) => Flying(ctl[u]) /\ ctl'[u].batch = ctl[u].batch,
           \A u \in Tabs : LoadedBuilt(hist', work'[u]),
           \A request \in wire' \ wire : \A w \in request : WriteBuilt(hist', w)
    PROVE  Built'
<1>1. Extends(hist, hist') /\ SelfSeen(hist')
  BY SameExtends
<1>2. \A d \in Devices, p \in Projects : RowBuilt(hist', p, rows'[d][p])
  BY <1>1, StayBuilt
<1>3. \A u \in Tabs : ControlBuilt(hist', ctl'[u])
  BY <1>1, StayBuilt
<1>4. \A request \in wire' : \A w \in request : WriteBuilt(hist', w)
  BY <1>1, StayBuilt
<1>5. \A u \in Tabs : HeldBy(u)'
  BY <1>1, StayBuilt
<1>6. QED
  BY <1>1, <1>2, <1>3, <1>4, <1>5 DEF Built

\* What a built row would send descends from what it expects.
LEMMA MutationBuilt ==
    ASSUME NEW h, NEW p \in Projects, NEW r, r # None, RowBuilt(h, p, r)
    PROVE  Descends(h, Mutation(p, r))
BY DEF RowBuilt, Builds, Descends, Mutation

\* The run starts with operations that descend from what they expect.
LEMMA StartRunBuilt ==
    ASSUME OneTabPerDevice, IInv, IInv', Built, NEW t \in Tabs, StartRun(t) PROVE Built'
<1> DEFINE d == DeviceOf[t]
           rs == rows[d]
           overdue == Overdue(rs, now)
           labelled == [p \in Projects |->
               IF p \in overdue THEN Relabel(rs[p], Fresh(p), "DELETED", rs[p].value.until)
               ELSE rs[p]]
<1>1. /\ rows' = [rows EXCEPT ![d] = labelled]
      /\ hist' = [p \in Projects |->
                     IF p \in overdue
                     THEN Append(hist[p], Entry(p, SeenRow(p, rs[p]), TRUE)) ELSE hist[p]]
      /\ ctl' = [ctl EXCEPT ![t].pc = "send", ![t].queue = Pending(labelled)]
      /\ UNCHANGED <<work, wire>>
  BY DEF StartRun
<1>2. hist \in HistType /\ hist' \in HistType /\ d \in Devices /\ ctl[t] \in Control
  BY TabKnown DEF IInv, TypeOK, HistType
<1>3. \A p \in overdue : p \in Projects /\ rs[p] # None
  BY DEF Overdue
<1>4. /\ (\A e \in Devices : e # d => rows'[e] = rows[e])
      /\ rows'[d] = labelled
      /\ (\A u \in Tabs \ {t} : ctl'[u] = ctl[u])
      /\ ctl'[t] = [ctl[t] EXCEPT !.pc = "send", !.queue = Pending(labelled)]
  <2> HIDE DEF labelled
  <2>1. QED
    BY <1>1, <1>2 DEF IInv, TypeOK
<1> HIDE DEF overdue
<1>5. /\ \A p \in Projects : hist'[p] = hist[p] \/ \E more : Adds(p, more)
      /\ \A p \in overdue : Adds(p, SeenRow(p, rs[p]))
  BY <1>1, <1>3 DEF Adds
<1>6. Extends(hist, hist') /\ SelfSeen(hist')
  BY <1>5, HistoryExtends DEF Built
<1>7. ASSUME NEW p \in Projects PROVE RowBuilt(hist', p, labelled[p])
  <2>1. CASE p \in overdue
    <3>1. rs[p] # None /\ rs[p] \in RowAt(hist, p)
      BY <1>3, <2>1, TabKnown
    <3>2. SeenAt(hist, p, rs[p].value.version) \subseteq SeenAt(hist', p, Fresh(p))
      BY <1>5, <2>1, <3>1, AddsToRow
    <3>3. Continues(hist, hist', p, rs[p], labelled[p])
      BY <1>2, <2>1, <3>1, <3>2, RelabelContinues
    <3> HIDE DEF labelled
    <3>4. QED
      BY <1>2, <1>6, <3>1, <3>3, EditKeeps
  <2>2. CASE p \notin overdue
    <3>1. labelled[p] = rs[p]
      BY <2>2
    <3> HIDE DEF labelled
    <3>2. QED
      BY <1>2, <1>6, <3>1, EditKeeps
  <2>3. QED
    BY <2>1, <2>2
<1> HIDE DEF labelled
<1>8. \A batch \in Pending(labelled) : \A m \in batch : Descends(hist', m)
  <2>1. \A p \in Projects : labelled[p] # None => Descends(hist', Mutation(p, labelled[p]))
    BY <1>7, MutationBuilt
  <2>2. QED
    BY <2>1 DEF Pending, Members
<1>9. /\ ctl'[t].pc = "send"
      /\ ctl'[t].queue = Pending(labelled)
      /\ ctl'[t].batch = ctl[t].batch
  BY <1>2, <1>4 DEF Control
<1>10. ControlBuilt(hist', ctl'[t])
  <2>1. \A m \in ctl[t].batch : Descends(hist, m) /\ m \in MutationAt(hist)
    BY DEF Built, ControlBuilt, IInv, Known, KnownCtl, ControlAt
  <2>2. \A m \in ctl[t].batch : Descends(hist', m)
    BY <1>2, <1>6, <2>1, BuiltGrows
  <2>3. QED
    BY <1>8, <1>9, <2>2 DEF ControlBuilt
<1>11. HeldBy(t)'
  BY <1>9 DEF HeldBy, Flying
<1>12. QED
  BY <1>1, <1>4, <1>6, <1>7, <1>10, <1>11, ControllerBuilt

\* A row that would still send an operation builds on that operation.
LEMMA StillPendingBuilt ==
    ASSUME NEW h \in HistType, SelfSeen(h), NEW m \in MutationAt(h), NEW rs,
           rs[m.id] \in RowAt(h, m.id) \cup {None}, RowBuilt(h, m.id, rs[m.id]), StillPending(rs, m)
    PROVE  /\ rs[m.id] # None
           /\ <<m.id, m.value.version>> \in SeenAt(h, m.id, rs[m.id].value.version)
           /\ Pinned(h, rs[m.id], m)
<1> DEFINE r == rs[m.id]
<1>1. r # None /\ Mutation(m.id, r).value.version = m.value.version
      /\ r.dirty /\ r.conflict = None /\ ~r.staged
  BY DEF StillPending
<1>2. m.id \in Projects /\ r.value.version \in 1..Len(h[m.id]) /\ r.value.version # 0
  BY <1>1 DEF MutationAt, SyncMutation, RowAt, ValueAt, SyncProject
<1>3. CASE r.sent # None
  <2>1. m.value.version = r.sent.value.version
    BY <1>1, <1>3 DEF Mutation
  <2>2. QED
    BY <1>1, <1>3, <2>1 DEF RowBuilt, Builds, Pinned
<1>4. CASE r.sent = None
  <2>1. m.value.version = r.value.version
    BY <1>1, <1>4 DEF Mutation
  <2>2. <<m.id, r.value.version>> \in SeenAt(h, m.id, r.value.version)
    BY <1>2 DEF SelfSeen, SeenAt
  <2>3. QED
    BY <1>1, <2>1, <2>2 DEF Pinned
<1>5. QED
  BY <1>3, <1>4

\* Pinning an operation that a row would still send.
LEMMA PinBuilt ==
    ASSUME NEW h \in HistType, SelfSeen(h), NEW m \in MutationAt(h), Descends(h, m), NEW rs,
           rs[m.id] \in RowAt(h, m.id) \cup {None}, RowBuilt(h, m.id, rs[m.id]), StillPending(rs, m)
    PROVE  LET s == [rs[m.id] EXCEPT !.sent = m] IN
           /\ RowBuilt(h, m.id, s)
           /\ \A l : Pinned(h, rs[m.id], l) => Pinned(h, s, l)
<1> DEFINE r == rs[m.id]
           s == [r EXCEPT !.sent = m]
<1>1. /\ r # None /\ r \in Row
      /\ <<m.id, m.value.version>> \in SeenAt(h, m.id, r.value.version)
  BY StillPendingBuilt DEF RowAt
<1>2. /\ s.base = r.base /\ s.sent = m /\ s.value = r.value /\ s.dirty = r.dirty
      /\ s.conflict = r.conflict /\ s.staged = r.staged
  BY <1>1 DEF Row
<1> HIDE DEF s
<1>3. RowBuilt(h, m.id, s)
  BY <1>1, <1>2 DEF RowBuilt, Builds
<1>4. QED
  BY <1>1, <1>2, <1>3 DEF Pinned, s

\* markSending() pins what the rows build on.
LEMMA MarkSendingBuilt ==
    ASSUME OneTabPerDevice, IInv, IInv', Built, NEW t \in Tabs, MarkSending(t) PROVE Built'
<1> DEFINE d == DeviceOf[t]
           rs == rows[d]
<1>1. UNCHANGED <<work, wire, hist>> /\ ctl[t].pc = "send"
  BY DEF MarkSending
<1>2. /\ Extends(hist, hist') /\ SelfSeen(hist') /\ SelfSeen(hist)
      /\ hist \in HistType /\ hist' = hist
      /\ d \in Devices /\ ctl[t] \in Control
  BY <1>1, SameExtends, TabKnown DEF Built
<1>3. PICK batch \in ctl[t].queue :
         LET rest == [ctl[t] EXCEPT !.queue = @ \ {batch}] IN
         IF \A m \in batch : StillPending(rs, m)
         THEN /\ rows' = [rows EXCEPT ![d] = [p \in Projects |->
                    IF \E m \in batch : m.id = p
                    THEN [rs[p] EXCEPT !.sent = CHOOSE m \in batch : m.id = p]
                    ELSE rs[p]]]
              /\ ctl' = [ctl EXCEPT ![t] = [rest EXCEPT !.pc = "commit", !.batch = batch]]
         ELSE ctl' = [ctl EXCEPT ![t] = rest] /\ UNCHANGED rows
  BY DEF MarkSending
<1> DEFINE rest == [ctl[t] EXCEPT !.queue = @ \ {batch}]
<1>4. /\ rest.queue \subseteq ctl[t].queue /\ rest.batch = ctl[t].batch /\ rest.pc = "send"
      /\ [rest EXCEPT !.pc = "commit", !.batch = batch].queue \subseteq ctl[t].queue
      /\ [rest EXCEPT !.pc = "commit", !.batch = batch].batch = batch
  BY <1>1, <1>2 DEF Control
<1>5. CASE ~\A m \in batch : StillPending(rs, m)
  <2>1. ctl' = [ctl EXCEPT ![t] = rest] /\ UNCHANGED rows
    BY <1>3, <1>5
  <2> HIDE DEF rest
  <2>2. ctl'[t] = rest /\ \A u \in Tabs \ {t} : ctl'[u] = ctl[u]
    BY <2>1 DEF IInv, TypeOK
  <2>3. \A u \in Tabs : LoadedBuilt(hist', work'[u])
    BY <1>1, <1>2, StayBuilt
  <2>4. \A u \in Tabs : /\ ctl'[u].queue \subseteq ctl[u].queue
                        /\ ctl'[u].batch \subseteq ctl[u].batch
                        /\ Flying(ctl'[u]) => Flying(ctl[u]) /\ ctl'[u].batch = ctl[u].batch
    BY <1>4, <2>2 DEF Flying
  <2>5. QED
    BY <1>1, <2>1, <2>3, <2>4, QuietBuilt
<1>6. CASE \A m \in batch : StillPending(rs, m)
  <2> DEFINE pin(p) == CHOOSE m \in batch : m.id = p
             R == [p \in Projects |->
                       IF \E m \in batch : m.id = p THEN [rs[p] EXCEPT !.sent = pin(p)] ELSE rs[p]]
             next == [rest EXCEPT !.pc = "commit", !.batch = batch]
  <2>1. rows' = [rows EXCEPT ![d] = R] /\ ctl' = [ctl EXCEPT ![t] = next]
    BY <1>3, <1>6
  <2>2. next.queue \subseteq ctl[t].queue /\ next.batch = batch
    BY <1>4
  <2> HIDE DEF rest, next
  <2>3. /\ \A e \in Devices : e # d => rows'[e] = rows[e]
        /\ rows'[d] = R
        /\ ctl'[t] = next /\ \A u \in Tabs \ {t} : ctl'[u] = ctl[u]
    <3> HIDE DEF R
    <3>1. QED
      BY <1>2, <2>1 DEF IInv, TypeOK
  <2>4. \A m \in batch : m \in MutationAt(hist) /\ m.id \in Projects /\ Descends(hist, m)
    BY DEF IInv, Known, KnownCtl, ControlAt, Built, ControlBuilt, MutationAt, SyncMutation
  <2>5. \A p \in Projects : rs[p] \in RowAt(hist, p) \cup {None} /\ RowBuilt(hist, p, rs[p])
    BY <1>2, TabKnown DEF Built
  <2>6. ASSUME NEW p \in Projects, \E m \in batch : m.id = p
        PROVE  /\ RowBuilt(hist, p, R[p])
               /\ \A l : Pinned(hist, rs[p], l) => Pinned(hist, R[p], l)
    <3>1. pin(p) \in batch /\ pin(p).id = p
      BY <2>6
    <3>2. R[p] = [rs[p] EXCEPT !.sent = pin(p)]
      BY <2>6
    <3> HIDE DEF R, pin
    <3>3. StillPending(rs, pin(p))
      BY <1>6, <3>1
    <3>4. QED
      BY <1>2, <2>4, <2>5, <3>1, <3>2, <3>3, PinBuilt
  <2>7. \A p \in Projects : RowBuilt(hist', p, rows'[d][p])
    <3>1. \A p \in Projects : (\A m \in batch : m.id # p) => R[p] = rs[p]
      OBVIOUS
    <3> HIDE DEF R
    <3>2. QED
      BY <1>2, <2>3, <2>5, <2>6, <3>1
  <2>8. ControlBuilt(hist', ctl'[t])
    <3>1. ControlBuilt(hist, ctl[t])
      BY DEF Built
    <3>2. QED
      BY <1>2, <2>2, <2>3, <2>4, <3>1 DEF ControlBuilt
  <2>9. HeldBy(t)'
    <3>1. \A m \in batch : Pinned(hist, rs[m.id], m)
      BY <1>2, <1>6, <2>4, <2>5, StillPendingBuilt
    <3> HIDE DEF R
    <3>2. \A m \in batch : Pinned(hist, R[m.id], m)
      BY <2>4, <2>6, <3>1
    <3>3. QED
      BY <1>2, <2>2, <2>3, <3>2 DEF HeldBy
  <2>10. QED
    BY <1>1, <1>2, <2>3, <2>7, <2>8, <2>9, ControllerBuilt
<1>7. QED
  BY <1>5, <1>6

\* An acknowledged row is based on a version it builds on.
LEMMA AcknowledgedBuilt ==
    ASSUME NEW h \in HistType, NEW m \in MutationAt(h), NEW r \in RowAt(h, m.id) \cup {None},
           RowBuilt(h, m.id, r), Pinned(h, r, m)
    PROVE  RowBuilt(h, m.id, Acknowledged(r, m))
<1> DEFINE s == Acknowledged(r, m)
<1>1. CASE r = None \/ (r # None /\ r.base # m.expected)
  BY <1>1 DEF Acknowledged
<1>2. CASE ~(r = None \/ (r # None /\ r.base # m.expected))
  <2>1. r \in Row /\ r.value \in SyncProject
    BY <1>2 DEF RowAt, Row
  <2>2. s.base = m.value.version /\ s.sent = None /\ s.value.version = r.value.version
    BY <1>2, <2>1 DEF Acknowledged, Row, SyncProject
  <2>3. <<m.id, m.value.version>> \in SeenAt(h, m.id, r.value.version)
    BY <1>2 DEF Pinned
  <2> HIDE DEF s
  <2>4. Builds(h, m.id, s.base, s.sent, s.value.version)
    BY <2>2, <2>3 DEF Builds
  <2>5. QED
    BY <2>4 DEF RowBuilt, s
<1>3. QED
  BY <1>1, <1>2

\* acknowledge() moves the bases to the operations that were in flight.
LEMMA AcknowledgeBuilt ==
    ASSUME OneTabPerDevice, IInv, IInv', Built, NEW t \in Tabs, Acknowledge(t) PROVE Built'
<1> DEFINE d == DeviceOf[t]
           rs == rows[d]
           batch == ctl[t].batch
           ack(p) == CHOOSE m \in batch : m.id = p
           R == [p \in Projects |->
                     IF \E m \in batch : m.id = p THEN Acknowledged(rs[p], ack(p)) ELSE rs[p]]
<1>1. /\ rows' = [rows EXCEPT ![d] = R]
      /\ ctl' = [ctl EXCEPT ![t].pc = "send", ![t].batch = {}]
      /\ UNCHANGED <<work, wire, hist>>
      /\ ctl[t].pc = "committed"
  BY DEF Acknowledge
<1>2. /\ Extends(hist, hist') /\ SelfSeen(hist')
      /\ hist \in HistType /\ hist' = hist
      /\ d \in Devices /\ ctl[t] \in Control
  BY <1>1, SameExtends, TabKnown
<1>3. /\ \A m \in batch : m \in MutationAt(hist) /\ m.id \in Projects
      /\ \A m \in batch : Pinned(hist, rs[m.id], m)
  BY <1>1 DEF IInv, Known, KnownCtl, ControlAt, MutationAt, SyncMutation, Built, HeldBy, Flying
<1>4. \A p \in Projects : rs[p] \in RowAt(hist, p) \cup {None} /\ RowBuilt(hist, p, rs[p])
  BY <1>2, TabKnown DEF Built
<1>5. ASSUME NEW p \in Projects PROVE RowBuilt(hist', p, R[p])
  <2>1. CASE \E m \in batch : m.id = p
    <3>1. ack(p) \in batch /\ ack(p).id = p
      BY <2>1
    <3>2. R[p] = Acknowledged(rs[p], ack(p))
      BY <2>1
    <3> HIDE DEF R, ack, batch
    <3>3. RowBuilt(hist, p, Acknowledged(rs[p], ack(p)))
      BY <1>2, <1>3, <1>4, <3>1, AcknowledgedBuilt
    <3>4. QED
      BY <1>2, <3>2, <3>3
  <2>2. CASE ~\E m \in batch : m.id = p
    <3>1. R[p] = rs[p]
      BY <2>2
    <3> HIDE DEF R
    <3>2. QED
      BY <1>2, <1>4, <3>1
  <2>3. QED
    BY <2>1, <2>2
<1> HIDE DEF R
<1>6. /\ \A e \in Devices : e # d => rows'[e] = rows[e]
      /\ rows'[d] = R
      /\ \A u \in Tabs \ {t} : ctl'[u] = ctl[u]
      /\ ctl'[t] = [ctl[t] EXCEPT !.pc = "send", !.batch = {}]
  BY <1>1, <1>2 DEF IInv, TypeOK
<1>7. ctl'[t].pc = "send" /\ ctl'[t].queue = ctl[t].queue /\ ctl'[t].batch = {}
  BY <1>2, <1>6 DEF Control
<1>8. ControlBuilt(hist', ctl'[t]) /\ HeldBy(t)'
  BY <1>2, <1>7, StayBuilt DEF HeldBy, Flying
<1>9. QED
  BY <1>1, <1>2, <1>5, <1>6, <1>8, ControllerBuilt

\* A row that merges a remote value is based on a version it builds on.
LEMMA ReceivedBuilt ==
    ASSUME NEW h \in HistType, SelfSeen(h), NEW p \in Projects, NEW r \in RowAt(h, p) \cup {None},
           RowBuilt(h, p, r), NEW v \in ValueAt(h, p), NEW clock \in Nat
    PROVE  RowBuilt(h, p, Received(p, r, v, clock))
<1>1. /\ v.version \in 1..Len(h[p]) /\ v.version # 0 /\ v \in SyncProject
      /\ <<p, v.version>> \in SeenAt(h, p, v.version)
  BY DEF ValueAt, SyncProject, SelfSeen, SeenAt
<1>2. RowBuilt(h, p, CleanRow(p, v))
  BY <1>1 DEF CleanRow, RowBuilt, Builds
<1>3. CASE r = None
  BY <1>2, <1>3 DEF Received
<1>4. CASE r # None
  <2> DEFINE same == [r EXCEPT !.base = v.version, !.baseRev = v.revision,
                               !.dirty = FALSE, !.conflict = None, !.sent = None]
             pinned == [r EXCEPT !.base = v.version, !.baseRev = v.revision,
                                 !.value.revision = v.revision + 1,
                                 !.conflict = None, !.sent = None]
             clash == [r EXCEPT !.conflict = v, !.sent = None]
  <2>1. r \in Row /\ r.value \in SyncProject /\ r.baseRev \in Nat /\ v.revision \in Nat
    BY <1>1, <1>4 DEF RowAt, Row, SyncProject
  <2>2. r.value.version = v.version => RowBuilt(h, p, same)
    <3>1. same.base = v.version /\ same.sent = None /\ same.value = r.value
      BY <2>1 DEF Row
    <3> HIDE DEF same
    <3>2. QED
      BY <1>1, <3>1 DEF RowBuilt, Builds
  <2>3. r.sent # None /\ r.sent.value.version = v.version => RowBuilt(h, p, pinned)
    <3>1. pinned.base = v.version /\ pinned.sent = None /\ pinned.value.version = r.value.version
      BY <2>1 DEF Row, SyncProject
    <3> HIDE DEF pinned
    <3>2. QED
      BY <1>4, <3>1 DEF RowBuilt, Builds
  <2>4. RowBuilt(h, p, clash)
    <3>1. clash.base = r.base /\ clash.sent = None /\ clash.value = r.value
      BY <2>1 DEF Row
    <3> HIDE DEF clash
    <3>2. QED
      BY <1>4, <3>1 DEF RowBuilt, Builds
  <2>5. \/ Received(p, r, v, clock) = r
        \/ Received(p, r, v, clock) = CleanRow(p, v)
        \/ r.value.version = v.version /\ Received(p, r, v, clock) = same
        \/ r.sent # None /\ r.sent.value.version = v.version /\ Received(p, r, v, clock) = pinned
        \/ Received(p, r, v, clock) = clash
    <3> HIDE DEF same, pinned, clash
    <3>1. v.revision <= r.baseRev \/ v.revision > r.baseRev
      BY <2>1
    <3>2. QED
      BY <1>4, <3>1 DEF Received, same, pinned, clash
  <2> HIDE DEF same, pinned, clash
  <2>6. QED
    BY <1>2, <2>2, <2>3, <2>4, <2>5
<1>5. QED
  BY <1>3, <1>4

\* Rows that merge a reply.
LEMMA ReceivedRowsBuilt ==
    ASSUME IInv, Built, NEW t \in Tabs
    PROVE  \A p \in Projects : RowBuilt(hist, p, ReceivedRows(rows[DeviceOf[t]], ctl[t].reply)[p])
<1> DEFINE rs == rows[DeviceOf[t]]
           reply == ctl[t].reply
           got(p) == CHOOSE x \in reply : x.id = p
<1> SUFFICES ASSUME NEW p \in Projects PROVE RowBuilt(hist, p, ReceivedRows(rs, reply)[p])
  OBVIOUS
<1>1. /\ rs[p] \in RowAt(hist, p) \cup {None} /\ RowBuilt(hist, p, rs[p])
      /\ hist \in HistType /\ now \in Nat /\ SelfSeen(hist)
  BY TabKnown DEF Built, IInv, TypeOK, HistType
<1>2. CASE \E x \in reply : x.id = p
  <2>1. got(p) \in reply /\ got(p).id = p
    BY <1>2
  <2>2. ReceivedRows(rs, reply)[p] = Received(p, rs[p], got(p).value, now)
    BY <1>2 DEF ReceivedRows
  <2> HIDE DEF got
  <2>3. got(p).value \in ValueAt(hist, p)
    BY <2>1 DEF IInv, Known, KnownCtl, ControlAt, ReplyAt
  <2>4. QED
    BY <1>1, <2>2, <2>3, ReceivedBuilt
<1>3. CASE ~\E x \in reply : x.id = p
  BY <1>1, <1>3 DEF ReceivedRows
<1>4. QED
  BY <1>2, <1>3

\* A step of the controller that replaces rows and has nothing in flight after.
LEMMA LandedBuilt ==
    ASSUME OneTabPerDevice, IInv, IInv', Built, NEW t \in Tabs, UNCHANGED <<work, wire, hist>>,
           NEW R, rows' = [rows EXCEPT ![DeviceOf[t]] = R],
           \A p \in Projects : RowBuilt(hist, p, R[p]),
           NEW k, ctl' = [ctl EXCEPT ![t] = k],
           k.queue \subseteq ctl[t].queue, k.batch \subseteq ctl[t].batch, ~Flying(k)
    PROVE  Built'
<1>1. Extends(hist, hist') /\ SelfSeen(hist') /\ DeviceOf[t] \in Devices
  BY SameExtends, TabKnown
<1>2. /\ \A e \in Devices : e # DeviceOf[t] => rows'[e] = rows[e]
      /\ rows'[DeviceOf[t]] = R
      /\ \A u \in Tabs \ {t} : ctl'[u] = ctl[u]
      /\ ctl'[t] = k
  BY <1>1 DEF IInv, TypeOK
<1>3. ControlBuilt(hist', ctl'[t]) /\ HeldBy(t)'
  BY <1>1, <1>2, StayBuilt DEF HeldBy
<1>4. QED
  BY <1>1, <1>2, <1>3, ControllerBuilt

\* receive() of the conflicting documents, or of the list.
LEMMA ReceiveBuilt ==
    ASSUME OneTabPerDevice, IInv, IInv', Built, NEW t \in Tabs,
           ReceiveConflicts(t) \/ ReceiveList(t)
    PROVE  Built'
<1> DEFINE R == ReceivedRows(rows[DeviceOf[t]], ctl[t].reply)
           k1 == [ctl[t] EXCEPT !.pc = "send", !.batch = {}, !.reply = {}, !.changed = TRUE]
           k2 == [ctl[t] EXCEPT !.pc = IF ctl[t].first THEN "confirm" ELSE "idle", !.reply = {}]
<1>1. /\ UNCHANGED <<work, wire, hist>>
      /\ rows' = [rows EXCEPT ![DeviceOf[t]] = R]
      /\ ctl' = [ctl EXCEPT ![t] = k1] \/ ctl' = [ctl EXCEPT ![t] = k2]
  BY DEF ReceiveConflicts, ReceiveList
<1>2. \A p \in Projects : RowBuilt(hist, p, R[p])
  BY ReceivedRowsBuilt
<1>3. ctl[t] \in Control
  BY TabKnown
<1>4. k1.queue = ctl[t].queue /\ k1.batch = {} /\ ~Flying(k1)
  BY <1>3 DEF Control, Flying
<1>5. k2.queue = ctl[t].queue /\ k2.batch = ctl[t].batch /\ ~Flying(k2)
  BY <1>3 DEF Control, Flying
<1> HIDE DEF R, k1, k2
<1>6. QED
  BY <1>1, <1>2, <1>4, <1>5, LandedBuilt

\* confirmImports() releases staged rows.
LEMMA ConfirmImportsBuilt ==
    ASSUME OneTabPerDevice, IInv, IInv', Built, NEW t \in Tabs, ConfirmImports(t) PROVE Built'
<1> DEFINE d == DeviceOf[t]
           rs == rows[d]
           R == [p \in Projects |->
                     IF rs[p] # None /\ rs[p].staged /\ ImportConfirmed(rs, p, d, now)
                     THEN [rs[p] EXCEPT !.staged = FALSE] ELSE rs[p]]
           k == [ctl[t] EXCEPT !.pc = "idle", !.first = FALSE]
<1>1. /\ UNCHANGED <<work, wire, hist>>
      /\ rows' = [rows EXCEPT ![d] = R]
      /\ ctl' = [ctl EXCEPT ![t] = k]
  BY DEF ConfirmImports
<1>2. ASSUME NEW p \in Projects PROVE RowBuilt(hist, p, R[p])
  <2>1. rs[p] \in RowAt(hist, p) \cup {None} /\ RowBuilt(hist, p, rs[p])
    BY TabKnown DEF Built
  <2>2. CASE R[p] = rs[p]
    BY <2>1, <2>2
  <2>3. CASE rs[p] # None /\ R[p] = [rs[p] EXCEPT !.staged = FALSE]
    <3> DEFINE s == [rs[p] EXCEPT !.staged = FALSE]
    <3>1. rs[p] \in Row
      BY <2>1, <2>3 DEF RowAt
    <3>2. s.base = rs[p].base /\ s.sent = rs[p].sent /\ s.value = rs[p].value
      BY <3>1 DEF Row
    <3> HIDE DEF s
    <3>3. RowBuilt(hist, p, s)
      BY <2>1, <2>3, <3>2 DEF RowBuilt, Builds
    <3>4. QED
      BY <2>3, <3>3 DEF s
  <2>4. QED
    BY <2>2, <2>3
<1>3. ctl[t] \in Control
  BY TabKnown
<1>4. k.queue = ctl[t].queue /\ k.batch = ctl[t].batch /\ ~Flying(k)
  BY <1>3 DEF Control, Flying
<1> HIDE DEF R, k
<1>5. QED
  BY <1>1, <1>2, <1>4, LandedBuilt

\* Steps of the controller that leave the rows alone.
LEMMA QuietControllerBuilt ==
    ASSUME IInv, IInv', Built, NEW t \in Tabs, Commit(t) \/ ListRemote(t) \/ SkipList(t)
    PROVE  Built'
<1>1. UNCHANGED <<rows, work, wire, hist>>
  BY DEF Commit, ListRemote, SkipList
<1>2. \A u \in Tabs : ctl[u] \in Control
  BY DEF IInv, TypeOK
<1>3. \A u \in Tabs : LoadedBuilt(hist', work'[u])
  BY <1>1, SameExtends, StayBuilt
<1>4. CASE ListRemote(t) \/ SkipList(t)
  <2> DEFINE k1 == [ctl[t] EXCEPT !.pc = "listed", !.changed = FALSE, !.reply = Documents]
             k2 == [ctl[t] EXCEPT !.pc = IF ctl[t].first THEN "confirm" ELSE "idle"]
  <2>1. ctl' = [ctl EXCEPT ![t] = k1] \/ ctl' = [ctl EXCEPT ![t] = k2]
    BY <1>4 DEF ListRemote, SkipList
  <2>2. /\ k1.queue = ctl[t].queue /\ k1.batch = ctl[t].batch /\ ~Flying(k1)
        /\ k2.queue = ctl[t].queue /\ k2.batch = ctl[t].batch /\ ~Flying(k2)
    BY <1>2 DEF Control, Flying
  <2> HIDE DEF k1, k2
  <2>3. \A u \in Tabs : ctl'[u] = ctl[u] \/ (u = t /\ ctl'[u] \in {k1, k2})
    BY <2>1 DEF IInv, TypeOK
  <2>4. QED
    BY <1>1, <1>3, <2>2, <2>3, QuietBuilt
<1>5. CASE Commit(t)
  <2> DEFINE k1 == Abandoned(ctl[t])
             reply == {[id |-> m.id, value |-> cloud[m.id]] : m \in Clashing(ctl[t].batch)}
             k2 == [ctl[t] EXCEPT !.pc = "conflicted", !.reply = reply]
             k3 == [Invalidated EXCEPT ![t].pc = "committed"]
  <2>1. /\ ctl[t].pc = "commit"
        /\ \/ ctl' = [ctl EXCEPT ![t] = k1]
           \/ ctl' = [ctl EXCEPT ![t] = k2]
           \/ ctl' = k3
    BY <1>5 DEF Commit
  <2>2. /\ k1.queue = {} /\ k1.batch = {} /\ ~Flying(k1)
        /\ k2.queue = ctl[t].queue /\ k2.batch = ctl[t].batch /\ ~Flying(k2)
    BY <1>2 DEF Control, Flying, Abandoned
  <2>3. ASSUME NEW u \in Tabs
        PROVE  /\ k3[u].queue = ctl[u].queue
               /\ k3[u].batch = ctl[u].batch
               /\ Flying(k3[u]) => Flying(ctl[u])
    <3>1. CASE u = t
      <4>1. k3[t] = [[ctl[t] EXCEPT !.changed = TRUE] EXCEPT !.pc = "committed"]
        BY DEF Invalidated
      <4> HIDE DEF k3
      <4>2. k3[t].queue = ctl[t].queue /\ k3[t].batch = ctl[t].batch
        BY <1>2, <4>1 DEF Control
      <4>3. QED
        BY <2>1, <3>1, <4>2 DEF Flying
    <3>2. CASE u # t
      <4>1. k3[u] = [ctl[u] EXCEPT !.changed = TRUE]
        BY <3>2 DEF Invalidated
      <4>2. QED
        BY <1>2, <4>1 DEF Control, Flying
    <3>3. QED
      BY <3>1, <3>2
  <2> HIDE DEF k1, k2, k3
  <2>4. \/ ctl' = k3
        \/ \A u \in Tabs : ctl'[u] = ctl[u] \/ (u = t /\ ctl'[u] \in {k1, k2})
    BY <2>1 DEF IInv, TypeOK
  <2>5. \A u \in Tabs : /\ ctl'[u].queue \subseteq ctl[u].queue
                        /\ ctl'[u].batch \subseteq ctl[u].batch
                        /\ Flying(ctl'[u]) => Flying(ctl[u]) /\ ctl'[u].batch = ctl[u].batch
    BY <2>2, <2>3, <2>4
  <2>6. QED
    BY <1>1, <1>3, <2>5, QuietBuilt
<1>6. QED
  BY <1>4, <1>5

\* What a batch sends is built.
LEMMA RequestBuilt ==
    ASSUME NEW h, NEW docs, NEW batch, NEW clock, batch \subseteq SyncMutation,
           \A m \in batch : Descends(h, m)
    PROVE  \A w \in Request(docs, batch, clock) : WriteBuilt(h, w)
<1> SUFFICES ASSUME NEW m \in batch
             PROVE  WriteBuilt(h, [id   |-> m.id,
                                   base |-> m.expected,
                                   read |-> VersionOf(docs[m.id]),
                                   doc  |-> IF Replayed(docs, m) THEN None ELSE Stored(m, clock)])
  BY DEF Request
<1>1. m.value \in SyncProject
  BY DEF SyncMutation
<1>2. Stored(m, clock).version = m.value.version
  BY <1>1 DEF Stored, SyncProject
<1>3. QED
  BY <1>2 DEF WriteBuilt, Descends

\* A run that rejects, or a tab that is reloaded.
LEMMA FaultBuilt ==
    ASSUME IInv, IInv', Built, NEW t \in Tabs, Fail(t) \/ Reload(t) PROVE Built'
<1> DEFINE k1 == [Abandoned(ctl[t]) EXCEPT !.changed = ctl[t].changed \/ ctl[t].pc = "listed"]
<1>1. /\ UNCHANGED <<rows, hist>>
      /\ wire' = Orphaned(t)
      /\ ctl' = [ctl EXCEPT ![t] = k1] \/ ctl' = [ctl EXCEPT ![t] = Idle]
  BY DEF Fail, Reload
<1>2. ctl[t] \in Control /\ hist' = hist
  BY <1>1, TabKnown
<1>3. /\ k1.queue = {} /\ k1.batch = {} /\ ~Flying(k1)
      /\ Idle.queue = {} /\ Idle.batch = {} /\ ~Flying(Idle)
  BY <1>2 DEF Control, Flying, Abandoned, Idle
<1> HIDE DEF k1
<1>4. \A u \in Tabs : ctl'[u] = ctl[u] \/ ctl'[u] \in {k1, Idle}
  BY <1>1 DEF IInv, TypeOK
<1>5. \A u \in Tabs : /\ ctl'[u].queue \subseteq ctl[u].queue
                      /\ ctl'[u].batch \subseteq ctl[u].batch
                      /\ Flying(ctl'[u]) => Flying(ctl[u]) /\ ctl'[u].batch = ctl[u].batch
  BY <1>3, <1>4
<1>6. ASSUME NEW request \in wire' \ wire, NEW w \in request PROVE WriteBuilt(hist', w)
  <2>1. request = Request(cloud, ctl[t].batch, now)
    BY <1>1, <1>6 DEF Orphaned
  <2>2. ctl[t].batch \subseteq SyncMutation /\ \A m \in ctl[t].batch : Descends(hist, m)
    BY <1>2 DEF Control, Built, ControlBuilt
  <2>3. QED
    BY <1>2, <1>6, <2>1, <2>2, RequestBuilt
<1>7. ASSUME NEW u \in Tabs PROVE LoadedBuilt(hist', work'[u])
  <2>1. CASE work'[u] = work[u]
    BY <1>1, <2>1, SameExtends, StayBuilt
  <2>2. CASE work'[u] # work[u]
    <3> DEFINE l == work[t]
               r == rows[DeviceOf[t]][l.id]
    <3>1. u = t /\ l # None /\ work'[t] = Recovered(DeviceOf[t], l)
      BY <2>2 DEF Fail, Reload, IInv, TypeOK
    <3>2. l \in LoadedAt(hist) /\ LoadedBuilt(hist, l) /\ l.id \in Projects /\ l \in Loaded
      BY <3>1 DEF IInv, Known, KnownWork, Built, LoadedAt, Loaded
    <3>3. CASE Active(r, now) /\ r.value.token = l.token
      <4>1. work'[t] = Capture(l.id, r) /\ r # None
        BY <3>1, <3>3 DEF Recovered, Active
      <4>2. RowBuilt(hist, l.id, r)
        BY <3>2, TabKnown DEF Built
      <4> HIDE DEF l, r
      <4>3. QED
        BY <1>2, <3>1, <4>1, <4>2 DEF Capture, LoadedBuilt, RowBuilt
    <3>4. CASE ~(Active(r, now) /\ r.value.token = l.token)
      <4> DEFINE s == [l EXCEPT !.sent = None, !.staged = FALSE]
      <4>1. work'[t] = s
        BY <3>1, <3>4 DEF Recovered
      <4>2. s.id = l.id /\ s.base = l.base /\ s.sent = None /\ s.version = l.version
        BY <3>2 DEF Loaded
      <4> HIDE DEF s
      <4>3. QED
        BY <1>2, <3>1, <3>2, <4>1, <4>2 DEF LoadedBuilt, Builds
    <3>5. QED
      BY <3>3, <3>4
  <2>3. QED
    BY <2>1, <2>2
<1>8. QED
  BY <1>1, <1>5, <1>6, <1>7, QuietBuilt

\* A late request, the clock, and no step.
LEMMA EventBuilt ==
    ASSUME IInv, IInv', Built, Deliver \/ Tick \/ UNCHANGED vars PROVE Built'
<1>1. /\ UNCHANGED <<rows, work, hist>>
      /\ wire' \subseteq wire
      /\ ctl' = ctl \/ ctl' = Invalidated
  BY DEF Deliver, Tick, vars
<1>2. \A u \in Tabs : LoadedBuilt(hist', work'[u])
  BY <1>1, SameExtends, StayBuilt
<1>3. \A u \in Tabs : ctl[u] \in Control
  BY DEF IInv, TypeOK
<1>4. \A u \in Tabs : /\ ctl'[u].queue = ctl[u].queue
                      /\ ctl'[u].batch = ctl[u].batch
                      /\ ctl'[u].pc = ctl[u].pc
  BY <1>1, <1>3 DEF Invalidated, Control
<1>5. QED
  BY <1>1, <1>2, <1>4, QuietBuilt DEF Flying

\* Every step leaves everything built on what it replaces.
LEMMA NextBuilt ==
    ASSUME OneTabPerDevice, IInv, IInv', Built, [Next]_vars PROVE Built'
<1>1. ASSUME NEW t \in Tabs, UserStep(t) PROVE Built'
  BY <1>1, UserStepBuilt
<1>2. ASSUME NEW t \in Tabs, ControllerStep(t) PROVE Built'
  BY <1>2, StartRunBuilt, MarkSendingBuilt, AcknowledgeBuilt, ReceiveBuilt, ConfirmImportsBuilt,
     QuietControllerBuilt DEF ControllerStep
<1>3. ASSUME NEW t \in Tabs, Fail(t) \/ Reload(t) PROVE Built'
  BY <1>3, FaultBuilt
<1>4. CASE Deliver \/ Tick \/ UNCHANGED vars
  BY <1>4, EventBuilt
<1>5. QED
  BY <1>1, <1>2, <1>3, <1>4 DEF Next

\* It is so from the start.
LEMMA InitBuilt == Init => Built
<1> SUFFICES ASSUME Init PROVE Built
  OBVIOUS
<1>1. SelfSeen(hist)
  <2> SUFFICES ASSUME NEW p \in Projects, NEW v \in 1..Len(hist[p])
               PROVE  <<p, v>> \in hist[p][v].seen
    BY DEF SelfSeen
  <2>1. hist[p] = <<[seen |-> {<<p, 1>>}, dead |-> FALSE]>> \/ hist[p] = <<>>
    BY DEF Init
  <2>2. CASE hist[p] = <<>>
    BY <2>2
  <2>3. CASE hist[p] = <<[seen |-> {<<p, 1>>}, dead |-> FALSE]>>
    <3>1. Len(hist[p]) = 1 /\ hist[p][1].seen = {<<p, 1>>}
      BY <2>3
    <3>2. v = 1
      BY <3>1
    <3>3. QED
      BY <3>1, <3>2
  <2>4. QED
    BY <2>1, <2>2, <2>3
<1>2. ASSUME NEW d \in Devices, NEW p \in Projects PROVE RowBuilt(hist, p, rows[d][p])
  <2>1. CASE p \in DOMAIN Seed /\ d \in Synced
    <3>1. rows[d][p] = CleanRow(p, SeedValue(p))
      BY <2>1 DEF Init
    <3>2. hist[p] = <<[seen |-> {<<p, 1>>}, dead |-> FALSE]>>
      BY <2>1 DEF Init
    <3>3. <<p, 1>> \in SeenAt(hist, p, 1)
      BY <3>2 DEF SeenAt
    <3>4. QED
      BY <3>1, <3>3 DEF CleanRow, SeedValue, RowBuilt, Builds
  <2>2. CASE ~(p \in DOMAIN Seed /\ d \in Synced) /\ p \in Imported[d]
    <3> DEFINE new == NewRow(p, None, 1, FALSE, d)
    <3>1. rows[d][p] = [new EXCEPT !.staged = TRUE]
      BY <2>2 DEF Init
    <3>2. [new EXCEPT !.staged = TRUE].base = 0 /\ [new EXCEPT !.staged = TRUE].sent = None
      BY DEF NewRow
    <3>3. QED
      BY <3>1, <3>2 DEF RowBuilt, Builds
  <2>3. CASE ~(p \in DOMAIN Seed /\ d \in Synced) /\ p \notin Imported[d]
    BY <2>3 DEF Init, RowBuilt
  <2>4. QED
    BY <2>1, <2>2, <2>3
<1>3. \A t \in Tabs : LoadedBuilt(hist, work[t])
  BY DEF Init, LoadedBuilt
<1>4. ASSUME NEW t \in Tabs PROVE ctl[t].pc = "idle" /\ ctl[t].queue = {} /\ ctl[t].batch = {}
  BY DEF Init, Idle
<1>5. QED
  BY <1>1, <1>2, <1>3, <1>4 DEF Built, ControlBuilt, HeldBy, Flying, Init

\* A transaction that the server applies replaces what its writes build on.
LEMMA AppliedSeen ==
    ASSUME IInv, IInv', UNCHANGED hist, NEW request, request \subseteq WriteAt(hist),
           \A w \in request : WriteBuilt(hist, w),
           Applies(cloud, request, now), cloud' = Apply(cloud, request)
    PROVE  NoSilentOverwriteStep
<1> SUFFICES ASSUME NEW p \in Projects, cloud'[p] # cloud[p], cloud[p] # None
             PROVE  <<p, cloud[p].version>> \in Seen(p, cloud'[p].version)
  BY DEF NoSilentOverwriteStep
<1> DEFINE w0 == CHOOSE w \in request : w.id = p /\ w.doc # None
<1>1. \E w \in request : w.id = p /\ w.doc # None
  BY DEF Apply
<1>2. w0 \in request /\ w0.id = p /\ w0.doc # None
  BY <1>1
<1>3. cloud'[p] = w0.doc
  BY <1>1 DEF Apply
<1> HIDE DEF w0
<1>4. w0.base = cloud[p].version
  BY <1>2 DEF Applies, RulesAllow, RulesUpdate
<1>5. cloud[p].version # 0
  BY DEF IInv, TypeOK, SyncProject
<1>6. QED
  BY <1>2, <1>3, <1>4, <1>5 DEF WriteBuilt, Seen, SeenAt

\* No step replaces a document by a version that does not build on it.
LEMMA NextOverwritesSeen ==
    ASSUME IInv, IInv', Built, [Next]_vars
    PROVE  [NoSilentOverwriteStep]_vars
<1>1. CASE UNCHANGED cloud
  BY <1>1 DEF NoSilentOverwriteStep
<1>2. CASE ~UNCHANGED cloud
  <2>1. (\E t \in Tabs : Commit(t)) \/ Deliver
    <3>1. ASSUME NEW t \in Tabs, UserStep(t) PROVE UNCHANGED cloud
      BY <3>1, UserLeavesDocuments
    <3>2. ASSUME NEW t \in Tabs, ControllerStep(t), ~Commit(t) PROVE UNCHANGED cloud
      BY <3>2 DEF ControllerStep, StartRun, MarkSending, Acknowledge, ReceiveConflicts,
                  ListRemote, ReceiveList, SkipList, ConfirmImports
    <3>3. ASSUME NEW t \in Tabs, Fail(t) \/ Reload(t) PROVE UNCHANGED cloud
      BY <3>3 DEF Fail, Reload
    <3>4. Tick \/ UNCHANGED vars => UNCHANGED cloud
      BY DEF Tick, vars
    <3>5. QED
      BY <1>2, <3>1, <3>2, <3>3, <3>4 DEF Next
  <2>2. ASSUME NEW t \in Tabs, Commit(t) PROVE NoSilentOverwriteStep
    <3> DEFINE request == Request(cloud, ctl[t].batch, now)
    <3>1. UNCHANGED hist /\ Applies(cloud, request, now) /\ cloud' = Apply(cloud, request)
      BY <1>2, <2>2 DEF Commit
    <3>2. /\ ctl[t].batch \in SUBSET MutationAt(hist) /\ ctl[t].batch \subseteq SyncMutation
          /\ \A m \in ctl[t].batch : Descends(hist, m)
      BY DEF IInv, Known, KnownCtl, ControlAt, MutationAt, Built, ControlBuilt
    <3>3. request \subseteq WriteAt(hist)
      <4>1. hist \in HistType /\ now \in Nat /\ \A p \in Projects : cloud[p] \in ValueAt(hist, p) \cup {None}
        BY TabKnown DEF IInv, TypeOK, HistType
      <4>2. QED
        BY <3>2, <4>1, RequestKnown
    <3>4. \A w \in request : WriteBuilt(hist, w)
      BY <3>2, RequestBuilt
    <3> HIDE DEF request
    <3>5. QED
      BY <3>1, <3>3, <3>4, AppliedSeen
  <2>3. CASE Deliver
    <3>1. PICK request \in wire :
              /\ UNCHANGED hist
              /\ Applies(cloud, request, now) /\ cloud' = Apply(cloud, request)
      BY <1>2, <2>3 DEF Deliver
    <3>2. request \subseteq WriteAt(hist) /\ \A w \in request : WriteBuilt(hist, w)
      BY DEF IInv, Known, KnownWire, Built
    <3>3. QED
      BY <3>1, <3>2, AppliedSeen
  <2>4. QED
    BY <2>1, <2>2, <2>3
<1>3. QED
  BY <1>1, <1>2

\* Where every device has one tab, a document is only ever replaced by a
\* version whose author had seen the replaced one: the base that the
\* compare-and-swap of the transaction checks, the group pinned until its
\* reply and the merge of conflicts are together enough.
THEOREM NothingOverwrittenUnseen ==
    ASSUME OneTabPerDevice
    PROVE  Spec => NoSilentOverwrite
<1>1. Init => Built
  BY InitBuilt
<1>2. IInv /\ IInv' /\ Built /\ [Next]_vars => Built'
  BY NextBuilt
<1>3. IInv /\ IInv' /\ Built /\ [Next]_vars => [NoSilentOverwriteStep]_vars
  BY NextOverwritesSeen
<1>4. Spec => []IInv
  BY TypeCorrect
<1>5. QED
  BY <1>1, <1>2, <1>3, <1>4, PTL DEF Spec, NoSilentOverwrite
=============================================================================
