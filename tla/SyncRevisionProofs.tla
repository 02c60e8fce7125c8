-------------------------- MODULE SyncRevisionProofs ---------------------------
(***************************************************************************)
(* The revision numbers of Account Sync, where every device has one tab.   *)
(*                                                                         *)
(* The rows carry versions and revisions side by side, and every merge     *)
(* compares the ones of them it finds handy: receive() orders by revision  *)
(* and recognises by version, acknowledge() and markSending() compare      *)
(* versions only.  That this is enough needs what no variable of the model *)
(* records: which version was committed as a Project's n-th, and under     *)
(* which number a version was first offered to the server.  The proof      *)
(* keeps both in a register W that is chosen anew in every state.          *)
(***************************************************************************)
EXTENDS AccountSyncProofs

\* com: the version committed as each revision; num: the revision a version was
\* offered as; 0 where there is none.
Registers == [com : [Projects -> [Nat -> Nat]], num : [Projects -> [Nat -> Nat]], clock : Nat]

\* Version v of Project p was put in an outbox, numbered n.
Offered(W, p, v) == W.num[p][v] # 0
Numbered(W, p, v, n) == n # 0 /\ W.num[p][v] = n

\* The n-th revision of p was version v; there is no version before the first.
Acked(W, p, v, n) == IF n = 0 THEN v = 0 ELSE v # 0 /\ W.com[p][n] = v

\* No deletion ends later than a deletion that starts now.
Dated(W, value) ==
    value.deletion = "PENDING_DELETE" => value.until # 0 /\ value.until <= W.clock + UndoWindow

OfferKept(W, m) ==
    /\ Numbered(W, m.id, m.value.version, m.value.revision)
    /\ Acked(W, m.id, m.expected, m.value.revision - 1)
    /\ Dated(W, m.value)

\* What a row, or the loaded row of a tab, says of its base and its operation.
BaseKept(W, p, base, baseRev, sent, staged) ==
    /\ Acked(W, p, base, baseRev)
    /\ sent # None => /\ sent.id = p
                      /\ sent.expected = base
                      /\ sent.value.revision = baseRev + 1
                      /\ OfferKept(W, sent)
    /\ staged => base = 0 /\ sent = None

\* A version that was offered is the pinned one, under its number.
OfferedKept(W, p, r) ==
    Offered(W, p, r.value.version) =>
        /\ Numbered(W, p, r.value.version, r.value.revision)
        /\ ~r.staged
        /\ r.sent # None => r.sent.value.version = r.value.version

RemoteKept(W, p, value) == Acked(W, p, value.version, value.revision) /\ Dated(W, value)

RowKept(W, p, r) ==
    r # None => /\ RowConsistent(p, r)
                /\ BaseKept(W, p, r.base, r.baseRev, r.sent, r.staged)
                /\ Dated(W, r.value)
                /\ r.conflict # None => RemoteKept(W, p, r.conflict)
                /\ OfferedKept(W, p, r)

LoadKept(W, l) == l # None => BaseKept(W, l.id, l.base, l.baseRev, l.sent, l.staged)

BatchKept(W, batch) == /\ \A m \in batch : OfferKept(W, m)
                       /\ \A m, n \in batch : m.id = n.id => m = n

ControlKept(W, k) ==
    /\ \A batch \in k.queue : BatchKept(W, batch)
    /\ BatchKept(W, k.batch)
    /\ k.pc = "committed" => \A m \in k.batch : Acked(W, m.id, m.value.version, m.value.revision)
    /\ \A x \in k.reply : RemoteKept(W, x.id, x.value)

WriteKept(W, w) == w.doc # None => Numbered(W, w.id, w.doc.version, w.doc.revision)

\* While an operation is in flight, nothing newer is offered on its base.
Settled(W, r, m) ==
    r # None /\ r.base = m.expected /\ Offered(W, m.id, r.value.version)
        => r.value.version = m.value.version
AllSettled(W, t) ==
    Flying(ctl[t]) => \A m \in ctl[t].batch : Settled(W, rows[DeviceOf[t]][m.id], m)

\* A tab has not loaded a newer base than its device's row.
Behind(l, r) == l.baseRev <= (IF r = None THEN 0 ELSE r.baseRev)
LoadBehind(t) == work[t] # None => Behind(work[t], rows[DeviceOf[t]][work[t].id])

\* A version that was not offered is in the row of its device only.
Private(W, p, r, s) ==
    r # None /\ s # None /\ r.value.version = s.value.version => Offered(W, p, r.value.version)

Top(p) == IF cloud[p] = None THEN 0 ELSE cloud[p].revision

\* The register fits the documents: their revisions are the committed ones.
Fits(W, p) ==
    /\ \A v \in Nat : Offered(W, p, v) => v \in 1..Len(hist[p])
    /\ \A n \in Nat : W.com[p][n] # 0 <=> n \in 1..Top(p)
    /\ \A n \in Nat : W.com[p][n] # 0 => W.num[p][W.com[p][n]] = n
    /\ cloud[p] # None => RemoteKept(W, p, cloud[p])

Entered(W) ==
    /\ W \in Registers
    /\ W.clock = now
    /\ \A p \in Projects : Fits(W, p)
    /\ \A d \in Devices, p \in Projects : RowKept(W, p, rows[d][p])
    /\ \A d, e \in Devices, p \in Projects : d # e => Private(W, p, rows[d][p], rows[e][p])
    /\ \A t \in Tabs : LoadKept(W, work[t])
    /\ \A t \in Tabs : LoadBehind(t)
    /\ \A t \in Tabs : ControlKept(W, ctl[t])
    /\ \A request \in wire : \A w \in request : WriteKept(W, w)
    /\ \A t \in Tabs : AllSettled(W, t)

\* The register X adds to W.
Onward(W, X) ==
    /\ W.clock <= X.clock
    /\ \A p \in Projects : \A n \in Nat : W.com[p][n] # 0 => X.com[p][n] = W.com[p][n]
    /\ \A p \in Projects : \A v \in Nat : W.num[p][v] # 0 => X.num[p][v] = W.num[p][v]

-----------------------------------------------------------------------------
(* What a register says. *)

\* One version was committed as a revision, under the number it was offered as.
LEMMA AckedOnce ==
    ASSUME NEW W \in Registers, NEW p \in Projects, Fits(W, p)
    PROVE  /\ \A u, v, n \in Nat : Acked(W, p, u, n) /\ Acked(W, p, v, n) => u = v
           /\ \A v, n, k \in Nat : Acked(W, p, v, n) /\ Acked(W, p, v, k) => n = k
           /\ \A v, n \in Nat : Acked(W, p, v, n) /\ v # 0 =>
                  n # 0 /\ Numbered(W, p, v, n) /\ Offered(W, p, v) /\ n <= Top(p)
BY DEF Fits, Acked, Numbered, Offered

\* A fresh version was not offered yet.
LEMMA FreshUnoffered ==
    ASSUME IInv, NEW W \in Registers, NEW p \in Projects, Fits(W, p)
    PROVE  ~Offered(W, p, Fresh(p)) /\ Fresh(p) \in Nat \ {0}
<1>1. hist \in HistType
  BY DEF IInv, TypeOK, HistType
<1>2. Len(hist[p]) \in Nat
  BY <1>1, HistLength
<1>3. Fresh(p) \in Nat \ {0} /\ Fresh(p) \notin 1..Len(hist[p])
  BY <1>2 DEF Fresh
<1>4. QED
  BY <1>3 DEF Fits

\* What a register says, one that adds to it says as well.
LEMMA OnwardKeeps ==
    ASSUME NEW W \in Registers, NEW X \in Registers, Onward(W, X), NEW p \in Projects
    PROVE  /\ \A v, n \in Nat : Acked(W, p, v, n) => Acked(X, p, v, n)
           /\ \A v, n \in Nat : Numbered(W, p, v, n) => Numbered(X, p, v, n)
           /\ \A value \in SyncProject : Dated(W, value) => Dated(X, value)
           /\ \A value \in SyncProject : RemoteKept(W, p, value) => RemoteKept(X, p, value)
<1>1. \A v, n \in Nat : Acked(W, p, v, n) => Acked(X, p, v, n)
  BY DEF Acked, Onward
<1>2. \A v, n \in Nat : Numbered(W, p, v, n) => Numbered(X, p, v, n)
  BY DEF Numbered, Onward
<1>3. ASSUME NEW value \in SyncProject, Dated(W, value) PROVE Dated(X, value)
  <2>1. W.clock \in Nat /\ X.clock \in Nat /\ W.clock <= X.clock /\ UndoWindow \in Nat
    BY UndoWindowAssumption DEF Registers, Onward
  <2>2. value.until \in Nat
    BY DEF SyncProject
  <2>3. QED
    BY <1>3, <2>1, <2>2 DEF Dated
<1>4. \A value \in SyncProject : value.version \in Nat /\ value.revision \in Nat
  BY DEF SyncProject
<1>5. QED
  BY <1>1, <1>2, <1>3, <1>4 DEF RemoteKept

\* So are operations, bases, rows, controllers and requests kept.
LEMMA OnwardOffers ==
    ASSUME NEW W \in Registers, NEW X \in Registers, Onward(W, X)
    PROVE  \A m \in SyncMutation : OfferKept(W, m) => OfferKept(X, m)
<1> SUFFICES ASSUME NEW m \in SyncMutation, OfferKept(W, m) PROVE OfferKept(X, m)
  OBVIOUS
<1>1. m.id \in Projects /\ m.expected \in Nat /\ m.value \in SyncProject
  BY DEF SyncMutation
<1>2. m.value.version \in Nat /\ m.value.revision \in Nat /\ m.value.revision - 1 \in Nat
  BY <1>1 DEF SyncProject
<1>3. QED
  BY <1>1, <1>2, OnwardKeeps DEF OfferKept

\* A base and its operation.
LEMMA OnwardBase ==
    ASSUME NEW W \in Registers, NEW X \in Registers, Onward(W, X), NEW p \in Projects,
           NEW base \in Nat, NEW baseRev \in Nat, NEW sent \in SyncMutation \cup {None}, NEW staged,
           BaseKept(W, p, base, baseRev, sent, staged)
    PROVE  BaseKept(X, p, base, baseRev, sent, staged)
<1>1. Acked(X, p, base, baseRev)
  BY OnwardKeeps DEF BaseKept
<1>2. sent # None => OfferKept(X, sent)
  BY OnwardOffers DEF BaseKept
<1>3. QED
  BY <1>1, <1>2 DEF BaseKept

\* The fields of rows, loaded rows, operations and values.
LEMMA Fields ==
    /\ \A r \in Row : /\ r.base \in Nat /\ r.baseRev \in Nat /\ r.value \in SyncProject
                      /\ r.conflict \in SyncProject \cup {None}
                      /\ r.sent \in SyncMutation \cup {None}
    /\ \A l \in Loaded : /\ l.id \in Projects /\ l.base \in Nat /\ l.baseRev \in Nat
                         /\ l.sent \in SyncMutation \cup {None}
    /\ \A m \in SyncMutation : m.id \in Projects /\ m.expected \in Nat /\ m.value \in SyncProject
    /\ \A value \in SyncProject : /\ value.version \in Nat \ {0} /\ value.revision \in Nat \ {0}
                                  /\ value.version \in Nat /\ value.revision \in Nat
                                  /\ value.until \in Nat
    /\ None \notin Row /\ None \notin SyncProject /\ None \notin SyncMutation
BY NoneAssumption DEF Row, Loaded, SyncMutation, SyncProject

\* What the variables hold, by type.
LEMMA Holds ==
    ASSUME IInv
    PROVE  /\ \A d \in Devices, p \in Projects : rows[d][p] \in Row \cup {None}
           /\ \A p \in Projects : cloud[p] \in SyncProject \cup {None}
           /\ \A t \in Tabs : /\ DeviceOf[t] \in Devices
                              /\ work[t] \in Loaded \cup {None}
                              /\ ctl[t] \in Control
                              /\ \A batch \in ctl[t].queue : batch \subseteq SyncMutation
                              /\ ctl[t].batch \subseteq SyncMutation
                              /\ ctl[t].reply \subseteq [id : Projects, value : SyncProject]
           /\ \A request \in wire : \A w \in request :
                  w.id \in Projects /\ w.doc \in SyncProject \cup {None}
           /\ now \in Nat
<1>1. \A request \in wire : \A w \in request : w.id \in Projects /\ w.doc \in SyncProject \cup {None}
  BY DEF IInv, Known, KnownWire, WriteAt
<1>2. QED
  BY <1>1, TabsAssumption DEF IInv, TypeOK, Control

\* A row whose version was not offered since.
LEMMA OnwardRow ==
    ASSUME NEW W \in Registers, NEW X \in Registers, Onward(W, X), NEW p \in Projects,
           NEW r \in Row \cup {None}, RowKept(W, p, r),
           r # None /\ Offered(X, p, r.value.version) => Offered(W, p, r.value.version)
    PROVE  RowKept(X, p, r)
<1> SUFFICES ASSUME r # None PROVE RowKept(X, p, r)
  BY DEF RowKept
<1>1. r \in Row
  OBVIOUS
<1>2. BaseKept(X, p, r.base, r.baseRev, r.sent, r.staged)
  BY <1>1, Fields, OnwardBase DEF RowKept
<1>3. Dated(X, r.value) /\ (r.conflict # None => RemoteKept(X, p, r.conflict))
  BY <1>1, Fields, OnwardKeeps DEF RowKept
<1>4. OfferedKept(X, p, r)
  BY <1>1, Fields, OnwardKeeps DEF RowKept, OfferedKept
<1>5. QED
  BY <1>2, <1>3, <1>4 DEF RowKept

\* The loaded row of a tab.
LEMMA OnwardLoad ==
    ASSUME NEW W \in Registers, NEW X \in Registers, Onward(W, X),
           NEW l \in Loaded \cup {None}, LoadKept(W, l)
    PROVE  LoadKept(X, l)
BY Fields, OnwardBase DEF LoadKept

\* The operations of a batch.
LEMMA OnwardBatch ==
    ASSUME NEW W \in Registers, NEW X \in Registers, Onward(W, X),
           NEW batch \in SUBSET SyncMutation, BatchKept(W, batch)
    PROVE  BatchKept(X, batch)
BY OnwardOffers DEF BatchKept

\* The progress of a controller.
LEMMA OnwardControl ==
    ASSUME NEW W \in Registers, NEW X \in Registers, Onward(W, X),
           NEW k \in Control, ControlKept(W, k)
    PROVE  ControlKept(X, k)
<1>1. /\ \A batch \in k.queue : batch \in SUBSET SyncMutation
      /\ k.batch \in SUBSET SyncMutation
      /\ \A x \in k.reply : x.id \in Projects /\ x.value \in SyncProject
  BY DEF Control
<1>2. /\ \A batch \in k.queue : BatchKept(X, batch)
      /\ BatchKept(X, k.batch)
  BY <1>1, OnwardBatch DEF ControlKept
<1>3. k.pc = "committed" => \A m \in k.batch : Acked(X, m.id, m.value.version, m.value.revision)
  BY <1>1, Fields, OnwardKeeps DEF ControlKept
<1>4. \A x \in k.reply : RemoteKept(X, x.id, x.value)
  BY <1>1, OnwardKeeps DEF ControlKept
<1>5. QED
  BY <1>2, <1>3, <1>4 DEF ControlKept

\* A request on the wire.
LEMMA OnwardWrite ==
    ASSUME NEW W \in Registers, NEW X \in Registers, Onward(W, X),
           NEW w, w.id \in Projects, w.doc \in SyncProject \cup {None}, WriteKept(W, w)
    PROVE  WriteKept(X, w)
BY Fields, OnwardKeeps DEF WriteKept

-----------------------------------------------------------------------------
(* The steps that leave the register alone. *)

\* Row s of a device follows row r: acknowledged bases do not go back, but to
\* stage a conflict, and a version comes from an edit, from the row, or from
\* the documents.
Advances(r, s) == r # None => r.baseRev <= (IF s = None THEN 0 ELSE s.baseRev)
Sourced(W, p, r, s) == s # None => \/ s.value.version = Fresh(p)
                                   \/ Offered(W, p, s.value.version)
                                   \/ r # None /\ s.value.version = r.value.version

\* A step of one tab on its device, whose tab and rows it leaves kept.
LEMMA DeviceEntered ==
    ASSUME OneTabPerDevice, IInv, IInv', NEW W, Entered(W), NEW t \in Tabs,
           UNCHANGED <<cloud, wire, now>>, Grows(hist, hist'),
           \A e \in Devices : e # DeviceOf[t] => rows'[e] = rows[e],
           \A u \in Tabs : u # t => work'[u] = work[u] /\ ctl'[u] = ctl[u],
           \A p \in Projects : /\ RowKept(W, p, rows'[DeviceOf[t]][p])
                               /\ Sourced(W, p, rows[DeviceOf[t]][p], rows'[DeviceOf[t]][p]),
           LoadKept(W, work'[t]), LoadBehind(t)', ControlKept(W, ctl'[t]), AllSettled(W, t)'
    PROVE  Entered(W)'
<1> DEFINE d == DeviceOf[t]
<1>1. /\ W \in Registers /\ W.clock = now'
      /\ \A p \in Projects : Fits(W, p)
  BY DEF Entered
<1>2. ASSUME NEW p \in Projects PROVE Fits(W, p)'
  <2>1. Fits(W, p) /\ cloud'[p] = cloud[p]
    BY <1>1
  <2>2. Len(hist[p]) \in Nat /\ Len(hist'[p]) \in Nat /\ Len(hist[p]) <= Len(hist'[p])
    <3>1. hist \in HistType /\ hist' \in HistType
      BY DEF IInv, TypeOK, HistType
    <3>2. QED
      BY <3>1, HistLength DEF Grows
  <2>3. \A v \in 1..Len(hist[p]) : v \in 1..Len(hist'[p])
    BY <2>2
  <2>4. QED
    BY <2>1, <2>3 DEF Fits, Top
<1>3. \A u \in Tabs : u # t => DeviceOf[u] # d /\ DeviceOf[u] \in Devices
  BY Holds DEF OneTabPerDevice
<1>4. d \in Devices
  BY Holds
<1>5. \A e \in Devices, p \in Projects : RowKept(W, p, rows'[e][p])
  BY <1>4 DEF Entered
<1>6. ASSUME NEW e \in Devices, e # d, NEW p \in Projects
      PROVE  Private(W, p, rows'[d][p], rows'[e][p]) /\ Private(W, p, rows'[e][p], rows'[d][p])
  <2> DEFINE r == rows[d][p]
             s == rows'[d][p]
             x == rows[e][p]
  <2>1. rows'[e][p] = x
    BY <1>6
  <2> SUFFICES ASSUME s # None, x # None, s.value.version = x.value.version
               PROVE  Offered(W, p, s.value.version)
    BY <2>1 DEF Private
  <2>2. Private(W, p, r, x)
    BY <1>4, <1>6 DEF Entered
  <2>3. s.value.version # Fresh(p)
    <3>1. x \in RowAt(hist, p)
      BY DEF IInv, Known, KnownRows
    <3>2. Len(hist[p]) \in Nat /\ x.value.version \in 1..Len(hist[p])
      <4>1. hist \in HistType
        BY DEF IInv, TypeOK, HistType
      <4>2. QED
        BY <3>1, <4>1, HistLength DEF RowAt, ValueAt
    <3>3. QED
      BY <3>2 DEF Fresh
  <2>4. QED
    BY <2>2, <2>3 DEF Sourced, Private
<1>7. ASSUME NEW e \in Devices, NEW f \in Devices, e # f, NEW p \in Projects
      PROVE  Private(W, p, rows'[e][p], rows'[f][p])
  <2>1. CASE e = d \/ f = d
    BY <1>6, <1>7, <2>1
  <2>2. CASE e # d /\ f # d
    BY <1>7, <2>2 DEF Entered
  <2>3. QED
    BY <2>1, <2>2
<1>8. ASSUME NEW u \in Tabs
      PROVE  LoadKept(W, work'[u]) /\ LoadBehind(u)' /\ ControlKept(W, ctl'[u]) /\ AllSettled(W, u)'
  <2>1. CASE u = t
    BY <2>1
  <2>2. CASE u # t
    <3>1. /\ work'[u] = work[u] /\ ctl'[u] = ctl[u]
          /\ rows'[DeviceOf[u]] = rows[DeviceOf[u]]
      BY <1>3, <2>2
    <3>2. LoadKept(W, work[u]) /\ LoadBehind(u) /\ ControlKept(W, ctl[u]) /\ AllSettled(W, u)
      BY DEF Entered
    <3>3. QED
      BY <3>1, <3>2 DEF LoadBehind, AllSettled
  <2>3. QED
    BY <2>1, <2>2
<1>9. \A request \in wire' : \A w \in request : WriteKept(W, w)
  BY DEF Entered
<1>10. QED
  BY <1>1, <1>2, <1>5, <1>7, <1>8, <1>9 DEF Entered

-----------------------------------------------------------------------------
(* The user's steps. *)

\* An edit of the envelope of a kept row.
LEMMA RelabelKept ==
    ASSUME NEW W \in Registers, NEW p \in Projects, NEW r \in Row, RowKept(W, p, r), NEW n \in Nat \ {0},
           ~Offered(W, p, n), NEW deletion \in DeletionStates, NEW until \in Nat,
           deletion = "PENDING_DELETE" => until # 0 /\ until <= W.clock + UndoWindow
    PROVE  LET s == Relabel(r, n, deletion, until) IN
           /\ RowKept(W, p, s) /\ s \in Row
           /\ s.value.version = n /\ s.base = r.base /\ s.baseRev = r.baseRev
           /\ s.staged = r.staged /\ s.dirty /\ s.conflict = r.conflict
           /\ \A group \in Projects \X Nat : LET g == [s EXCEPT !.group = group] IN
                 /\ RowKept(W, p, g) /\ g \in Row
                 /\ g.value.version = n /\ g.base = r.base /\ g.baseRev = r.baseRev
<1> DEFINE s == Relabel(r, n, deletion, until)
<1>1. r # None /\ r.value \in SyncProject /\ r.baseRev \in Nat
  BY Fields
<1>2. /\ s.value = [r.value EXCEPT !.deletion = deletion, !.until = until,
                                   !.version = n, !.revision = r.baseRev + 1]
      /\ s.base = r.base /\ s.baseRev = r.baseRev /\ s.dirty = TRUE /\ s.conflict = r.conflict
      /\ s.sent = r.sent /\ s.staged = r.staged
  BY <1>1 DEF Relabel, Row
<1>3. /\ s.value.version = n /\ s.value.revision = r.baseRev + 1
      /\ s.value.deletion = deletion /\ s.value.until = until
  BY <1>1, <1>2 DEF SyncProject
<1>4. ASSUME NEW g, g.value = s.value, g.base = s.base, g.baseRev = s.baseRev, g.dirty = s.dirty,
             g.conflict = s.conflict, g.sent = s.sent, g.staged = s.staged
      PROVE  RowKept(W, p, g)
  <2>1. RowConsistent(p, g)
    BY <1>1, <1>2, <1>3, <1>4 DEF RowKept, RowConsistent
  <2>2. BaseKept(W, p, g.base, g.baseRev, g.sent, g.staged)
    BY <1>1, <1>2, <1>4 DEF RowKept
  <2>3. Dated(W, g.value) /\ (g.conflict # None => RemoteKept(W, p, g.conflict))
    BY <1>1, <1>2, <1>3, <1>4 DEF RowKept, Dated
  <2>4. OfferedKept(W, p, g)
    BY <1>3, <1>4 DEF OfferedKept
  <2>5. QED
    BY <2>1, <2>2, <2>3, <2>4 DEF RowKept
<1>41. s \in Row
  <2>1. r.baseRev + 1 \in Nat \ {0}
    BY <1>1
  <2>2. s.value \in SyncProject
    BY <1>1, <1>2, <2>1 DEF SyncProject
  <2>3. QED
    BY <2>2 DEF Relabel, Row
<1>5. ASSUME NEW group \in Projects \X Nat
      PROVE  LET g == [s EXCEPT !.group = group] IN
             /\ g \in Row
             /\ g.value = s.value /\ g.base = s.base /\ g.baseRev = s.baseRev /\ g.dirty = s.dirty
             /\ g.conflict = s.conflict /\ g.sent = s.sent /\ g.staged = s.staged
  BY <1>41 DEF Row
<1> HIDE DEF s
<1>6. RowKept(W, p, s)
  BY <1>4
<1>7. \A group \in Projects \X Nat : RowKept(W, p, [s EXCEPT !.group = group])
  BY <1>4, <1>5
<1>8. QED
  BY <1>2, <1>3, <1>41, <1>5, <1>6, <1>7 DEF s

\* A local write on top of a kept base.
LEMMA LocalRowKept ==
    ASSUME NEW W \in Registers, NEW p \in Projects, NEW prev \in Row \cup Loaded \cup {None},
           prev # None => BaseKept(W, p, prev.base, prev.baseRev, prev.sent, prev.staged),
           NEW n \in Nat \ {0}, ~Offered(W, p, n), NEW conflict \in SyncProject \cup {None},
           conflict # None => /\ RemoteKept(W, p, conflict)
                              /\ conflict.revision > (IF prev = None THEN 0 ELSE prev.baseRev),
           NEW s, s.dirty = TRUE, s.conflict = conflict,
           s.value.version = n, s.value.deletion = "ACTIVE",
           s.value.revision = 1 + (IF prev = None THEN 0 ELSE prev.baseRev),
           s.base = (IF prev = None THEN 0 ELSE prev.base),
           s.baseRev = (IF prev = None THEN 0 ELSE prev.baseRev),
           s.sent = (IF prev = None THEN None ELSE prev.sent),
           s.staged = (IF prev = None THEN FALSE ELSE prev.staged)
    PROVE  RowKept(W, p, s)
<1> DEFINE rev == IF prev = None THEN 0 ELSE prev.baseRev
<1>1. s.baseRev = rev /\ s.value.revision = 1 + rev
  OBVIOUS
<1>2. rev \in Nat
  BY Fields
<1>3. BaseKept(W, p, s.base, s.baseRev, s.sent, s.staged)
  BY DEF BaseKept, Acked
<1> HIDE DEF rev
<1>4. RowConsistent(p, s)
  BY <1>1, <1>2, <1>3 DEF RowConsistent, BaseKept, rev
<1>5. Dated(W, s.value) /\ (s.conflict # None => RemoteKept(W, p, s.conflict))
  BY DEF Dated
<1>6. OfferedKept(W, p, s)
  BY DEF OfferedKept
<1>7. QED
  BY <1>3, <1>4, <1>5, <1>6 DEF RowKept

\* A tab that loads a kept row keeps its base.
LEMMA CaptureKept ==
    ASSUME NEW W, NEW p, NEW r, r # None, RowKept(W, p, r)
    PROVE  /\ LoadKept(W, Capture(p, r))
           /\ Capture(p, r).id = p /\ Capture(p, r).baseRev = r.baseRev
BY DEF RowKept, LoadKept, Capture

\* What a user's step makes of a row: an edit of it, under a fresh version or
\* with its version and its base.
Edits(p, r, s) == s # None => \/ s.value.version = Fresh(p)
                              \/ r # None /\ s.value.version = r.value.version /\ s.base = r.base

\* A user's step.
LEMMA UserEntered ==
    ASSUME OneTabPerDevice, IInv, IInv', NEW W, Entered(W), NEW t \in Tabs,
           UNCHANGED <<cloud, ctl, wire, now>>, Grows(hist, hist'),
           \A e \in Devices : e # DeviceOf[t] => rows'[e] = rows[e],
           \A u \in Tabs : u # t => work'[u] = work[u],
           \A p \in Projects : /\ RowKept(W, p, rows'[DeviceOf[t]][p])
                               /\ Edits(p, rows[DeviceOf[t]][p], rows'[DeviceOf[t]][p]),
           LoadKept(W, work'[t]), LoadBehind(t)'
    PROVE  Entered(W)'
<1> DEFINE d == DeviceOf[t]
<1>1. \A p \in Projects : Sourced(W, p, rows[d][p], rows'[d][p])
  BY DEF Edits, Sourced
<1>2. ControlKept(W, ctl'[t])
  BY DEF Entered
<1>3. AllSettled(W, t)'
  <2>1. SUFFICES ASSUME Flying(ctl[t]), NEW m \in ctl[t].batch
                 PROVE  Settled(W, rows'[d][m.id], m)
    BY DEF AllSettled
  <2>2. Settled(W, rows[d][m.id], m)
    BY <2>1 DEF Entered, AllSettled
  <2>3. m.id \in Projects
    BY Holds, Fields
  <2>4. ~Offered(W, m.id, Fresh(m.id))
    BY <2>3, FreshUnoffered DEF Entered
  <2>5. QED
    BY <2>2, <2>3, <2>4 DEF Edits, Settled
<1>4. \A u \in Tabs : u # t => work'[u] = work[u] /\ ctl'[u] = ctl[u]
  OBVIOUS
<1>5. QED
  BY <1>1, <1>2, <1>3, <1>4, DeviceEntered

\* A step whose rows advance lets no acknowledged base go back.
LEMMA AdvancesHold ==
    ASSUME IInv, NEW t \in Tabs,
           \A e \in Devices : e # DeviceOf[t] => rows'[e] = rows[e],
           \A p \in Projects : Advances(rows[DeviceOf[t]][p], rows'[DeviceOf[t]][p]),
           \A e \in Devices, p \in Projects : rows'[e][p] \in Row \cup {None}
    PROVE  /\ AckNeverRegressesStep
           /\ work'[t] \in {work[t], None} /\ LoadBehind(t) => LoadBehind(t)'
<1> DEFINE d == DeviceOf[t]
<1>1. ASSUME NEW e \in Devices, NEW p \in Projects, rows[e][p] # None, rows'[e][p] # None
      PROVE  rows[e][p].baseRev <= rows'[e][p].baseRev
  <2>1. CASE e = d
    BY <1>1, <2>1 DEF Advances
  <2>2. CASE e # d
    BY <1>1, <2>2, Holds, Fields
  <2>3. QED
    BY <2>1, <2>2
<1>2. \A e \in Devices, p \in Projects :
          /\ rows[e][p] # None => rows[e][p].baseRev \in Nat
          /\ rows'[e][p] # None => rows'[e][p].baseRev \in Nat
  BY Holds, Fields
<1>3. AckNeverRegressesStep
  BY <1>1, <1>2 DEF AckNeverRegressesStep
<1>4. ASSUME work'[t] \in {work[t], None}, LoadBehind(t) PROVE LoadBehind(t)'
  <2>1. SUFFICES ASSUME work[t] # None, work'[t] = work[t]
                 PROVE  Behind(work[t], rows'[d][work[t].id])
    BY <1>4 DEF LoadBehind
  <2> DEFINE p == work[t].id
             r == rows[d][p]
             s == rows'[d][p]
  <2>2. p \in Projects /\ work[t].baseRev \in Nat /\ d \in Devices
    BY <2>1, Holds, Fields
  <2>3. Behind(work[t], r) /\ Advances(r, s)
    BY <1>4, <2>1, <2>2 DEF LoadBehind
  <2>4. (r # None => r.baseRev \in Nat) /\ (s # None => s.baseRev \in Nat)
    BY <1>2, <2>2
  <2> HIDE DEF r, s
  <2>5. Behind(work[t], s)
    BY <2>2, <2>3, <2>4 DEF Behind, Advances
  <2>6. QED
    BY <2>5 DEF s
<1>5. QED
  BY <1>3, <1>4

\* A user's step whose rows advance, and that leaves the tab's loaded row or
\* drops it.
LEMMA EditEntered ==
    ASSUME OneTabPerDevice, IInv, IInv', NEW W, Entered(W), NEW t \in Tabs,
           UNCHANGED <<cloud, ctl, wire, now>>, Grows(hist, hist'),
           \A e \in Devices : e # DeviceOf[t] => rows'[e] = rows[e],
           \A u \in Tabs : u # t => work'[u] = work[u], work'[t] \in {work[t], None},
           \A p \in Projects : /\ RowKept(W, p, rows'[DeviceOf[t]][p])
                               /\ Edits(p, rows[DeviceOf[t]][p], rows'[DeviceOf[t]][p])
                               /\ Advances(rows[DeviceOf[t]][p], rows'[DeviceOf[t]][p])
    PROVE  Entered(W)' /\ AckNeverRegressesStep
<1>1. \A e \in Devices, p \in Projects : rows'[e][p] \in Row \cup {None}
  BY DEF IInv, TypeOK
<1>2. LoadBehind(t) /\ LoadKept(W, work[t])
  BY DEF Entered
<1>3. AckNeverRegressesStep /\ LoadBehind(t)'
  BY <1>1, <1>2, AdvancesHold
<1>4. LoadKept(W, work'[t])
  BY <1>2 DEF LoadKept
<1>5. QED
  BY <1>3, <1>4, UserEntered

\* A step that adds versions makes the history longer.
LEMMA AddsGrows ==
    ASSUME IInv, Built, \A p \in Projects : hist'[p] = hist[p] \/ \E seen : Adds(p, seen)
    PROVE  Grows(hist, hist')
BY HistoryExtends DEF Built, Extends, Grows

\* A row that stays.
LEMMA SameRow ==
    ASSUME IInv, NEW W, Entered(W), NEW d \in Devices, NEW p \in Projects
    PROVE  /\ RowKept(W, p, rows[d][p])
           /\ Edits(p, rows[d][p], rows[d][p])
           /\ Sourced(W, p, rows[d][p], rows[d][p])
           /\ Advances(rows[d][p], rows[d][p])
<1>1. RowKept(W, p, rows[d][p])
  BY DEF Entered
<1>2. rows[d][p] # None => rows[d][p].baseRev \in Nat
  BY Holds, Fields
<1>3. Advances(rows[d][p], rows[d][p])
  BY <1>2 DEF Advances
<1>4. QED
  BY <1>1, <1>3 DEF Edits, Sourced

\* An edit of one row.
LEMMA EditRowEntered ==
    ASSUME OneTabPerDevice, IInv, IInv', Built, NEW W, Entered(W), NEW t \in Tabs, NEW p \in Projects,
           NEW s, NEW dead \in BOOLEAN, Edit(DeviceOf[t], p, s, dead),
           UNCHANGED <<cloud, ctl, wire, now>>,
           \A u \in Tabs : u # t => work'[u] = work[u], work'[t] \in {work[t], None},
           RowKept(W, p, s), s.value.version = Fresh(p), Advances(rows[DeviceOf[t]][p], s)
    PROVE  Entered(W)' /\ AckNeverRegressesStep
<1> DEFINE d == DeviceOf[t]
<1>1. d \in Devices
  BY Holds
<1>2. /\ rows' = [rows EXCEPT ![d][p] = s]
      /\ hist' = [hist EXCEPT ![p] = Append(@, Entry(p, SeenRow(p, rows[d][p]), dead))]
  BY DEF Edit
<1>3. \A q \in Projects : hist'[q] = hist[q] \/ \E seen : Adds(q, seen)
  BY <1>2 DEF Adds, IInv, TypeOK
<1>4. Grows(hist, hist')
  BY <1>3, AddsGrows
<1>5. /\ \A e \in Devices : e # d => rows'[e] = rows[e]
      /\ rows'[d][p] = s
      /\ \A q \in Projects : q # p => rows'[d][q] = rows[d][q]
  BY <1>1, <1>2 DEF IInv, TypeOK
<1>6. ASSUME NEW q \in Projects
      PROVE  /\ RowKept(W, q, rows'[d][q])
             /\ Edits(q, rows[d][q], rows'[d][q])
             /\ Advances(rows[d][q], rows'[d][q])
  <2>1. CASE q = p
    BY <1>5, <2>1 DEF Edits
  <2>2. CASE q # p
    BY <1>1, <1>5, <2>2, SameRow
  <2>3. QED
    BY <2>1, <2>2
<1>7. QED
  BY <1>4, <1>5, <1>6, EditEntered

\* Deleting a Project, and undoing that.
LEMMA DeleteEntered ==
    ASSUME OneTabPerDevice, IInv, IInv', Built, NEW W, Entered(W), NEW t \in Tabs, NEW p \in Projects,
           Delete(t, p) \/ Undo(t, p)
    PROVE  Entered(W)' /\ AckNeverRegressesStep
<1> DEFINE d == DeviceOf[t]
           r == rows[d][p]
<1>1. PICK deletion \in DeletionStates, until \in Nat, dead \in BOOLEAN :
          /\ Edit(d, p, Relabel(r, Fresh(p), deletion, until), dead)
          /\ deletion = "PENDING_DELETE" => until = now + UndoWindow
  <2>1. CASE Delete(t, p)
    <3>1. Edit(d, p, Relabel(r, Fresh(p), "PENDING_DELETE", now + UndoWindow), TRUE)
      BY <2>1 DEF Delete
    <3>2. now + UndoWindow \in Nat
      BY Holds, UndoWindowAssumption
    <3>3. QED
      BY <3>1, <3>2, ZenonT(40) DEF DeletionStates
  <2>2. CASE Undo(t, p)
    <3>1. Edit(d, p, Relabel(r, Fresh(p), "ACTIVE", 0), FALSE)
      BY <2>2 DEF Undo
    <3>2. 0 \in Nat /\ "ACTIVE" # "PENDING_DELETE"
      OBVIOUS
    <3>3. QED
      BY <3>1, <3>2, ZenonT(40) DEF DeletionStates
  <2>3. QED
    BY <2>1, <2>2
<1>2. /\ UNCHANGED <<cloud, ctl, wire, now>>
      /\ \A u \in Tabs : u # t => work'[u] = work[u]
      /\ work'[t] \in {work[t], None}
      /\ r # None
  BY DEF Delete, Undo, Active, IInv, TypeOK
<1>3. /\ W \in Registers /\ W.clock = now /\ Fits(W, p)
      /\ d \in Devices /\ r \in Row /\ RowKept(W, p, r)
      /\ ~Offered(W, p, Fresh(p)) /\ Fresh(p) \in Nat \ {0}
  BY <1>2, Holds, FreshUnoffered DEF Entered
<1>4. deletion = "PENDING_DELETE" => until # 0 /\ until <= W.clock + UndoWindow
  BY <1>1, <1>3, Holds, UndoWindowAssumption
<1> DEFINE s == Relabel(r, Fresh(p), deletion, until)
<1> HIDE DEF r
<1>5. /\ RowKept(W, p, s) /\ s \in Row
      /\ s.value.version = Fresh(p) /\ s.baseRev = r.baseRev
  BY <1>3, <1>4, RelabelKept
<1>6. RowKept(W, p, s) /\ Advances(r, s)
  BY <1>3, <1>5, Fields DEF Advances
<1> HIDE DEF s
<1>7. QED
  BY <1>1, <1>2, <1>5, <1>6, EditRowEntered DEF r, s

\* Deciding on a staged Latest, which has no base.
LEMMA ImportEntered ==
    ASSUME OneTabPerDevice, IInv, IInv', Built, NEW W, Entered(W), NEW t \in Tabs, NEW p \in Projects,
           NEW keep \in BOOLEAN, ImportLatest(t, p, keep)
    PROVE  Entered(W)' /\ AckNeverRegressesStep
<1> DEFINE d == DeviceOf[t]
           r == rows[d][p]
           fresh == NewRow(p, None, Fresh(p), keep, d)
           value == [fresh.value EXCEPT !.deletion = "DELETED",
                                        !.token = rows[d][p].value.token,
                                        !.saved = rows[d][p].value.saved,
                                        !.latest = IF rows[d][p].value.saved THEN None ELSE d]
           next == IF keep THEN fresh ELSE [fresh EXCEPT !.value = value]
<1>1. /\ Edit(d, p, next, ~keep) /\ r # None /\ r.staged
      /\ UNCHANGED <<cloud, work, ctl, wire, now>>
  BY DEF ImportLatest
<1>2. /\ W \in Registers /\ Fits(W, p)
      /\ d \in Devices /\ r \in Row /\ RowKept(W, p, r)
      /\ ~Offered(W, p, Fresh(p)) /\ Fresh(p) \in Nat \ {0}
  BY <1>1, Holds, FreshUnoffered DEF Entered
<1>3. r.base = 0 /\ r.baseRev = 0
  <2>1. BaseKept(W, p, r.base, r.baseRev, r.sent, r.staged)
    BY <1>1, <1>2 DEF RowKept
  <2>2. r.base = 0
    BY <1>1, <2>1 DEF BaseKept
  <2>3. QED
    BY <2>1, <2>2 DEF BaseKept, Acked
<1>4. /\ next.base = 0 /\ next.baseRev = 0 /\ next.value.version = Fresh(p)
      /\ next.value.revision = 1 /\ next.value.deletion \in {"ACTIVE", "DELETED"}
      /\ next.dirty = TRUE /\ next.conflict = None /\ next.sent = None /\ next.staged = FALSE
  BY DEF NewRow
<1> HIDE DEF next, r
<1>5. RowConsistent(p, next)
  BY <1>4 DEF RowConsistent
<1>6. BaseKept(W, p, next.base, next.baseRev, next.sent, next.staged)
  BY <1>4 DEF BaseKept, Acked
<1>7. RowKept(W, p, next)
  BY <1>2, <1>4, <1>5, <1>6 DEF RowKept, Dated, OfferedKept
<1>8. Advances(r, next)
  BY <1>3, <1>4 DEF Advances
<1>9. QED
  BY <1>1, <1>4, <1>7, <1>8, EditRowEntered DEF r

\* The discarded Latest are edited; every other row stays.
LEMMA DiscardKept ==
    ASSUME IInv, NEW W, Entered(W), NEW t \in Tabs, NEW p \in Projects, NEW group, NEW q \in Projects,
           q \in OwnLatest(rows[DeviceOf[t]], p, DeviceOf[t], now) => group \in Projects \X Nat
    PROVE  LET r == rows[DeviceOf[t]][q]
               s == Discard(rows[DeviceOf[t]], p, DeviceOf[t], group)[q]
           IN RowKept(W, q, s) /\ Edits(q, r, s) /\ Advances(r, s)
<1> DEFINE d == DeviceOf[t]
           r == rows[d][q]
           s == Discard(rows[d], p, d, group)[q]
           latest == OwnLatest(rows[d], p, d, now)
<1>1. d \in Devices
  BY Holds
<1>2. CASE q \in latest
  <2>1. s = Discarded(r, Fresh(q), group)
    BY <1>2 DEF Discard
  <2>2. /\ W \in Registers /\ r # None /\ r \in Row /\ RowKept(W, q, r)
        /\ ~Offered(W, q, Fresh(q)) /\ Fresh(q) \in Nat \ {0}
    BY <1>1, <1>2, Holds, FreshUnoffered DEF Entered, OwnLatest, Active
  <2>21. "DELETED" \in DeletionStates /\ r.value.until \in Nat
    BY <2>2, Fields DEF DeletionStates
  <2>22. group \in Projects \X Nat
    BY <1>2
  <2> HIDE DEF r, s
  <2>3. RowKept(W, q, s) /\ s \in Row /\ s.value.version = Fresh(q) /\ s.baseRev = r.baseRev
    BY <2>1, <2>2, <2>21, <2>22, RelabelKept DEF Discarded
  <2>4. Edits(q, r, s) /\ Advances(r, s)
    BY <2>2, <2>3, Fields DEF Edits, Advances
  <2>5. QED
    BY <2>3, <2>4 DEF r, s
<1>3. CASE q \notin latest
  <2>1. s = r
    BY <1>3 DEF Discard
  <2>2. QED
    BY <1>1, <2>1, SameRow
<1>4. QED
  BY <1>2, <1>3

\* Opening a Project.
LEMMA OpenEntered ==
    ASSUME OneTabPerDevice, IInv, IInv', Built, NEW W, Entered(W), NEW t \in Tabs, NEW p \in Projects,
           Open(t, p)
    PROVE  Entered(W)' /\ AckNeverRegressesStep
<1> DEFINE d == DeviceOf[t]
           latest == OwnLatest(rows[d], p, d, now)
           group == LET q == CHOOSE q \in latest : TRUE IN <<q, Fresh(q)>>
           R == Discard(rows[d], p, d, group)
           l == Capture(p, rows[d][p])
<1>1. /\ rows' = [rows EXCEPT ![d] = R]
      /\ hist' = DiscardHist(rows[d], p, d)
      /\ work' = [work EXCEPT ![t] = l]
      /\ rows[d][p] # None
      /\ UNCHANGED <<cloud, ctl, wire, now, faults>>
  BY DEF Open, Active
<1>0. latest # {} => group \in Projects \X Nat
  <2>1. \A q \in latest : q \in Projects /\ Fresh(q) \in Nat
    BY FreshUnoffered DEF OwnLatest, Entered
  <2>2. QED
    BY <2>1
<1> HIDE DEF group
<1>2. d \in Devices
  BY Holds
<1>3. Grows(hist, hist')
  <2>1. \A q \in latest : hist'[q] = Append(hist[q], Entry(q, SeenRow(q, rows[d][q]), TRUE))
    BY <1>1, DiscardAdds
  <2>2. \A q \in Projects \ latest : hist'[q] = hist[q]
    BY <1>1 DEF DiscardHist
  <2> HIDE DEF latest
  <2>3. QED
    BY <2>1, <2>2, AddsGrows DEF Adds
<1>4. \A q \in Projects : /\ RowKept(W, q, R[q])
                          /\ Edits(q, rows[d][q], R[q])
                          /\ Advances(rows[d][q], R[q])
  BY <1>0, DiscardKept
<1>5. R[p] = rows[d][p]
  BY DEF Discard, OwnLatest
<1> HIDE DEF R
<1>6. /\ \A e \in Devices : e # d => rows'[e] = rows[e]
      /\ rows'[d] = R
      /\ work'[t] = l
      /\ \A u \in Tabs : u # t => work'[u] = work[u]
  BY <1>1, <1>2 DEF IInv, TypeOK
<1>7. LoadKept(W, l) /\ l.id = p /\ l.baseRev = rows[d][p].baseRev
  BY <1>1, <1>2, CaptureKept DEF Entered
<1>8. LoadBehind(t)'
  <2>1. rows[d][p].baseRev \in Nat
    BY <1>1, <1>2, Holds, Fields
  <2> HIDE DEF l
  <2>2. QED
    BY <1>1, <1>5, <1>6, <1>7, <2>1 DEF LoadBehind, Behind
<1>9. \A e \in Devices, q \in Projects : rows'[e][q] \in Row \cup {None}
  BY DEF IInv, TypeOK
<1>10. AckNeverRegressesStep
  BY <1>4, <1>6, <1>9, AdvancesHold
<1>11. Entered(W)'
  BY <1>1, <1>3, <1>4, <1>6, <1>7, <1>8, UserEntered
<1>12. QED
  BY <1>10, <1>11

\* A tab that saves over a clean row with another base had loaded an older one.
LEMMA StaleKept ==
    ASSUME IInv, NEW W, Entered(W), NEW t \in Tabs, NEW p \in Projects, work[t] # None, work[t].id = p,
           RemoteChanged(work[t], rows[DeviceOf[t]][p])
    PROVE  LET old == rows[DeviceOf[t]][p] IN
           /\ RemoteKept(W, p, old.value) /\ old.value # None
           /\ old.value.revision > work[t].baseRev
<1> DEFINE old == rows[DeviceOf[t]][p]
           l == work[t]
<1>1. /\ old # None /\ ~old.dirty /\ l.base # old.base
      /\ old \in Row /\ l \in Loaded /\ DeviceOf[t] \in Devices
  BY Holds DEF RemoteChanged
<1>2. /\ W \in Registers /\ Fits(W, p) /\ RowKept(W, p, old) /\ LoadKept(W, l) /\ Behind(l, old)
  BY <1>1 DEF Entered, LoadBehind
<1>3. old.value.version = old.base /\ old.value.revision = old.baseRev
  BY <1>1, <1>2 DEF RowKept, RowConsistent
<1>4. Acked(W, p, old.base, old.baseRev) /\ Acked(W, p, l.base, l.baseRev)
  BY <1>1, <1>2 DEF RowKept, LoadKept, BaseKept
<1>5. /\ old.base \in Nat /\ old.baseRev \in Nat /\ l.base \in Nat /\ l.baseRev \in Nat
      /\ old.value \in SyncProject
  BY <1>1, Fields
<1>6. l.baseRev <= old.baseRev
  BY <1>1, <1>2 DEF Behind
<1>7. l.baseRev # old.baseRev
  BY <1>1, <1>2, <1>4, <1>5, AckedOnce
<1>8. Dated(W, old.value)
  BY <1>1, <1>2 DEF RowKept
<1>9. old.value # None
  BY <1>5, Fields
<1> HIDE DEF old, l
<1>10. old.value.revision > l.baseRev
  BY <1>3, <1>5, <1>6, <1>7
<1>11. QED
  BY <1>3, <1>4, <1>8, <1>9, <1>10 DEF RemoteKept, old, l

\* Saving.
LEMMA SaveEntered ==
    ASSUME OneTabPerDevice, IInv, IInv', Built, NEW W, Entered(W), NEW t \in Tabs, NEW p \in Projects,
           NEW named \in BOOLEAN, Write(t, p, named)
    PROVE  Entered(W)' /\ AckNeverRegressesStep
<1> DEFINE d == DeviceOf[t]
           rs == rows[d]
           old == rs[p]
           loaded == IF work[t] # None /\ work[t].id = p THEN work[t] ELSE None
           stale == RemoteChanged(loaded, old)
           saved == named \/ (loaded # None /\ loaded.saved)
           prev == IF stale THEN loaded ELSE old
           new == NewRow(p, prev, Fresh(p), saved, d)
           conflict == IF stale THEN old.value ELSE None
           group == IF old # None /\ old.dirty THEN old.group ELSE new.group
           next == [new EXCEPT !.conflict = conflict, !.group = group]
           seen == IF stale THEN Seen(p, loaded.version) ELSE SeenRow(p, old)
           others == IF saved THEN rs ELSE Discard(rs, p, d, next.group)
           R == [others EXCEPT ![p] = next]
           k == IF saved THEN hist ELSE DiscardHist(rs, p, d)
           latest == OwnLatest(rs, p, d, now)
<1>1. /\ rows' = [rows EXCEPT ![d] = R]
      /\ hist' = [k EXCEPT ![p] = Append(@, Entry(p, seen, FALSE))]
      /\ work' = [work EXCEPT ![t] = Capture(p, next)]
      /\ UNCHANGED <<cloud, ctl, wire, now, faults>>
  BY DEF Write
<1>2. /\ d \in Devices /\ W \in Registers /\ Fits(W, p) /\ hist \in HistType
      /\ old \in Row \cup {None} /\ RowKept(W, p, old)
      /\ ~Offered(W, p, Fresh(p)) /\ Fresh(p) \in Nat \ {0}
  BY Holds, FreshUnoffered DEF Entered, IInv, TypeOK, HistType
<1>3. stale => work[t] # None /\ work[t].id = p /\ loaded = work[t] /\ old # None
  BY DEF RemoteChanged
<1>4. /\ prev # None => BaseKept(W, p, prev.base, prev.baseRev, prev.sent, prev.staged)
      /\ prev \in Row \cup Loaded \cup {None}
  <2>1. CASE stale
    <3>1. LoadKept(W, work[t]) /\ work[t] \in Loaded
      BY <1>3, <2>1, Holds DEF Entered
    <3>2. QED
      BY <1>3, <2>1, <3>1, Fields DEF LoadKept
  <2>2. CASE ~stale
    BY <1>2, <2>2, Fields DEF RowKept
  <2>3. QED
    BY <2>1, <2>2
<1>5. conflict # None => /\ RemoteKept(W, p, conflict)
                         /\ conflict.revision > (IF prev = None THEN 0 ELSE prev.baseRev)
  <2>1. CASE stale
    <3>1. RemoteKept(W, p, old.value) /\ old.value.revision > work[t].baseRev
      BY <1>3, <2>1, StaleKept
    <3>2. QED
      BY <1>3, <2>1, <3>1
  <2>2. CASE ~stale
    BY <2>2
  <2>3. QED
    BY <2>1, <2>2
<1>6. stale => conflict # None
  BY <1>3, StaleKept
<1>7. /\ group \in Projects \X Nat /\ next.group = group
      /\ conflict \in SyncProject \cup {None} /\ saved \in BOOLEAN
  <2>1. group \in Projects \X Nat /\ next.group = group
    BY <1>2 DEF NewRow, Row
  <2>2. conflict \in SyncProject \cup {None}
    BY <1>2, <1>3, Fields
  <2>3. saved \in BOOLEAN
    BY Holds DEF Loaded
  <2>4. QED
    BY <2>1, <2>2, <2>3
<1> HIDE DEF conflict, group, prev, loaded, saved
<1>8. /\ RowKept(W, p, next) /\ next \in Row /\ next.value.version = Fresh(p)
      /\ next.baseRev = (IF prev = None THEN 0 ELSE prev.baseRev)
      /\ next.conflict = conflict
  <2>1. /\ next.dirty = TRUE /\ next.conflict = conflict
        /\ next.value.version = Fresh(p) /\ next.value.deletion = "ACTIVE"
        /\ next.value.revision = 1 + (IF prev = None THEN 0 ELSE prev.baseRev)
        /\ next.base = (IF prev = None THEN 0 ELSE prev.base)
        /\ next.baseRev = (IF prev = None THEN 0 ELSE prev.baseRev)
        /\ next.sent = (IF prev = None THEN None ELSE prev.sent)
        /\ next.staged = (IF prev = None THEN FALSE ELSE prev.staged)
    BY DEF NewRow
  <2>2. next \in Row
    <3>1. 1 + (IF prev = None THEN 0 ELSE prev.baseRev) \in Nat \ {0}
      BY <1>4, Fields
    <3>3. prev # None => /\ prev.sent \in SyncMutation \cup {None} /\ prev.staged \in BOOLEAN
                         /\ prev.base \in Nat /\ prev.baseRev \in Nat
      BY <1>4 DEF Row, Loaded
    <3>4. new \in Row
      <4>1. new.value \in SyncProject
        BY <1>2, <1>7, <3>1 DEF NewRow, SyncProject, DeletionStates
      <4>2. QED
        BY <1>2, <3>3, <4>1 DEF NewRow, Row
    <3> HIDE DEF new
    <3>5. QED
      BY <1>7, <3>4 DEF Row
  <2> HIDE DEF next
  <2>3. RowKept(W, p, next)
    BY <1>2, <1>4, <1>5, <1>7, <2>1, LocalRowKept
  <2>4. QED
    BY <2>1, <2>2, <2>3
<1> HIDE DEF new, next
<1>9. /\ \A e \in Devices : e # d => rows'[e] = rows[e]
      /\ rows'[d] = R
      /\ work'[t] = Capture(p, next)
      /\ \A u \in Tabs : u # t => work'[u] = work[u]
  <2> HIDE DEF R
  <2>1. QED
    BY <1>1, <1>2 DEF IInv, TypeOK
<1>10. R[p] = next /\ \A q \in Projects : q # p => R[q] = others[q]
  <2>1. rs = [q \in Projects |-> rs[q]]
    BY TabKnown
  <2>2. others = [q \in Projects |-> others[q]]
    BY <2>1 DEF Discard
  <2> HIDE DEF others
  <2>3. QED
    BY <2>2
<1> HIDE DEF R
<1>12. ASSUME NEW q \in Projects, q # p
       PROVE  RowKept(W, q, R[q]) /\ Edits(q, rs[q], R[q]) /\ Advances(rs[q], R[q])
  <2>1. CASE saved
    BY <1>2, <1>10, <1>12, <2>1, SameRow
  <2>2. CASE ~saved
    <3>1. R[q] = Discard(rs, p, d, next.group)[q]
      BY <1>10, <1>12, <2>2
    <3>2. QED
      BY <1>7, <3>1, DiscardKept
  <2>3. QED
    BY <2>1, <2>2
<1>13. Grows(hist, hist')
  <2>1. p \notin latest /\ latest \subseteq Projects
    BY DEF OwnLatest
  <2>2. /\ k = [q \in Projects |-> k[q]] /\ k[p] = hist[p]
        /\ \A q \in Projects :
               k[q] = hist[q] \/ \E more : k[q] = Append(hist[q], Entry(q, more, TRUE))
    <3>1. CASE saved
      BY <1>2, <3>1 DEF HistType
    <3>2. CASE ~saved
      <4>1. k = [q \in Projects |-> IF q \in latest
                                    THEN Append(hist[q], Entry(q, SeenRow(q, rs[q]), TRUE)) ELSE hist[q]]
        BY <3>2 DEF DiscardHist
      <4> HIDE DEF latest, k
      <4>2. QED
        BY <2>1, <4>1
    <3>3. QED
      BY <3>1, <3>2
  <2> HIDE DEF k, seen
  <2>3. hist'[p] = Append(hist[p], Entry(p, seen, FALSE)) /\ \A q \in Projects : q # p => hist'[q] = k[q]
    BY <1>1, <2>2
  <2>4. ASSUME NEW q \in Projects PROVE hist'[q] = hist[q] \/ \E more : Adds(q, more)
    <3>1. CASE q = p
      BY <2>3, <3>1 DEF Adds
    <3>2. CASE q # p
      BY <2>2, <2>3, <3>2 DEF Adds
    <3>3. QED
      BY <3>1, <3>2
  <2>5. QED
    BY <2>4, AddsGrows
<1>14. ASSUME NEW q \in Projects PROVE RowKept(W, q, rows'[d][q]) /\ Edits(q, rows[d][q], rows'[d][q])
  <2>1. CASE q = p
    BY <1>8, <1>9, <1>10, <2>1 DEF Edits
  <2>2. CASE q # p
    BY <1>9, <1>12, <2>2
  <2>3. QED
    BY <2>1, <2>2
<1>15. LoadKept(W, work'[t]) /\ LoadBehind(t)'
  <2>1. LoadKept(W, Capture(p, next)) /\ Capture(p, next).id = p /\ Capture(p, next).baseRev = next.baseRev
    BY <1>8, Fields, CaptureKept
  <2>2. next # None /\ next.baseRev \in Nat
    BY <1>8, Fields
  <2>3. QED
    BY <1>9, <1>10, <2>1, <2>2 DEF LoadBehind, Behind
<1>16. Entered(W)'
  BY <1>1, <1>9, <1>13, <1>14, <1>15, UserEntered
<1>17. AckNeverRegressesStep
  <2> SUFFICES ASSUME NEW e \in Devices, NEW q \in Projects, rows[e][q] # None, rows'[e][q] # None,
                      rows'[e][q].baseRev < rows[e][q].baseRev
               PROVE  rows'[e][q].conflict # None
    BY DEF AckNeverRegressesStep
  <2>1. rows[e][q].baseRev \in Nat /\ rows'[e][q].baseRev \in Nat
    <3>1. rows[e][q] \in Row /\ rows'[e][q] \in Row
      BY DEF IInv, TypeOK
    <3>2. QED
      BY <3>1, Fields
  <2>2. e = d
    BY <1>9, <2>1
  <2>3. q = p
    BY <1>9, <1>12, <2>1, <2>2 DEF Advances
  <2>4. stale
    BY <1>8, <1>9, <1>10, <2>1, <2>2, <2>3 DEF prev
  <2>5. QED
    BY <1>6, <1>8, <1>9, <1>10, <2>2, <2>3, <2>4
<1>18. QED
  BY <1>16, <1>17

-----------------------------------------------------------------------------
(* Resolving a conflict. *)

\* The rebased original of a resolved conflict.
LEMMA RebasedKept ==
    ASSUME NEW W \in Registers, NEW p \in Projects, Fits(W, p), NEW r \in Row, RowKept(W, p, r),
           r.conflict # None, ~Offered(W, p, Fresh(p)), Fresh(p) \in Nat \ {0},
           NEW content \in SyncProject, Dated(W, content), NEW copy \in Projects \cup {None}
    PROVE  LET s == Rebased(p, r, content, copy) IN
           RowKept(W, p, s) /\ Edits(p, r, s) /\ Advances(r, s)
<1> DEFINE s == Rebased(p, r, content, copy)
           remote == r.conflict
<1>1. /\ s.base = remote.version /\ s.baseRev = remote.revision
      /\ s.dirty = TRUE /\ s.conflict = None /\ s.sent = None /\ s.staged = FALSE
      /\ s.value = [content EXCEPT !.version = Fresh(p), !.token = Fresh(p),
                                   !.revision = remote.revision + 1]
  BY DEF Rebased
<1>2. /\ s.value.version = Fresh(p) /\ s.value.revision = remote.revision + 1
      /\ s.value.deletion = content.deletion /\ s.value.until = content.until
  BY <1>1 DEF SyncProject
<1>3. /\ r # None /\ remote.version \in Nat /\ remote.revision \in Nat /\ r.baseRev \in Nat
  BY Fields
<1>31. s # None
  <2>1. remote.revision + 1 \in Nat \ {0}
    BY <1>3
  <2>2. s.value \in SyncProject
    BY <1>1, <2>1 DEF SyncProject
  <2>3. s \in Row
    BY <1>3, <2>2 DEF Rebased, Row
  <2> HIDE DEF s
  <2>4. QED
    BY <2>3, Fields
<1> HIDE DEF s
<1>4. RemoteKept(W, p, remote) /\ remote.revision > r.baseRev
  BY <1>3 DEF RowKept, RowConsistent
<1>5. RowConsistent(p, s)
  BY <1>1, <1>2, <1>3 DEF RowConsistent
<1>6. BaseKept(W, p, s.base, s.baseRev, s.sent, s.staged)
  BY <1>1, <1>4 DEF BaseKept, RemoteKept
<1>7. Dated(W, s.value) /\ OfferedKept(W, p, s)
  BY <1>2 DEF Dated, OfferedKept
<1>8. RowKept(W, p, s)
  BY <1>1, <1>5, <1>6, <1>7 DEF RowKept
<1> HIDE DEF remote
<1>9. Edits(p, r, s) /\ Advances(r, s)
  BY <1>1, <1>2, <1>3, <1>31, <1>4 DEF Edits, Advances
<1>10. QED
  BY <1>8, <1>9 DEF s

\* The other rows of the conflicting group are unpinned and regrouped.
LEMMA RegroupedKept ==
    ASSUME IInv, NEW W, Entered(W), NEW t \in Tabs, NEW p \in Projects, NEW copy,
           NEW group \in Projects \X Nat, NEW q \in Projects
    PROVE  LET r == rows[DeviceOf[t]][q]
               s == Regrouped(rows[DeviceOf[t]], p, copy, group)[q]
           IN RowKept(W, q, s) /\ Edits(q, r, s) /\ Advances(r, s)
<1> DEFINE rs == rows[DeviceOf[t]]
           r == rs[q]
           s == Regrouped(rs, p, copy, group)[q]
<1>1. CASE s = r
  BY <1>1, Holds, SameRow
<1>2. CASE r # None /\ r.dirty /\ s = [r EXCEPT !.group = group, !.sent = None]
  <2> HIDE DEF s
  <2>1. r \in Row /\ RowKept(W, q, r) /\ r.baseRev \in Nat
    BY <1>2, Holds, Fields DEF Entered
  <2> HIDE DEF r
  <2>2. /\ s.base = r.base /\ s.baseRev = r.baseRev /\ s.value = r.value /\ s.dirty = r.dirty
        /\ s.conflict = r.conflict /\ s.sent = None /\ s.staged = r.staged
        /\ s \in Row
    <3> DEFINE u == [r EXCEPT !.group = group, !.sent = None]
    <3>1. /\ u.base = r.base /\ u.baseRev = r.baseRev /\ u.value = r.value /\ u.dirty = r.dirty
          /\ u.conflict = r.conflict /\ u.sent = None /\ u.staged = r.staged
      BY <2>1 DEF Row
    <3>2. u \in Row
      BY <2>1 DEF Row
    <3>3. s = u
      BY <1>2
    <3> HIDE DEF u
    <3>4. QED
      BY <3>1, <3>2, <3>3
  <2>21. s # None
    BY <2>2, Fields
  <2>3. RowConsistent(q, s)
    BY <1>2, <2>1, <2>2 DEF RowKept, RowConsistent
  <2>4. BaseKept(W, q, s.base, s.baseRev, s.sent, s.staged)
    BY <1>2, <2>1, <2>2 DEF RowKept, BaseKept
  <2>5. OfferedKept(W, q, s)
    BY <1>2, <2>1, <2>2 DEF RowKept, OfferedKept
  <2>6. RowKept(W, q, s)
    BY <1>2, <2>1, <2>2, <2>3, <2>4, <2>5 DEF RowKept
  <2>7. Edits(q, r, s) /\ Advances(r, s)
    BY <1>2, <2>1, <2>2, <2>21 DEF Edits, Advances
  <2>8. QED
    BY <2>6, <2>7 DEF s, r
<1>3. QED
  BY <1>1, <1>2 DEF Regrouped

\* A row that a copy replaces, or that gives way to one, has no base.
LEMMA CopyBase ==
    ASSUME IInv, NEW W, Entered(W), NEW t \in Tabs, NEW p \in Projects, NEW c \in Projects,
           \/ StagedCopy(rows[DeviceOf[t]], p) = None /\ hist[c] = <<>>
           \/ c = StagedCopy(rows[DeviceOf[t]], p)
    PROVE  rows[DeviceOf[t]][c] # None => rows[DeviceOf[t]][c].baseRev = 0
<1> DEFINE d == DeviceOf[t]
           r == rows[d][c]
<1>1. r \in RowAt(hist, c) \cup {None} /\ d \in Devices /\ hist \in HistType
  BY TabKnown DEF IInv, TypeOK, HistType
<1>2. CASE hist[c] = <<>>
  BY <1>1, <1>2 DEF RowAt, ValueAt
<1>3. CASE c = StagedCopy(rows[d], p)
  <2>1. r # None /\ r.base = 0
    BY <1>3, NoneAssumption DEF StagedCopy
  <2>2. Acked(W, c, r.base, r.baseRev)
    BY <1>1, <2>1 DEF Entered, RowKept, BaseKept
  <2>3. QED
    BY <2>1, <2>2 DEF Acked
<1>4. QED
  BY <1>2, <1>3

\* Resolving with one of the two branches.
LEMMA ResolveOneEntered ==
    ASSUME OneTabPerDevice, IInv, IInv', Built, NEW W, Entered(W), NEW t \in Tabs, NEW p \in Projects,
           NEW content \in SyncProject, Dated(W, content),
           rows[DeviceOf[t]][p] # None, rows[DeviceOf[t]][p].conflict # None,
           ResolveOne(DeviceOf[t], p, content), UNCHANGED <<cloud, work, ctl, wire, now>>
    PROVE  Entered(W)' /\ AckNeverRegressesStep
<1> DEFINE d == DeviceOf[t]
           rs == rows[d]
           c == StagedCopy(rs, p)
           group == <<p, Fresh(p)>>
           rest == Regrouped(rs, p, c, group)
           seen == LocalSeen(rs, p) \cup Seen(p, rs[p].conflict.version)
           s == Rebased(p, rs[p], content, None)
           R == [q \in Projects |-> IF q = p THEN s ELSE IF q = c THEN None ELSE rest[q]]
<1>1. /\ rows' = [rows EXCEPT ![d] = R]
      /\ hist' = [hist EXCEPT ![p] = Append(@, Entry(p, seen, FALSE))]
  BY DEF ResolveOne
<1>2. d \in Devices /\ hist \in HistType
  BY TabKnown DEF IInv, TypeOK, HistType
<1> HIDE DEF seen
<1>3. Grows(hist, hist')
  <2>1. \A q \in Projects : hist'[q] = hist[q] \/ \E more : Adds(q, more)
    BY <1>1, <1>2 DEF Adds, HistType
  <2>2. QED
    BY <2>1, AddsGrows
<1>4. RowKept(W, p, s) /\ Edits(p, rs[p], s) /\ Advances(rs[p], s)
  <2>1. /\ W \in Registers /\ Fits(W, p) /\ rs[p] \in Row /\ RowKept(W, p, rs[p])
        /\ ~Offered(W, p, Fresh(p)) /\ Fresh(p) \in Nat \ {0}
    BY <1>2, Holds, FreshUnoffered DEF Entered
  <2>2. QED
    BY <2>1, RebasedKept
<1>5. \A q \in Projects : RowKept(W, q, rest[q]) /\ Edits(q, rs[q], rest[q]) /\ Advances(rs[q], rest[q])
  <2>1. group \in Projects \X Nat
    BY FreshUnoffered DEF Entered
  <2> HIDE DEF group
  <2>2. QED
    BY <2>1, RegroupedKept
<1>6. ASSUME NEW q \in Projects, q = c
      PROVE  RowKept(W, q, None) /\ Edits(q, rs[q], None) /\ Advances(rs[q], None)
  <2>1. rs[q] # None => rs[q].baseRev = 0
    BY <1>6, CopyBase
  <2>2. QED
    BY <2>1 DEF RowKept, Edits, Advances
<1>7. (\A e \in Devices : e # d => rows'[e] = rows[e]) /\ rows'[d] = R
  BY <1>1, <1>2 DEF IInv, TypeOK
<1> HIDE DEF s, rest, c
<1>8. ASSUME NEW q \in Projects
      PROVE  RowKept(W, q, R[q]) /\ Edits(q, rs[q], R[q]) /\ Advances(rs[q], R[q])
  <2>1. CASE q = p
    BY <1>4, <2>1
  <2>2. CASE q # p /\ q = c
    BY <1>6, <2>2
  <2>3. CASE q # p /\ q # c
    BY <1>5, <2>3
  <2>4. QED
    BY <2>1, <2>2, <2>3
<1> HIDE DEF R
<1>9. QED
  BY <1>3, <1>7, <1>8, EditEntered

\* Resolving with both branches.
LEMMA ResolveBothEntered ==
    ASSUME OneTabPerDevice, IInv, IInv', Built, NEW W, Entered(W), NEW t \in Tabs, NEW p \in Projects,
           NEW c \in Projects, rows[DeviceOf[t]][p] # None, rows[DeviceOf[t]][p].conflict # None,
           ResolveBoth(DeviceOf[t], p, c), UNCHANGED <<cloud, work, ctl, wire, now>>
    PROVE  Entered(W)' /\ AckNeverRegressesStep
<1> DEFINE d == DeviceOf[t]
           rs == rows[d]
           staged == StagedCopy(rs, p)
           group == <<p, Fresh(p)>>
           rest == Regrouped(rs, p, staged, group)
           s == Rebased(p, rs[p], rs[p].conflict, c)
           copy == [NewRow(c, None, Fresh(c), TRUE, d) EXCEPT !.group = group]
           R == [q \in Projects |-> IF q = p THEN s ELSE IF q = c THEN copy ELSE rest[q]]
           remote == Seen(p, rs[p].conflict.version)
           local == LocalSeen(rs, p)
           ep == Entry(p, remote, FALSE)
           ec == Entry(c, local, FALSE)
<1>1. /\ rows' = [rows EXCEPT ![d] = R]
      /\ hist' = [hist EXCEPT ![p] = Append(@, ep), ![c] = Append(@, ec)]
      /\ IF staged = None THEN hist[c] = <<>> /\ c # p ELSE c = staged
  BY DEF ResolveBoth
<1>2. d \in Devices /\ hist \in HistType
  BY TabKnown DEF IInv, TypeOK, HistType
<1>3. c # p
  BY <1>1, LocalSeenType
<1>4. Grows(hist, hist')
  <2> HIDE DEF ep, ec
  <2>1. /\ hist'[p] = Append(hist[p], ep)
        /\ hist'[c] = Append(hist[c], ec)
        /\ \A q \in Projects : q # p /\ q # c => hist'[q] = hist[q]
    BY <1>1, <1>2, <1>3 DEF HistType
  <2> HIDE DEF local, remote
  <2>2. \A q \in Projects : hist'[q] = hist[q] \/ \E more : Adds(q, more)
    BY <2>1 DEF Adds, ep, ec
  <2>3. QED
    BY <2>2, AddsGrows
<1>5. RowKept(W, p, s) /\ Edits(p, rs[p], s) /\ Advances(rs[p], s)
  <2>1. /\ W \in Registers /\ Fits(W, p) /\ rs[p] \in Row /\ RowKept(W, p, rs[p])
        /\ ~Offered(W, p, Fresh(p)) /\ Fresh(p) \in Nat \ {0}
    BY <1>2, Holds, FreshUnoffered DEF Entered
  <2>2. rs[p].conflict \in SyncProject /\ Dated(W, rs[p].conflict)
    BY <2>1, Fields DEF RowKept, RemoteKept
  <2>3. QED
    BY <2>1, <2>2, RebasedKept
<1>6. \A q \in Projects : RowKept(W, q, rest[q]) /\ Edits(q, rs[q], rest[q]) /\ Advances(rs[q], rest[q])
  <2>1. group \in Projects \X Nat
    BY FreshUnoffered DEF Entered
  <2> HIDE DEF group
  <2>2. QED
    BY <2>1, RegroupedKept
<1>7. RowKept(W, c, copy) /\ Edits(c, rs[c], copy) /\ Advances(rs[c], copy)
  <2>1. /\ copy.dirty = TRUE /\ copy.conflict = None
        /\ copy.value.version = Fresh(c) /\ copy.value.deletion = "ACTIVE"
        /\ copy.value.revision = 1 /\ copy.base = 0 /\ copy.baseRev = 0
        /\ copy.sent = None /\ copy.staged = FALSE
    BY DEF NewRow
  <2>2. /\ W \in Registers /\ Fits(W, c) /\ ~Offered(W, c, Fresh(c)) /\ Fresh(c) \in Nat \ {0}
    BY FreshUnoffered DEF Entered
  <2>3. rs[c] # None => rs[c].baseRev = 0
    BY <1>1, CopyBase
  <2> HIDE DEF copy
  <2>4. RowKept(W, c, copy)
    <3>1. RowConsistent(c, copy)
      BY <2>1 DEF RowConsistent
    <3>2. BaseKept(W, c, copy.base, copy.baseRev, copy.sent, copy.staged)
      BY <2>1 DEF BaseKept, Acked
    <3>3. QED
      BY <2>1, <2>2, <3>1, <3>2 DEF RowKept, Dated, OfferedKept
  <2>5. QED
    BY <2>1, <2>3, <2>4 DEF Edits, Advances
<1>8. (\A e \in Devices : e # d => rows'[e] = rows[e]) /\ rows'[d] = R
  BY <1>1, <1>2 DEF IInv, TypeOK
<1> HIDE DEF s, rest, copy
<1>9. ASSUME NEW q \in Projects
      PROVE  RowKept(W, q, R[q]) /\ Edits(q, rs[q], R[q]) /\ Advances(rs[q], R[q])
  <2>1. CASE q = p
    BY <1>5, <2>1
  <2>2. CASE q # p /\ q = c
    BY <1>7, <2>2
  <2>3. CASE q # p /\ q # c
    BY <1>6, <2>3
  <2>4. QED
    BY <2>1, <2>2, <2>3
<1> HIDE DEF R
<1>10. QED
  BY <1>4, <1>8, <1>9, EditEntered

\* Resolving a conflict, and closing the open Project.
LEMMA ResolveEntered ==
    ASSUME OneTabPerDevice, IInv, IInv', Built, NEW W, Entered(W), NEW t \in Tabs, NEW p \in Projects,
           Resolve(t, p)
    PROVE  Entered(W)' /\ AckNeverRegressesStep
<1> DEFINE d == DeviceOf[t]
           r == rows[d][p]
           kept == [r.value EXCEPT !.saved = IF StagedCopy(rows[d], p) # None THEN TRUE ELSE @]
<1>1. /\ r # None /\ r.conflict # None
      /\ UNCHANGED <<cloud, work, ctl, wire, now>>
      /\ \/ ResolveLocal(d, p)
         \/ ResolveRemote(d, p)
         \/ \E c \in Projects : ResolveBoth(d, p, c)
  BY DEF Resolve
<1>2. /\ r \in Row /\ RowKept(W, p, r)
      /\ r.value \in SyncProject /\ Dated(W, r.value)
      /\ r.conflict \in SyncProject /\ Dated(W, r.conflict)
  BY <1>1, Holds, Fields DEF Entered, RowKept, RemoteKept
<1>3. CASE ResolveLocal(d, p)
  <2>1. ResolveOne(d, p, kept)
    BY <1>3 DEF ResolveLocal
  <2>2. kept \in SyncProject /\ kept.deletion = r.value.deletion /\ kept.until = r.value.until
    BY <1>2 DEF SyncProject
  <2> HIDE DEF kept
  <2>3. Dated(W, kept)
    BY <1>2, <2>2 DEF Dated
  <2>4. QED
    BY <1>1, <2>1, <2>2, <2>3, ResolveOneEntered
<1>4. CASE ResolveRemote(d, p)
  <2>1. ResolveOne(d, p, r.conflict)
    BY <1>4 DEF ResolveRemote
  <2>2. QED
    BY <1>1, <1>2, <2>1, ResolveOneEntered
<1>5. CASE \E c \in Projects : ResolveBoth(d, p, c)
  BY <1>1, <1>5, ResolveBothEntered
<1>6. QED
  BY <1>1, <1>3, <1>4, <1>5

\* A user's step leaves the register as it is.
LEMMA UserStepEntered ==
    ASSUME OneTabPerDevice, IInv, IInv', Built, NEW W, Entered(W), NEW t \in Tabs, UserStep(t)
    PROVE  Entered(W)' /\ AckNeverRegressesStep
<1>1. CASE Close(t)
  <2>1. /\ UNCHANGED <<cloud, rows, ctl, wire, now, hist>>
        /\ \A u \in Tabs : u # t => work'[u] = work[u]
        /\ work'[t] = None
    BY <1>1 DEF Close, IInv, TypeOK
  <2>2. Grows(hist, hist')
    BY <2>1, AddsGrows
  <2>3. \A p \in Projects : /\ RowKept(W, p, rows'[DeviceOf[t]][p])
                            /\ Edits(p, rows[DeviceOf[t]][p], rows'[DeviceOf[t]][p])
                            /\ Advances(rows[DeviceOf[t]][p], rows'[DeviceOf[t]][p])
    BY <2>1, Holds, SameRow
  <2>4. QED
    BY <2>1, <2>2, <2>3, EditEntered
<1>2. QED
  BY <1>1, SaveEntered, OpenEntered, DeleteEntered, ImportEntered, ResolveEntered DEF UserStep

-----------------------------------------------------------------------------
(* The start of a run numbers the versions it is going to send. *)

\* What the versions of one device's rows became stays private to it.
LEMMA PrivateStays ==
    ASSUME IInv, NEW W, Entered(W), NEW d \in Devices, NEW e \in Devices, d # e, NEW p \in Projects,
           NEW s, Sourced(W, p, rows[d][p], s)
    PROVE  Private(W, p, s, rows[e][p])
<1> DEFINE r == rows[d][p]
           x == rows[e][p]
<1> SUFFICES ASSUME s # None, x # None, s.value.version = x.value.version
             PROVE  Offered(W, p, s.value.version)
  BY DEF Private
<1>1. Private(W, p, r, x)
  BY DEF Entered
<1>2. s.value.version # Fresh(p)
  <2>1. x \in RowAt(hist, p)
    BY DEF IInv, Known, KnownRows
  <2>2. Len(hist[p]) \in Nat /\ x.value.version \in 1..Len(hist[p])
    <3>1. hist \in HistType
      BY DEF IInv, TypeOK, HistType
    <3>2. QED
      BY <2>1, <3>1, HistLength DEF RowAt, ValueAt
  <2>3. QED
    BY <2>2 DEF Fresh
<1>3. QED
  BY <1>1, <1>2 DEF Sourced, Private

\* The new register numbers versions of the rows of one device only.
LEMMA SealEntered ==
    ASSUME OneTabPerDevice, IInv, IInv', NEW W, Entered(W), NEW t \in Tabs, NEW X \in Registers,
           X.clock = W.clock, X.com = W.com, Onward(W, X),
           UNCHANGED <<cloud, work, wire, now>>, Grows(hist, hist'),
           \A e \in Devices : e # DeviceOf[t] => rows'[e] = rows[e],
           \A u \in Tabs : u # t => ctl'[u] = ctl[u],
           \A p \in Projects : /\ RowKept(X, p, rows'[DeviceOf[t]][p])
                               /\ Sourced(W, p, rows[DeviceOf[t]][p], rows'[DeviceOf[t]][p])
                               /\ Advances(rows[DeviceOf[t]][p], rows'[DeviceOf[t]][p]),
           \A p \in Projects : \A v \in Nat :
               Offered(X, p, v) => \/ Offered(W, p, v)
                                   \/ /\ rows'[DeviceOf[t]][p] # None
                                      /\ rows'[DeviceOf[t]][p].value.version = v,
           ControlKept(X, ctl'[t]), ~Flying(ctl'[t])
    PROVE  Entered(X)' /\ AckNeverRegressesStep
<1> DEFINE d == DeviceOf[t]
<1>1. d \in Devices /\ W \in Registers /\ X.clock = now'
  BY Holds DEF Entered
<1>2. \A u \in Tabs : u # t => DeviceOf[u] # d /\ DeviceOf[u] \in Devices
  BY Holds DEF OneTabPerDevice
<1>3. \A e \in Devices, p \in Projects : /\ rows'[e][p] \in RowAt(hist', p) \cup {None}
                                         /\ rows'[e][p] \in Row \cup {None}
  BY DEF IInv, Known, KnownRows, TypeOK
<1>4. ASSUME NEW p \in Projects PROVE Fits(X, p)'
  <2>1. Fits(W, p) /\ cloud'[p] = cloud[p]
    BY DEF Entered
  <2>2. Len(hist[p]) \in Nat /\ Len(hist'[p]) \in Nat /\ Len(hist[p]) <= Len(hist'[p])
    <3>1. hist \in HistType /\ hist' \in HistType
      BY DEF IInv, TypeOK, HistType
    <3>2. QED
      BY <3>1, HistLength DEF Grows
  <2>3. \A v \in 1..Len(hist[p]) : v \in 1..Len(hist'[p])
    BY <2>2
  <2>4. \A v \in Nat : Offered(X, p, v) => v \in 1..Len(hist'[p])
    BY <1>1, <1>3, <2>1, <2>3 DEF Fits, RowAt, ValueAt
  <2>5. \A n \in Nat : X.com[p][n] # 0 <=> n \in 1..Top(p)
    BY <2>1 DEF Fits
  <2>6. ASSUME NEW n \in Nat, X.com[p][n] # 0 PROVE X.num[p][X.com[p][n]] = n
    <3>1. W.com[p][n] = X.com[p][n] /\ W.num[p][W.com[p][n]] = n /\ n \in 1..Top(p)
      BY <2>1, <2>6 DEF Fits
    <3>2. n # 0 /\ W.com[p][n] \in Nat
      BY <1>1, <3>1 DEF Registers
    <3>3. QED
      BY <3>1, <3>2 DEF Onward
  <2>7. cloud[p] # None => RemoteKept(X, p, cloud[p])
    BY <1>1, <2>1, Holds, OnwardKeeps DEF Fits
  <2>8. QED
    BY <2>1, <2>4, <2>5, <2>6, <2>7 DEF Fits, Top
<1>5. ASSUME NEW e \in Devices, e # d, NEW p \in Projects
      PROVE  /\ rows'[e][p] = rows[e][p]
             /\ Private(W, p, rows'[d][p], rows'[e][p])
             /\ rows[e][p] # None /\ Offered(X, p, rows[e][p].value.version)
                    => Offered(W, p, rows[e][p].value.version)
  <2>1. rows'[e][p] = rows[e][p]
    BY <1>5
  <2>2. Private(W, p, rows'[d][p], rows[e][p])
    BY <1>1, <1>5, PrivateStays
  <2>3. rows[e][p] # None => rows[e][p].value.version \in Nat
    BY Holds, Fields
  <2>4. QED
    BY <2>1, <2>2, <2>3 DEF Private
<1>6. ASSUME NEW e \in Devices, NEW p \in Projects PROVE RowKept(X, p, rows'[e][p])
  <2>1. CASE e = d
    BY <2>1
  <2>2. CASE e # d
    <3>1. RowKept(W, p, rows[e][p]) /\ rows[e][p] \in Row \cup {None}
      BY Holds DEF Entered
    <3>2. QED
      BY <1>1, <1>5, <2>2, <3>1, OnwardRow
  <2>3. QED
    BY <2>1, <2>2
<1>7. \A p \in Projects : \A v \in Nat : Offered(W, p, v) => Offered(X, p, v)
  BY DEF Onward, Offered
<1>8. ASSUME NEW e \in Devices, NEW f \in Devices, e # f, NEW p \in Projects
      PROVE  Private(X, p, rows'[e][p], rows'[f][p])
  <2>1. Private(W, p, rows'[e][p], rows'[f][p])
    <3>1. CASE e = d
      BY <1>5, <1>8, <3>1
    <3>2. CASE f = d
      BY <1>5, <1>8, <3>2 DEF Private
    <3>3. CASE e # d /\ f # d
      BY <1>5, <1>8, <3>3 DEF Entered
    <3>4. QED
      BY <3>1, <3>2, <3>3
  <2>2. rows'[e][p] # None => rows'[e][p].value.version \in Nat
    BY <1>3, Fields
  <2>3. QED
    BY <1>7, <2>1, <2>2 DEF Private
<1>9. AckNeverRegressesStep /\ LoadBehind(t)'
  <2>1. LoadBehind(t)
    BY DEF Entered
  <2>2. QED
    BY <1>3, <2>1, AdvancesHold
<1>10. ASSUME NEW u \in Tabs PROVE LoadKept(X, work'[u]) /\ LoadBehind(u)'
  <2>1. LoadKept(X, work'[u])
    BY <1>1, Holds, OnwardLoad DEF Entered
  <2>2. CASE u = t
    BY <1>9, <2>1, <2>2
  <2>3. CASE u # t
    <3>1. rows'[DeviceOf[u]] = rows[DeviceOf[u]] /\ LoadBehind(u)
      BY <1>2, <2>3 DEF Entered
    <3>2. QED
      BY <2>1, <3>1 DEF LoadBehind
  <2>4. QED
    BY <2>2, <2>3
<1>11. ASSUME NEW u \in Tabs PROVE ControlKept(X, ctl'[u]) /\ AllSettled(X, u)'
  <2>1. CASE u = t
    BY <2>1 DEF AllSettled
  <2>2. CASE u # t
    <3>1. ctl'[u] = ctl[u] /\ ctl[u] \in Control /\ ControlKept(W, ctl[u]) /\ AllSettled(W, u)
      BY <2>2, Holds DEF Entered
    <3>2. ControlKept(X, ctl[u])
      BY <1>1, <3>1, OnwardControl
    <3>3. AllSettled(X, u)'
      <4>1. SUFFICES ASSUME Flying(ctl[u]), NEW m \in ctl[u].batch
                     PROVE  Settled(X, rows'[DeviceOf[u]][m.id], m)
        BY <3>1 DEF AllSettled
      <4>2. Settled(W, rows[DeviceOf[u]][m.id], m) /\ m.id \in Projects
        BY <3>1, <4>1, Holds, Fields DEF AllSettled
      <4>3. QED
        BY <1>2, <1>5, <2>2, <4>2 DEF Settled
    <3>4. QED
      BY <3>1, <3>2, <3>3
  <2>3. QED
    BY <2>1, <2>2
<1>12. \A request \in wire' : \A w \in request : WriteKept(X, w)
  <2>1. ASSUME NEW request \in wire, NEW w \in request PROVE WriteKept(X, w)
    BY <1>1, <2>1, Holds, OnwardWrite DEF Entered
  <2>2. QED
    BY <2>1
<1>13. QED
  BY <1>1, <1>4, <1>6, <1>8, <1>9, <1>10, <1>11, <1>12 DEF Entered

\* The rows from which a run is going to send an operation of its own.
Ready(rs) == {p \in Projects : /\ rs[p] # None
                               /\ rs[p].dirty
                               /\ rs[p].sent = None
                               /\ ~Blocked(rs, rs[p].group)}

\* The register that numbers the versions of those rows.
Sealed(W, rs) ==
    [W EXCEPT !.num = [p \in Projects |-> [v \in Nat |->
        IF W.num[p][v] # 0 THEN W.num[p][v]
        ELSE IF p \in Ready(rs) /\ rs[p].value.version = v THEN rs[p].value.revision ELSE 0]]]

\* It adds to the register what the outbox needs.
LEMMA SealedKeeps ==
    ASSUME NEW W \in Registers, NEW rs, \A p \in Projects : rs[p] \in Row \cup {None},
           \A p \in Projects : RowKept(W, p, rs[p])
    PROVE  LET X == Sealed(W, rs) IN
           /\ X \in Registers /\ X.clock = W.clock /\ X.com = W.com /\ Onward(W, X)
           /\ \A p \in Projects : \A v \in Nat :
                  Offered(X, p, v) => \/ Offered(W, p, v)
                                      \/ rs[p] # None /\ rs[p].value.version = v
           /\ \A p \in Projects : RowKept(X, p, rs[p])
           /\ \A batch \in Pending(rs) : BatchKept(X, batch)
<1> DEFINE X == Sealed(W, rs)
           num == [p \in Projects |-> [v \in Nat |->
                      IF W.num[p][v] # 0 THEN W.num[p][v]
                      ELSE IF p \in Ready(rs) /\ rs[p].value.version = v
                           THEN rs[p].value.revision ELSE 0]]
<1>1. X.clock = W.clock /\ X.com = W.com /\ X.num = num
  BY DEF Sealed, Registers
<1>2. \A p \in Projects : rs[p] # None => /\ rs[p].value.version \in Nat
                                          /\ rs[p].value.revision \in Nat \ {0}
                                          /\ rs[p].base \in Nat /\ rs[p].baseRev \in Nat
                                          /\ rs[p].value \in SyncProject
  BY Fields
<1>3. ASSUME NEW p \in Projects, p \in Ready(rs) PROVE rs[p] # None
  BY <1>3 DEF Ready
<1>4. X \in Registers
  <2>1. num \in [Projects -> [Nat -> Nat]]
    BY <1>2, <1>3 DEF Registers
  <2> HIDE DEF num
  <2>2. X = [W EXCEPT !.num = num]
    BY DEF Sealed, num
  <2>3. QED
    BY <2>1, <2>2 DEF Registers
<1>5. /\ \A p \in Projects : \A v \in Nat : W.num[p][v] # 0 => X.num[p][v] = W.num[p][v]
      /\ \A p \in Projects : \A v \in Nat : X.num[p][v] # 0 =>
             \/ W.num[p][v] # 0
             \/ /\ p \in Ready(rs) /\ rs[p].value.version = v
                /\ X.num[p][v] = rs[p].value.revision
      /\ \A p \in Ready(rs) : LET v == rs[p].value.version IN
             W.num[p][v] = 0 => X.num[p][v] = rs[p].value.revision
  <2>1. \A p \in Ready(rs) : p \in Projects /\ rs[p].value.version \in Nat
    BY <1>2 DEF Ready
  <2>2. QED
    BY <1>1, <2>1
<1> HIDE DEF X, num
<1>6. Onward(W, X)
  <2>1. W.clock <= X.clock
    BY <1>1 DEF Registers
  <2>2. QED
    BY <1>1, <1>5, <2>1 DEF Onward
<1>7. \A p \in Projects : \A v \in Nat :
          Offered(X, p, v) => Offered(W, p, v) \/ (rs[p] # None /\ rs[p].value.version = v)
  BY <1>3, <1>5 DEF Offered
<1>8. ASSUME NEW p \in Ready(rs)
      PROVE  /\ rs[p] # None /\ p \in Projects /\ ~rs[p].staged
             /\ Numbered(X, p, rs[p].value.version, rs[p].value.revision)
  <2>1. rs[p] # None /\ p \in Projects /\ ~rs[p].staged /\ rs[p].sent = None
    BY DEF Ready, Blocked
  <2>2. rs[p].value.revision # 0 /\ rs[p].value.version \in Nat
    BY <1>2, <2>1
  <2>3. W.num[p][rs[p].value.version] # 0 =>
            W.num[p][rs[p].value.version] = rs[p].value.revision
    BY <2>1 DEF RowKept, OfferedKept, Offered, Numbered
  <2>4. QED
    BY <1>5, <2>1, <2>2, <2>3 DEF Numbered
<1>9. ASSUME NEW p \in Projects PROVE RowKept(X, p, rs[p])
  <2>1. CASE p \in Ready(rs)
    <3>1. /\ rs[p] \in Row /\ RowKept(W, p, rs[p]) /\ rs[p].sent = None
      BY <1>8, <2>1 DEF Ready
    <3>2. OfferedKept(X, p, rs[p])
      BY <1>8, <2>1, <3>1 DEF OfferedKept
    <3>3. BaseKept(X, p, rs[p].base, rs[p].baseRev, rs[p].sent, rs[p].staged)
      BY <1>4, <1>6, <1>8, <2>1, <3>1, Fields, OnwardBase DEF RowKept
    <3>4. Dated(X, rs[p].value) /\ (rs[p].conflict # None => RemoteKept(X, p, rs[p].conflict))
      BY <1>4, <1>6, <1>8, <2>1, <3>1, Fields, OnwardKeeps DEF RowKept
    <3>5. QED
      BY <3>1, <3>2, <3>3, <3>4 DEF RowKept
  <2>2. CASE p \notin Ready(rs)
    <3>1. rs[p] # None /\ Offered(X, p, rs[p].value.version) => Offered(W, p, rs[p].value.version)
      BY <1>2, <1>5, <2>2 DEF Offered
    <3>2. QED
      BY <1>4, <1>6, <3>1, OnwardRow
  <2>3. QED
    BY <2>1, <2>2
<1>10. ASSUME NEW p \in Projects, rs[p] # None, rs[p].dirty, ~Blocked(rs, rs[p].group)
       PROVE  LET m == Mutation(p, rs[p]) IN m.id = p /\ OfferKept(X, m)
  <2>1. RowKept(X, p, rs[p])
    BY <1>9
  <2>2. CASE rs[p].sent # None
    BY <1>10, <2>1, <2>2 DEF Mutation, RowKept, BaseKept
  <2>3. CASE rs[p].sent = None
    <3>1. p \in Ready(rs)
      BY <1>10, <2>3 DEF Ready
    <3>2. Numbered(X, p, rs[p].value.version, rs[p].value.revision)
      BY <1>8, <3>1
    <3>3. rs[p].value.revision - 1 = rs[p].baseRev
      BY <1>2, <1>10, <2>1 DEF RowKept, RowConsistent
    <3>4. Acked(X, p, rs[p].base, rs[p].value.revision - 1) /\ Dated(X, rs[p].value)
      BY <1>10, <2>1, <3>3 DEF RowKept, BaseKept
    <3> DEFINE m == Mutation(p, rs[p])
    <3>5. m.id = p /\ m.expected = rs[p].base /\ m.value = rs[p].value
      BY <2>3 DEF Mutation
    <3> HIDE DEF m
    <3>6. m.id = p /\ OfferKept(X, m)
      BY <3>2, <3>4, <3>5 DEF OfferKept
    <3>7. QED
      BY <3>6 DEF m
  <2>4. QED
    BY <2>2, <2>3
<1>11. ASSUME NEW batch \in Pending(rs) PROVE BatchKept(X, batch)
  <2>1. PICK g : /\ batch = {Mutation(p, rs[p]) : p \in Members(rs, g)}
                 /\ ~Blocked(rs, g)
    BY DEF Pending
  <2>2. \A p \in Members(rs, g) : /\ Mutation(p, rs[p]).id = p
                                  /\ OfferKept(X, Mutation(p, rs[p]))
    BY <1>10, <2>1 DEF Members
  <2>3. QED
    BY <2>1, <2>2 DEF BatchKept
<1>12. QED
  BY <1>1, <1>4, <1>6, <1>7, <1>9, <1>11 DEF X

\* Overdue deletions are labelled before the outbox is read.
LEMMA LabelledKept ==
    ASSUME IInv, NEW W, Entered(W), NEW t \in Tabs, NEW p \in Projects
    PROVE  LET r == rows[DeviceOf[t]][p]
               s == IF p \in Overdue(rows[DeviceOf[t]], now)
                    THEN Relabel(r, Fresh(p), "DELETED", r.value.until) ELSE r
           IN RowKept(W, p, s) /\ Sourced(W, p, r, s) /\ Advances(r, s)
<1> DEFINE d == DeviceOf[t]
           r == rows[d][p]
           s == Relabel(r, Fresh(p), "DELETED", r.value.until)
<1>1. d \in Devices
  BY Holds
<1>2. CASE p \in Overdue(rows[d], now)
  <2>1. /\ W \in Registers /\ r # None /\ r \in Row /\ RowKept(W, p, r)
        /\ ~Offered(W, p, Fresh(p)) /\ Fresh(p) \in Nat \ {0}
    BY <1>1, <1>2, Holds, FreshUnoffered DEF Entered, Overdue
  <2>2. "DELETED" \in DeletionStates /\ r.value.until \in Nat /\ r.baseRev \in Nat
    BY <2>1, Fields DEF DeletionStates
  <2> HIDE DEF r
  <2>3. RowKept(W, p, s) /\ s \in Row /\ s.value.version = Fresh(p) /\ s.baseRev = r.baseRev
    BY <2>1, <2>2, RelabelKept
  <2> HIDE DEF s
  <2>4. s # None
    BY <2>3, Fields
  <2>5. Sourced(W, p, r, s) /\ Advances(r, s)
    BY <2>2, <2>3, <2>4 DEF Sourced, Advances
  <2>6. QED
    BY <1>2, <2>3, <2>5 DEF s, r
<1>3. CASE p \notin Overdue(rows[d], now)
  BY <1>1, <1>3, SameRow
<1>4. QED
  BY <1>2, <1>3

\* The start of a run.
LEMMA StartRunEntered ==
    ASSUME OneTabPerDevice, IInv, IInv', Built, NEW W, Entered(W), NEW t \in Tabs, StartRun(t)
    PROVE  (\E X : Entered(X)') /\ AckNeverRegressesStep
<1> DEFINE d == DeviceOf[t]
           rs == rows[d]
           overdue == Overdue(rs, now)
           labelled == [p \in Projects |->
               IF p \in overdue THEN Relabel(rs[p], Fresh(p), "DELETED", rs[p].value.until)
               ELSE rs[p]]
<1>1. /\ rows' = [rows EXCEPT ![d] = labelled]
      /\ hist' = [p \in Projects |->
                     IF p \in overdue
                     THEN Append(hist[p], Entry(p, SeenRow(p, rs[p]), TRUE)) ELSE hist[p]]
      /\ ctl' = [ctl EXCEPT ![t].pc = "send", ![t].queue = Pending(labelled)]
      /\ UNCHANGED <<cloud, work, wire, now>>
  BY DEF StartRun
<1>2. d \in Devices /\ ctl[t] \in Control /\ W \in Registers
  BY TabKnown DEF Entered
<1>3. /\ \A e \in Devices : e # d => rows'[e] = rows[e]
      /\ rows'[d] = labelled
      /\ \A u \in Tabs : u # t => ctl'[u] = ctl[u]
      /\ ctl'[t] = [ctl[t] EXCEPT !.pc = "send", !.queue = Pending(labelled)]
  <2> HIDE DEF labelled
  <2>1. QED
    BY <1>1, <1>2 DEF IInv, TypeOK
<1>4. Grows(hist, hist')
  <2> HIDE DEF overdue
  <2>1. \A p \in Projects : hist'[p] = hist[p] \/ \E more : Adds(p, more)
    BY <1>1 DEF Adds
  <2>2. QED
    BY <2>1, AddsGrows
<1>5. \A p \in Projects : /\ RowKept(W, p, labelled[p])
                          /\ Sourced(W, p, rs[p], labelled[p])
                          /\ Advances(rs[p], labelled[p])
  BY LabelledKept
<1> HIDE DEF labelled
<1>6. \A p \in Projects : labelled[p] \in Row \cup {None}
  BY <1>2, <1>3 DEF IInv, TypeOK
<1>7. PICK X \in Registers :
      /\ X.clock = W.clock /\ X.com = W.com /\ Onward(W, X)
      /\ \A p \in Projects : \A v \in Nat :
             Offered(X, p, v) => \/ Offered(W, p, v)
                                 \/ labelled[p] # None /\ labelled[p].value.version = v
      /\ \A p \in Projects : RowKept(X, p, labelled[p])
      /\ \A batch \in Pending(labelled) : BatchKept(X, batch)
  <2> DEFINE Y == Sealed(W, labelled)
  <2>1. /\ Y \in Registers /\ Y.clock = W.clock /\ Y.com = W.com /\ Onward(W, Y)
        /\ \A p \in Projects : \A v \in Nat :
               Offered(Y, p, v) => \/ Offered(W, p, v)
                                   \/ labelled[p] # None /\ labelled[p].value.version = v
        /\ \A p \in Projects : RowKept(Y, p, labelled[p])
        /\ \A batch \in Pending(labelled) : BatchKept(Y, batch)
    BY <1>2, <1>5, <1>6, SealedKeeps
  <2> HIDE DEF Y
  <2>2. QED
    BY <2>1
<1>8. /\ ctl'[t].pc = "send" /\ ctl'[t].queue = Pending(labelled)
      /\ ctl'[t].batch = ctl[t].batch /\ ctl'[t].reply = ctl[t].reply
  BY <1>2, <1>3 DEF Control
<1>9. ControlKept(X, ctl'[t]) /\ ~Flying(ctl'[t])
  <2>1. ControlKept(X, ctl[t])
    BY <1>2, <1>7, OnwardControl DEF Entered
  <2>2. QED
    BY <1>7, <1>8, <2>1 DEF ControlKept, Flying
<1>10. Entered(X)' /\ AckNeverRegressesStep
  <2>1. /\ \A p \in Projects : /\ RowKept(X, p, rows'[d][p])
                               /\ Sourced(W, p, rows[d][p], rows'[d][p])
                               /\ Advances(rows[d][p], rows'[d][p])
        /\ \A p \in Projects : \A v \in Nat :
               Offered(X, p, v) => \/ Offered(W, p, v)
                                   \/ rows'[d][p] # None /\ rows'[d][p].value.version = v
    BY <1>3, <1>5, <1>7
  <2>2. UNCHANGED <<cloud, work, wire, now>>
    BY <1>1
  <2>3. \A e \in Devices : e # d => rows'[e] = rows[e]
    BY <1>3
  <2>4. \A u \in Tabs : u # t => ctl'[u] = ctl[u]
    BY <1>3
  <2>5. X.clock = W.clock /\ X.com = W.com /\ Onward(W, X)
    BY <1>7
  <2>6. QED
    BY <1>4, <1>9, <2>1, <2>2, <2>3, <2>4, <2>5, SealEntered
<1>11. QED
  BY <1>10

-----------------------------------------------------------------------------
(* The steps of a run on the rows of its device. *)

\* A step of the controller that leaves the register as it is.
LEMMA RunEntered ==
    ASSUME OneTabPerDevice, IInv, IInv', Built, NEW W, Entered(W), NEW t \in Tabs,
           UNCHANGED <<cloud, work, wire, now, hist>>,
           NEW R, rows' = [rows EXCEPT ![DeviceOf[t]] = R],
           NEW k, ctl' = [ctl EXCEPT ![t] = k],
           \A p \in Projects : /\ RowKept(W, p, R[p])
                               /\ Sourced(W, p, rows[DeviceOf[t]][p], R[p])
                               /\ Advances(rows[DeviceOf[t]][p], R[p]),
           ControlKept(W, k), Flying(k) => \A m \in k.batch : Settled(W, R[m.id], m)
    PROVE  Entered(W)' /\ AckNeverRegressesStep
<1> DEFINE d == DeviceOf[t]
<1>1. /\ d \in Devices
      /\ \A e \in Devices : e # d => rows'[e] = rows[e]
      /\ rows'[d] = R
      /\ \A u \in Tabs : u # t => work'[u] = work[u] /\ ctl'[u] = ctl[u]
      /\ ctl'[t] = k
      /\ work'[t] \in {work[t], None}
  BY Holds DEF IInv, TypeOK
<1>2. Grows(hist, hist')
  BY AddsGrows
<1>3. \A p \in Projects : /\ RowKept(W, p, rows'[d][p])
                          /\ Sourced(W, p, rows[d][p], rows'[d][p])
                          /\ Advances(rows[d][p], rows'[d][p])
  BY <1>1
<1>4. AllSettled(W, t)' /\ ControlKept(W, ctl'[t])
  BY <1>1 DEF AllSettled
<1>5. AckNeverRegressesStep /\ LoadBehind(t)'
  <2>1. LoadBehind(t)
    BY DEF Entered
  <2>2. \A e \in Devices, p \in Projects : rows'[e][p] \in Row \cup {None}
    BY DEF IInv, TypeOK
  <2>3. QED
    BY <1>1, <1>3, <2>1, <2>2, AdvancesHold
<1>6. LoadKept(W, work'[t])
  BY <1>1 DEF Entered
<1>7. Entered(W)'
  <2>1. \A p \in Projects : /\ RowKept(W, p, rows'[d][p])
                            /\ Sourced(W, p, rows[d][p], rows'[d][p])
    BY <1>3
  <2>2. UNCHANGED <<cloud, wire, now>>
    OBVIOUS
  <2>3. QED
    BY <1>1, <1>2, <1>4, <1>5, <1>6, <2>1, <2>2, DeviceEntered
<1>8. QED
  BY <1>5, <1>7

\* A row stays when a run leaves it.
LEMMA RowStays ==
    ASSUME IInv, NEW W, Entered(W), NEW t \in Tabs
    PROVE  \A p \in Projects : LET r == rows[DeviceOf[t]][p] IN
               RowKept(W, p, r) /\ Sourced(W, p, r, r) /\ Advances(r, r)
BY Holds, SameRow

\* A row that would still send an operation is pinned to it.
LEMMA PinKept ==
    ASSUME NEW W \in Registers, NEW m \in SyncMutation, OfferKept(W, m), Fits(W, m.id),
           NEW r \in Row, RowKept(W, m.id, r), r.dirty, r.conflict = None, ~r.staged,
           r.base = m.expected, Mutation(m.id, r).value.version = m.value.version
    PROVE  LET s == [r EXCEPT !.sent = m] IN
           /\ RowKept(W, m.id, s) /\ Sourced(W, m.id, r, s) /\ Advances(r, s)
           /\ Settled(W, s, m)
<1> DEFINE p == m.id
           s == [r EXCEPT !.sent = m]
<1>1. /\ s.base = r.base /\ s.baseRev = r.baseRev /\ s.value = r.value /\ s.dirty = r.dirty
      /\ s.conflict = r.conflict /\ s.sent = m /\ s.staged = r.staged /\ s \in Row
  BY DEF Row
<1>2. /\ r # None /\ s # None /\ m # None
      /\ r.base \in Nat /\ r.baseRev \in Nat /\ m.expected \in Nat /\ p \in Projects
      /\ m.value.revision \in Nat \ {0} /\ r.value.revision \in Nat /\ r.value.version \in Nat
  BY <1>1, Fields
<1> HIDE DEF s
<1>3. m.value.revision = r.baseRev + 1
  <2>1. Acked(W, p, r.base, r.baseRev) /\ Acked(W, p, m.expected, m.value.revision - 1)
    BY <1>2 DEF RowKept, BaseKept, OfferKept
  <2>2. m.value.revision - 1 \in Nat
    BY <1>2
  <2>3. r.baseRev = m.value.revision - 1
    BY <1>2, <2>1, <2>2, AckedOnce
  <2>4. QED
    BY <1>2, <2>3
<1>4. RowConsistent(p, s)
  BY <1>1, <1>2, <1>3 DEF RowKept, RowConsistent
<1>5. BaseKept(W, p, s.base, s.baseRev, s.sent, s.staged)
  BY <1>1, <1>2, <1>3 DEF RowKept, BaseKept
<1>6. Offered(W, p, r.value.version) => r.value.version = m.value.version
  BY <1>2 DEF RowKept, OfferedKept, Mutation
<1>7. OfferedKept(W, p, s)
  BY <1>1, <1>2, <1>6 DEF RowKept, OfferedKept
<1>8. RowKept(W, p, s)
  BY <1>1, <1>2, <1>4, <1>5, <1>7 DEF RowKept
<1>9. Sourced(W, p, r, s) /\ Advances(r, s) /\ Settled(W, s, m)
  BY <1>1, <1>2, <1>6 DEF Sourced, Advances, Settled
<1>10. QED
  BY <1>8, <1>9 DEF s

\* markSending() pins operations under the numbers they were offered as.
LEMMA MarkSendingEntered ==
    ASSUME OneTabPerDevice, IInv, IInv', Built, NEW W, Entered(W), NEW t \in Tabs, MarkSending(t)
    PROVE  Entered(W)' /\ AckNeverRegressesStep
<1> DEFINE d == DeviceOf[t]
           rs == rows[d]
<1>1. UNCHANGED <<cloud, work, wire, now, hist>> /\ ctl[t].pc = "send"
  BY DEF MarkSending
<1>2. /\ d \in Devices /\ ctl[t] \in Control /\ ControlKept(W, ctl[t]) /\ W \in Registers
  BY TabKnown DEF Entered
<1>3. PICK batch \in ctl[t].queue :
         LET rest == [ctl[t] EXCEPT !.queue = @ \ {batch}] IN
         IF \A m \in batch : StillPending(rs, m)
         THEN /\ rows' = [rows EXCEPT ![d] = [p \in Projects |->
                    IF \E m \in batch : m.id = p
                    THEN [rs[p] EXCEPT !.sent = CHOOSE m \in batch : m.id = p]
                    ELSE rs[p]]]
              /\ ctl' = [ctl EXCEPT ![t] = [rest EXCEPT !.pc = "commit", !.batch = batch]]
         ELSE ctl' = [ctl EXCEPT ![t] = rest] /\ UNCHANGED rows
  BY DEF MarkSending
<1> DEFINE rest == [ctl[t] EXCEPT !.queue = @ \ {batch}]
           next == [rest EXCEPT !.pc = "commit", !.batch = batch]
<1>4. /\ rest.queue \subseteq ctl[t].queue /\ rest.batch = ctl[t].batch
      /\ rest.reply = ctl[t].reply /\ rest.pc = "send"
      /\ next.queue \subseteq ctl[t].queue /\ next.batch = batch
      /\ next.reply = ctl[t].reply /\ next.pc = "commit"
  BY <1>1, <1>2 DEF Control
<1>5. CASE ~\A m \in batch : StillPending(rs, m)
  <2>1. ctl' = [ctl EXCEPT ![t] = rest] /\ UNCHANGED rows
    BY <1>3, <1>5
  <2> HIDE DEF rest
  <2>2. rows' = [rows EXCEPT ![d] = rs]
    BY <1>2, <2>1 DEF IInv, TypeOK
  <2>3. ControlKept(W, rest) /\ ~Flying(rest)
    BY <1>2, <1>4 DEF ControlKept, Flying
  <2>4. QED
    BY <1>1, <2>1, <2>2, <2>3, RowStays, RunEntered
<1>6. CASE \A m \in batch : StillPending(rs, m)
  <2> DEFINE pin(p) == CHOOSE m \in batch : m.id = p
             R == [p \in Projects |->
                       IF \E m \in batch : m.id = p THEN [rs[p] EXCEPT !.sent = pin(p)] ELSE rs[p]]
  <2>1. rows' = [rows EXCEPT ![d] = R] /\ ctl' = [ctl EXCEPT ![t] = next]
    BY <1>3, <1>6
  <2> HIDE DEF rest, next
  <2>2. ControlKept(W, next)
    BY <1>2, <1>4 DEF ControlKept
  <2>3. /\ \A m \in batch : m \in SyncMutation /\ m.id \in Projects /\ OfferKept(W, m)
        /\ \A m, n \in batch : m.id = n.id => m = n
    BY <1>2, Holds, Fields DEF ControlKept, BatchKept
  <2>4. ASSUME NEW m \in batch
        PROVE  /\ RowKept(W, m.id, R[m.id]) /\ Sourced(W, m.id, rs[m.id], R[m.id])
               /\ Advances(rs[m.id], R[m.id]) /\ Settled(W, R[m.id], m)
    <3>1. pin(m.id) = m
      BY <2>3
    <3>2. R[m.id] = [rs[m.id] EXCEPT !.sent = m]
      BY <2>3, <3>1
    <3> HIDE DEF R, pin
    <3>3. StillPending(rs, m)
      BY <1>6
    <3>4. /\ rs[m.id] \in Row /\ RowKept(W, m.id, rs[m.id]) /\ Fits(W, m.id)
      BY <1>2, <2>3, <3>3, Holds DEF Entered, StillPending
    <3>5. /\ rs[m.id].dirty /\ rs[m.id].conflict = None /\ ~rs[m.id].staged
          /\ rs[m.id].base = m.expected
          /\ Mutation(m.id, rs[m.id]).value.version = m.value.version
      BY <3>3 DEF StillPending
    <3> HIDE DEF rs
    <3>6. QED
      BY <1>2, <2>3, <3>2, <3>4, <3>5, PinKept
  <2>5. ASSUME NEW p \in Projects
        PROVE  RowKept(W, p, R[p]) /\ Sourced(W, p, rs[p], R[p]) /\ Advances(rs[p], R[p])
    <3>1. CASE \E m \in batch : m.id = p
      BY <2>4, <3>1
    <3>2. CASE ~\E m \in batch : m.id = p
      BY <3>2, RowStays
    <3>3. QED
      BY <3>1, <3>2
  <2> HIDE DEF R
  <2>6. Flying(next) => \A m \in next.batch : Settled(W, R[m.id], m)
    BY <1>4, <2>4
  <2>7. QED
    BY <1>1, <2>1, <2>2, <2>5, <2>6, RunEntered
<1>7. QED
  BY <1>5, <1>6

\* A row whose operation was committed.
LEMMA AcknowledgedKept ==
    ASSUME NEW W \in Registers, NEW m \in SyncMutation, OfferKept(W, m), Fits(W, m.id),
           Acked(W, m.id, m.value.version, m.value.revision),
           NEW r \in Row \cup {None}, RowKept(W, m.id, r), Settled(W, r, m),
           r # None => r.dirty /\ ~r.staged
    PROVE  LET s == Acknowledged(r, m) IN
           RowKept(W, m.id, s) /\ Sourced(W, m.id, r, s) /\ Advances(r, s)
<1> DEFINE p == m.id
           s == Acknowledged(r, m)
<1>0. r # None => r.baseRev \in Nat
  BY Fields
<1>1. CASE r = None \/ (r # None /\ r.base # m.expected)
  <2>1. s = r
    BY <1>1 DEF Acknowledged
  <2>2. QED
    BY <1>0, <2>1 DEF Sourced, Advances
<1>2. CASE ~(r = None \/ (r # None /\ r.base # m.expected))
  <2>1. /\ r \in Row /\ r # None /\ r.base = m.expected /\ r.value \in SyncProject
        /\ r.base \in Nat /\ r.baseRev \in Nat /\ m.expected \in Nat /\ p \in Projects
        /\ m.value.revision \in Nat \ {0} /\ r.value.version \in Nat /\ m.value.version \in Nat \ {0}
    BY <1>2, Fields
  <2> DEFINE newer == r.value.version # m.value.version
  <2>2. /\ s.base = m.value.version /\ s.baseRev = m.value.revision
        /\ s.value = [r.value EXCEPT !.revision = m.value.revision + (IF newer THEN 1 ELSE 0)]
        /\ s.dirty = newer /\ s.conflict = None /\ s.sent = None /\ s.staged = r.staged
    BY <1>2, <2>1 DEF Acknowledged, Row
  <2>3. /\ s.value.version = r.value.version
        /\ s.value.revision = m.value.revision + (IF newer THEN 1 ELSE 0)
        /\ s.value.deletion = r.value.deletion /\ s.value.until = r.value.until
    BY <2>1, <2>2 DEF SyncProject
  <2>31. s # None
    <3>1. m.value.revision + (IF newer THEN 1 ELSE 0) \in Nat \ {0}
      BY <2>1
    <3>2. [r.value EXCEPT !.revision = m.value.revision + (IF newer THEN 1 ELSE 0)] \in SyncProject
      BY <2>1, <3>1 DEF SyncProject
    <3>3. s \in Row
      BY <1>2, <2>1, <3>2 DEF Acknowledged, Row
    <3> HIDE DEF s
    <3>4. QED
      BY <3>3, Fields
  <2> HIDE DEF s
  <2>4. RowConsistent(p, s)
    <3>1. CASE newer
      <4>1. s.dirty /\ s.value.revision = m.value.revision + 1
        BY <2>2, <2>3, <3>1
      <4> HIDE DEF newer
      <4>2. QED
        BY <2>2, <4>1 DEF RowConsistent
    <3>2. CASE ~newer
      <4>11. ~s.dirty /\ s.value.version = m.value.version
        BY <2>2, <2>3, <3>2
      <4>12. (IF newer THEN 1 ELSE 0) = 0
        BY <3>2
      <4> HIDE DEF newer
      <4>13. s.value.revision = m.value.revision
        BY <2>1, <2>3, <4>12
      <4>1. ~s.dirty /\ s.value.revision = m.value.revision /\ s.value.version = m.value.version
        BY <4>11, <4>13
      <4>2. QED
        BY <2>2, <4>1 DEF RowConsistent
    <3>3. QED
      BY <3>1, <3>2
  <2>5. BaseKept(W, p, s.base, s.baseRev, s.sent, s.staged)
    BY <2>1, <2>2 DEF BaseKept
  <2>6. Dated(W, s.value)
    BY <2>1, <2>3 DEF RowKept, Dated
  <2>7. OfferedKept(W, p, s)
    <3>1. SUFFICES ASSUME Offered(W, p, r.value.version)
                   PROVE  Numbered(W, p, s.value.version, s.value.revision)
      BY <2>1, <2>2, <2>3 DEF OfferedKept
    <3>2. r.value.version = m.value.version
      BY <2>1, <3>1 DEF Settled
    <3>3. QED
      BY <2>1, <2>3, <3>2 DEF OfferKept
  <2>8. RowKept(W, p, s)
    BY <2>2, <2>4, <2>5, <2>6, <2>7 DEF RowKept
  <2>9. r.baseRev = m.value.revision - 1
    <3>1. Acked(W, p, r.base, r.baseRev) /\ Acked(W, p, m.expected, m.value.revision - 1)
      BY <2>1 DEF RowKept, BaseKept, OfferKept
    <3>2. m.value.revision - 1 \in Nat
      BY <2>1
    <3>3. QED
      BY <2>1, <3>1, <3>2, AckedOnce
  <2>10. Sourced(W, p, r, s) /\ Advances(r, s)
    BY <2>1, <2>2, <2>3, <2>31, <2>9 DEF Sourced, Advances
  <2>11. QED
    BY <2>8, <2>10 DEF s
<1>3. QED
  BY <1>1, <1>2

\* acknowledge() moves bases forward, to what was committed.
LEMMA AcknowledgeEntered ==
    ASSUME OneTabPerDevice, IInv, IInv', Built, NEW W, Entered(W), NEW t \in Tabs, Acknowledge(t)
    PROVE  Entered(W)' /\ AckNeverRegressesStep
<1> DEFINE d == DeviceOf[t]
           rs == rows[d]
           batch == ctl[t].batch
           ack(p) == CHOOSE m \in batch : m.id = p
           R == [p \in Projects |->
                     IF \E m \in batch : m.id = p THEN Acknowledged(rs[p], ack(p)) ELSE rs[p]]
           k == [ctl[t] EXCEPT !.pc = "send", !.batch = {}]
<1>1. /\ rows' = [rows EXCEPT ![d] = R]
      /\ ctl' = [ctl EXCEPT ![t] = k]
      /\ UNCHANGED <<cloud, work, wire, now, hist>>
      /\ ctl[t].pc = "committed"
  BY DEF Acknowledge, IInv, TypeOK
<1>2. /\ d \in Devices /\ ctl[t] \in Control /\ ControlKept(W, ctl[t]) /\ W \in Registers
  BY TabKnown DEF Entered
<1>3. /\ k.queue = ctl[t].queue /\ k.batch = {} /\ k.reply = ctl[t].reply /\ k.pc = "send"
  BY <1>2 DEF Control
<1> HIDE DEF k
<1>4. ControlKept(W, k) /\ ~Flying(k)
  BY <1>2, <1>3 DEF ControlKept, BatchKept, Flying
<1>5. ASSUME NEW m \in batch
      PROVE  /\ m \in SyncMutation /\ m.id \in Projects /\ OfferKept(W, m)
             /\ Acked(W, m.id, m.value.version, m.value.revision)
             /\ Settled(W, rs[m.id], m)
             /\ rs[m.id] # None => rs[m.id].dirty /\ ~rs[m.id].staged
  <2>1. Flying(ctl[t])
    BY <1>1 DEF Flying
  <2>2. Settled(W, rs[m.id], m) /\ Pinned(hist, rs[m.id], m)
    BY <2>1 DEF Entered, AllSettled, Built, HeldBy
  <2>3. m \in SyncMutation /\ m.id \in Projects /\ OfferKept(W, m)
    BY <1>2, Holds, Fields DEF ControlKept, BatchKept
  <2>4. QED
    BY <1>1, <1>2, <2>2, <2>3 DEF ControlKept, Pinned
<1>6. ASSUME NEW p \in Projects
      PROVE  RowKept(W, p, R[p]) /\ Sourced(W, p, rs[p], R[p]) /\ Advances(rs[p], R[p])
  <2>1. CASE \E m \in batch : m.id = p
    <3>1. ack(p) \in batch /\ ack(p).id = p
      BY <2>1
    <3>2. R[p] = Acknowledged(rs[p], ack(p))
      BY <2>1
    <3>3. PICK m \in batch : m = ack(p)
      BY <3>1
    <3> HIDE DEF R, ack, batch
    <3>4. rs[p] \in Row \cup {None} /\ RowKept(W, p, rs[p]) /\ Fits(W, p)
      BY <1>2, Holds DEF Entered
    <3>5. m.id = p /\ R[p] = Acknowledged(rs[p], m)
      BY <3>1, <3>2, <3>3
    <3> HIDE DEF rs
    <3>6. QED
      BY <1>2, <1>5, <3>4, <3>5, AcknowledgedKept
  <2>2. CASE ~\E m \in batch : m.id = p
    BY <2>2, RowStays
  <2>3. QED
    BY <2>1, <2>2
<1> HIDE DEF R
<1>7. QED
  BY <1>1, <1>4, <1>6, RunEntered

\* A document that was committed is received as it was numbered.
LEMMA CleanKept ==
    ASSUME NEW W \in Registers, NEW p \in Projects, Fits(W, p), NEW v \in SyncProject,
           RemoteKept(W, p, v), NEW r \in Row \cup {None}, r # None => v.revision > r.baseRev
    PROVE  LET s == CleanRow(p, v) IN
           RowKept(W, p, s) /\ Sourced(W, p, r, s) /\ Advances(r, s)
<1> DEFINE s == CleanRow(p, v)
<1>1. /\ s.base = v.version /\ s.baseRev = v.revision /\ s.value = v /\ s.dirty = FALSE
      /\ s.conflict = None /\ s.sent = None /\ s.staged = FALSE
  BY DEF CleanRow
<1>2. /\ v.version \in Nat \ {0} /\ v.revision \in Nat /\ (r # None => r.baseRev \in Nat)
  BY Fields
<1>3. s # None
  <2>1. s \in Row
    BY <1>2 DEF CleanRow, Row
  <2> HIDE DEF s
  <2>2. QED
    BY <2>1, Fields
<1> HIDE DEF s
<1>4. Numbered(W, p, v.version, v.revision) /\ Offered(W, p, v.version)
  BY <1>2, AckedOnce DEF RemoteKept
<1>5. RowConsistent(p, s)
  BY <1>1 DEF RowConsistent
<1>6. BaseKept(W, p, s.base, s.baseRev, s.sent, s.staged)
  BY <1>1 DEF BaseKept, RemoteKept
<1>7. OfferedKept(W, p, s) /\ Dated(W, s.value)
  BY <1>1, <1>4 DEF OfferedKept, RemoteKept
<1>8. RowKept(W, p, s)
  BY <1>1, <1>5, <1>6, <1>7 DEF RowKept
<1>9. Sourced(W, p, r, s) /\ Advances(r, s)
  BY <1>1, <1>2, <1>3, <1>4 DEF Sourced, Advances
<1>10. QED
  BY <1>8, <1>9 DEF s

\* The row's own version comes back as committed: it is clean.
LEMMA OwnKept ==
    ASSUME NEW W \in Registers, NEW p \in Projects, Fits(W, p), NEW v \in SyncProject,
           RemoteKept(W, p, v), NEW r \in Row, RowKept(W, p, r), v.revision > r.baseRev,
           r.value.version = v.version
    PROVE  LET s == [r EXCEPT !.base = v.version, !.baseRev = v.revision,
                              !.dirty = FALSE, !.conflict = None, !.sent = None] IN
           RowKept(W, p, s) /\ Sourced(W, p, r, s) /\ Advances(r, s)
<1> DEFINE s == [r EXCEPT !.base = v.version, !.baseRev = v.revision,
                          !.dirty = FALSE, !.conflict = None, !.sent = None]
<1>1. /\ s.base = v.version /\ s.baseRev = v.revision /\ s.value = r.value /\ s.dirty = FALSE
      /\ s.conflict = None /\ s.sent = None /\ s.staged = r.staged
  BY DEF Row
<1>2. /\ v.version \in Nat \ {0} /\ v.revision \in Nat /\ r.baseRev \in Nat /\ r # None
      /\ r.value.revision \in Nat
  BY Fields
<1>3. s # None
  <2>1. s \in Row
    BY <1>2 DEF Row
  <2> HIDE DEF s
  <2>2. QED
    BY <2>1, Fields
<1> HIDE DEF s
<1>4. Numbered(W, p, v.version, v.revision) /\ Offered(W, p, v.version)
  BY <1>2, AckedOnce DEF RemoteKept
<1>5. ~r.staged /\ r.value.revision = v.revision
  BY <1>2, <1>4 DEF RowKept, OfferedKept, Numbered
<1>6. RowConsistent(p, s)
  BY <1>1, <1>5 DEF RowConsistent
<1>7. BaseKept(W, p, s.base, s.baseRev, s.sent, s.staged)
  BY <1>1, <1>5 DEF BaseKept, RemoteKept
<1>8. OfferedKept(W, p, s) /\ Dated(W, s.value)
  BY <1>1, <1>2, <1>4, <1>5 DEF OfferedKept, RowKept
<1>9. RowKept(W, p, s)
  BY <1>1, <1>6, <1>7, <1>8 DEF RowKept
<1>10. Sourced(W, p, r, s) /\ Advances(r, s)
  BY <1>1, <1>2, <1>3, <1>4 DEF Sourced, Advances
<1>11. QED
  BY <1>9, <1>10 DEF s

\* The pinned version comes back as committed: the edits since are based on it.
LEMMA SentKept ==
    ASSUME NEW W \in Registers, NEW p \in Projects, Fits(W, p), NEW v \in SyncProject,
           RemoteKept(W, p, v), NEW r \in Row, RowKept(W, p, r), v.revision > r.baseRev,
           r.dirty, r.value.version # v.version, r.sent # None, r.sent.value.version = v.version
    PROVE  LET s == [r EXCEPT !.base = v.version, !.baseRev = v.revision,
                              !.value.revision = v.revision + 1,
                              !.conflict = None, !.sent = None] IN
           RowKept(W, p, s) /\ Sourced(W, p, r, s) /\ Advances(r, s)
<1> DEFINE s == [r EXCEPT !.base = v.version, !.baseRev = v.revision,
                          !.value.revision = v.revision + 1, !.conflict = None, !.sent = None]
<1>1. /\ s.base = v.version /\ s.baseRev = v.revision /\ s.dirty = r.dirty
      /\ s.value = [r.value EXCEPT !.revision = v.revision + 1]
      /\ s.conflict = None /\ s.sent = None /\ s.staged = r.staged
  BY DEF Row
<1>2. /\ v.version \in Nat \ {0} /\ v.revision \in Nat /\ r.baseRev \in Nat /\ r # None
      /\ r.value \in SyncProject
  BY Fields
<1>21. /\ s.value.version = r.value.version /\ s.value.revision = v.revision + 1
       /\ s.value.deletion = r.value.deletion /\ s.value.until = r.value.until
  BY <1>1, <1>2 DEF SyncProject
<1>3. s # None
  <2>1. v.revision + 1 \in Nat \ {0}
    BY <1>2
  <2>2. [r.value EXCEPT !.revision = v.revision + 1] \in SyncProject
    BY <1>2, <2>1 DEF SyncProject
  <2>3. s \in Row
    BY <1>2, <2>2 DEF Row
  <2> HIDE DEF s
  <2>4. QED
    BY <2>3, Fields
<1> HIDE DEF s
<1>4. ~r.staged
  BY <1>2 DEF RowKept, BaseKept
<1>5. ~Offered(W, p, r.value.version)
  BY <1>2 DEF RowKept, OfferedKept
<1>6. RowConsistent(p, s)
  BY <1>1, <1>21 DEF RowConsistent
<1>7. BaseKept(W, p, s.base, s.baseRev, s.sent, s.staged)
  BY <1>1, <1>4 DEF BaseKept, RemoteKept
<1>8. OfferedKept(W, p, s) /\ Dated(W, s.value)
  BY <1>2, <1>21, <1>5 DEF OfferedKept, RowKept, Dated
<1>9. RowKept(W, p, s)
  BY <1>1, <1>6, <1>7, <1>8 DEF RowKept
<1>10. Sourced(W, p, r, s) /\ Advances(r, s)
  BY <1>1, <1>2, <1>21, <1>3 DEF Sourced, Advances
<1>11. QED
  BY <1>9, <1>10 DEF s

\* Another version is there: the row is in conflict with it, and unpinned.
LEMMA ConflictKept ==
    ASSUME NEW W \in Registers, NEW p \in Projects, NEW v \in SyncProject,
           RemoteKept(W, p, v), NEW r \in Row, RowKept(W, p, r), v.revision > r.baseRev, r.dirty
    PROVE  LET s == [r EXCEPT !.conflict = v, !.sent = None] IN
           RowKept(W, p, s) /\ Sourced(W, p, r, s) /\ Advances(r, s)
<1> DEFINE s == [r EXCEPT !.conflict = v, !.sent = None]
<1>1. /\ s.base = r.base /\ s.baseRev = r.baseRev /\ s.value = r.value /\ s.dirty = r.dirty
      /\ s.conflict = v /\ s.sent = None /\ s.staged = r.staged /\ s \in Row
  BY DEF Row
<1>2. r.baseRev \in Nat /\ r # None /\ s # None
  BY <1>1, Fields
<1> HIDE DEF s
<1>3. RowConsistent(p, s)
  BY <1>1, <1>2 DEF RowKept, RowConsistent
<1>4. BaseKept(W, p, s.base, s.baseRev, s.sent, s.staged)
  BY <1>1, <1>2 DEF RowKept, BaseKept
<1>5. OfferedKept(W, p, s)
  BY <1>1, <1>2 DEF RowKept, OfferedKept
<1>6. RowKept(W, p, s)
  BY <1>1, <1>2, <1>3, <1>4, <1>5 DEF RowKept
<1>7. Sourced(W, p, r, s) /\ Advances(r, s)
  BY <1>1, <1>2 DEF Sourced, Advances
<1>8. QED
  BY <1>6, <1>7 DEF s

\* receive() of one document.
LEMMA ReceivedKept ==
    ASSUME NEW W \in Registers, NEW p \in Projects, Fits(W, p), NEW v \in SyncProject,
           RemoteKept(W, p, v), NEW r \in Row \cup {None}, RowKept(W, p, r), NEW clock
    PROVE  LET s == Received(p, r, v, clock) IN
           RowKept(W, p, s) /\ Sourced(W, p, r, s) /\ Advances(r, s)
<1> DEFINE s == Received(p, r, v, clock)
           own == [r EXCEPT !.base = v.version, !.baseRev = v.revision,
                            !.dirty = FALSE, !.conflict = None, !.sent = None]
           pinned == [r EXCEPT !.base = v.version, !.baseRev = v.revision,
                               !.value.revision = v.revision + 1,
                               !.conflict = None, !.sent = None]
           foreign == [r EXCEPT !.conflict = v, !.sent = None]
<1> SUFFICES RowKept(W, p, s) /\ Sourced(W, p, r, s) /\ Advances(r, s)
  OBVIOUS
<1>1. v.revision \in Nat /\ (r # None => r.baseRev \in Nat)
  BY Fields
<1>2. CASE r = None
  <2>1. LET c == CleanRow(p, v) IN RowKept(W, p, c) /\ Sourced(W, p, r, c) /\ Advances(r, c)
    BY <1>2, CleanKept
  <2>2. s = CleanRow(p, v)
    BY <1>2 DEF Received
  <2> HIDE DEF s
  <2>3. QED
    BY <2>1, <2>2
<1>3. CASE s = r
  <2> HIDE DEF s
  <2>1. QED
    BY <1>1, <1>3 DEF Sourced, Advances
<1>4. CASE r # None /\ v.revision > r.baseRev
  <2>1. r \in Row
    BY <1>4
  <2>2. \/ s = r
        \/ s = CleanRow(p, v)
        \/ r.dirty /\ r.value.version = v.version /\ s = own
        \/ /\ r.dirty /\ r.value.version # v.version
           /\ r.sent # None /\ r.sent.value.version = v.version
           /\ s = pinned
        \/ r.dirty /\ s = foreign
    <3> HIDE DEF own, pinned, foreign
    <3>1. v.revision <= r.baseRev <=> FALSE
      BY <1>1, <1>4
    <3>2. QED
      BY <1>4, <3>1 DEF Received, own, pinned, foreign
  <2>3. CASE s = CleanRow(p, v)
    <3>1. LET c == CleanRow(p, v) IN RowKept(W, p, c) /\ Sourced(W, p, r, c) /\ Advances(r, c)
      BY <1>4, <2>1, CleanKept
    <3> HIDE DEF s
    <3>2. QED
      BY <2>3, <3>1
  <2>4. CASE r.dirty /\ r.value.version = v.version /\ s = own
    <3>1. RowKept(W, p, own) /\ Sourced(W, p, r, own) /\ Advances(r, own)
      BY <1>4, <2>1, <2>4, OwnKept
    <3> HIDE DEF s, own
    <3>2. QED
      BY <2>4, <3>1
  <2>5. CASE /\ r.dirty /\ r.value.version # v.version
             /\ r.sent # None /\ r.sent.value.version = v.version
             /\ s = pinned
    <3>1. RowKept(W, p, pinned) /\ Sourced(W, p, r, pinned) /\ Advances(r, pinned)
      BY <1>4, <2>1, <2>5, SentKept
    <3> HIDE DEF s, pinned
    <3>2. QED
      BY <2>5, <3>1
  <2>6. CASE r.dirty /\ s = foreign
    <3>1. RowKept(W, p, foreign) /\ Sourced(W, p, r, foreign) /\ Advances(r, foreign)
      BY <1>4, <2>1, <2>6, ConflictKept
    <3> HIDE DEF s, foreign
    <3>2. QED
      BY <2>6, <3>1
  <2> HIDE DEF s, own, pinned, foreign
  <2>7. QED
    BY <1>3, <2>2, <2>3, <2>4, <2>5, <2>6
<1>5. CASE r # None /\ v.revision <= r.baseRev
  <2>1. ~(v.revision > r.baseRev)
    BY <1>1, <1>5
  <2>2. s = r
    BY <1>5, <2>1 DEF Received
  <2> HIDE DEF s
  <2>3. QED
    BY <1>3, <2>2
<1>6. v.revision <= r.baseRev \/ v.revision > r.baseRev \/ r = None
  BY <1>1
<1> HIDE DEF s
<1>7. QED
  BY <1>2, <1>4, <1>5, <1>6

\* receive() of the conflicting documents, or of the list.
LEMMA ReceiveEntered ==
    ASSUME OneTabPerDevice, IInv, IInv', Built, NEW W, Entered(W), NEW t \in Tabs,
           ReceiveConflicts(t) \/ ReceiveList(t)
    PROVE  Entered(W)' /\ AckNeverRegressesStep
<1> DEFINE d == DeviceOf[t]
           rs == rows[d]
           reply == ctl[t].reply
           got(p) == CHOOSE x \in reply : x.id = p
           R == ReceivedRows(rs, reply)
           k1 == [ctl[t] EXCEPT !.pc = "send", !.batch = {}, !.reply = {}, !.changed = TRUE]
           k2 == [ctl[t] EXCEPT !.pc = IF ctl[t].first THEN "confirm" ELSE "idle", !.reply = {}]
<1>1. /\ UNCHANGED <<cloud, work, wire, now, hist>>
      /\ rows' = [rows EXCEPT ![d] = R]
      /\ ctl' = [ctl EXCEPT ![t] = k1] \/ ctl' = [ctl EXCEPT ![t] = k2]
  BY DEF ReceiveConflicts, ReceiveList, IInv, TypeOK
<1>2. /\ d \in Devices /\ ctl[t] \in Control /\ ControlKept(W, ctl[t]) /\ W \in Registers
  BY TabKnown DEF Entered
<1>3. /\ ControlKept(W, k1) /\ ~Flying(k1)
      /\ ControlKept(W, k2) /\ ~Flying(k2)
  <2>1. /\ k1.queue = ctl[t].queue /\ k1.batch = {} /\ k1.reply = {} /\ k1.pc = "send"
        /\ k2.queue = ctl[t].queue /\ k2.batch = ctl[t].batch /\ k2.reply = {}
        /\ k2.pc \in {"confirm", "idle"}
    BY <1>2 DEF Control
  <2> HIDE DEF k1, k2
  <2>2. QED
    BY <1>2, <2>1 DEF ControlKept, BatchKept, Flying
<1>4. ASSUME NEW p \in Projects
      PROVE  RowKept(W, p, R[p]) /\ Sourced(W, p, rs[p], R[p]) /\ Advances(rs[p], R[p])
  <2>1. CASE \E x \in reply : x.id = p
    <3>1. got(p) \in reply /\ got(p).id = p
      BY <2>1
    <3>2. R[p] = Received(p, rs[p], got(p).value, now)
      BY <2>1 DEF ReceivedRows
    <3>3. PICK v \in SyncProject : v = got(p).value /\ RemoteKept(W, p, v)
      <4>1. got(p).value \in SyncProject /\ RemoteKept(W, p, got(p).value)
        BY <1>2, <3>1, Holds DEF ControlKept
      <4>2. QED
        BY <4>1
    <3>4. R[p] = Received(p, rs[p], v, now)
      BY <3>2, <3>3
    <3>5. rs[p] \in Row \cup {None} /\ RowKept(W, p, rs[p]) /\ Fits(W, p)
      BY <1>2, Holds DEF Entered
    <3> HIDE DEF R, rs
    <3>6. LET s == Received(p, rs[p], v, now) IN
          RowKept(W, p, s) /\ Sourced(W, p, rs[p], s) /\ Advances(rs[p], s)
      BY <1>2, <3>3, <3>5, ReceivedKept
    <3>7. QED
      BY <3>4, <3>6
  <2>2. CASE ~\E x \in reply : x.id = p
    <3>1. R[p] = rs[p]
      BY <2>2 DEF ReceivedRows
    <3> HIDE DEF R
    <3>2. QED
      BY <3>1, RowStays
  <2>3. QED
    BY <2>1, <2>2
<1> HIDE DEF R, k1, k2
<1>5. QED
  BY <1>1, <1>3, <1>4, RunEntered

\* confirmImports() releases staged rows.
LEMMA ConfirmEntered ==
    ASSUME OneTabPerDevice, IInv, IInv', Built, NEW W, Entered(W), NEW t \in Tabs, ConfirmImports(t)
    PROVE  Entered(W)' /\ AckNeverRegressesStep
<1> DEFINE d == DeviceOf[t]
           rs == rows[d]
           R == [p \in Projects |->
                     IF rs[p] # None /\ rs[p].staged /\ ImportConfirmed(rs, p, d, now)
                     THEN [rs[p] EXCEPT !.staged = FALSE] ELSE rs[p]]
           k == [ctl[t] EXCEPT !.pc = "idle", !.first = FALSE]
<1>1. /\ UNCHANGED <<cloud, work, wire, now, hist>>
      /\ rows' = [rows EXCEPT ![d] = R]
      /\ ctl' = [ctl EXCEPT ![t] = k]
  BY DEF ConfirmImports, IInv, TypeOK
<1>2. /\ d \in Devices /\ ctl[t] \in Control /\ ControlKept(W, ctl[t])
  BY TabKnown DEF Entered
<1>3. ControlKept(W, k) /\ ~Flying(k)
  <2>1. k.queue = ctl[t].queue /\ k.batch = ctl[t].batch /\ k.reply = ctl[t].reply /\ k.pc = "idle"
    BY <1>2 DEF Control
  <2> HIDE DEF k
  <2>2. QED
    BY <1>2, <2>1 DEF ControlKept, Flying
<1>4. ASSUME NEW p \in Projects
      PROVE  RowKept(W, p, R[p]) /\ Sourced(W, p, rs[p], R[p]) /\ Advances(rs[p], R[p])
  <2>1. CASE R[p] = rs[p]
    <3> HIDE DEF R
    <3>1. QED
      BY <2>1, RowStays
  <2>2. CASE rs[p] # None /\ R[p] = [rs[p] EXCEPT !.staged = FALSE]
    <3> DEFINE r == rs[p]
               s == [r EXCEPT !.staged = FALSE]
    <3>1. r \in Row /\ RowKept(W, p, r) /\ r.baseRev \in Nat
      BY <1>2, <2>2, Holds, Fields DEF Entered
    <3>2. /\ s.base = r.base /\ s.baseRev = r.baseRev /\ s.value = r.value /\ s.dirty = r.dirty
          /\ s.conflict = r.conflict /\ s.sent = r.sent /\ s.staged = FALSE /\ s \in Row
      BY <3>1 DEF Row
    <3> HIDE DEF R, r, s
    <3>3. r # None /\ s # None
      BY <3>1, <3>2, Fields
    <3>4. RowConsistent(p, s)
      BY <3>1, <3>2, <3>3 DEF RowKept, RowConsistent
    <3>5. BaseKept(W, p, s.base, s.baseRev, s.sent, s.staged)
      BY <3>1, <3>2, <3>3 DEF RowKept, BaseKept
    <3>6. RowKept(W, p, s)
      BY <3>1, <3>2, <3>3, <3>4, <3>5 DEF RowKept, OfferedKept
    <3>7. Sourced(W, p, r, s) /\ Advances(r, s)
      BY <3>1, <3>2, <3>3 DEF Sourced, Advances
    <3>8. R[p] = s
      BY <2>2 DEF s, r
    <3>9. QED
      BY <3>6, <3>7, <3>8 DEF r
  <2>3. QED
    BY <2>1, <2>2
<1> HIDE DEF R, k
<1>5. QED
  BY <1>1, <1>3, <1>4, RunEntered

-----------------------------------------------------------------------------
(* The steps that leave the rows alone. *)

\* A step that leaves the rows, the versions and their numbers.
LEMMA QuietEntered ==
    ASSUME IInv, IInv', NEW W, Entered(W), NEW X \in Registers, X.num = W.num, X.clock = now',
           Onward(W, X), UNCHANGED <<rows, hist>>, \A p \in Projects : Fits(X, p)',
           \A t \in Tabs : LoadKept(X, work'[t]) /\ LoadBehind(t)',
           \A t \in Tabs : /\ ControlKept(X, ctl'[t])
                           /\ Flying(ctl'[t]) => Flying(ctl[t]) /\ ctl'[t].batch = ctl[t].batch,
           \A request \in wire' : \A w \in request : WriteKept(X, w)
    PROVE  Entered(X)' /\ AckNeverRegressesStep
<1>1. \A p \in Projects : \A v : Offered(X, p, v) <=> Offered(W, p, v)
  BY DEF Offered
<1>2. ASSUME NEW d \in Devices, NEW p \in Projects PROVE RowKept(X, p, rows'[d][p])
  <2>1. rows[d][p] \in Row \cup {None} /\ RowKept(W, p, rows[d][p]) /\ W \in Registers
    BY Holds DEF Entered
  <2>2. QED
    BY <1>1, <2>1, OnwardRow
<1>3. \A d, e \in Devices, p \in Projects : d # e => Private(X, p, rows'[d][p], rows'[e][p])
  BY <1>1 DEF Entered, Private
<1>4. ASSUME NEW t \in Tabs PROVE AllSettled(X, t)'
  <2>1. SUFFICES ASSUME Flying(ctl'[t]), NEW m \in ctl'[t].batch
                 PROVE  Settled(X, rows[DeviceOf[t]][m.id], m)
    BY DEF AllSettled
  <2>2. Settled(W, rows[DeviceOf[t]][m.id], m) /\ m.id \in Projects
    BY <2>1, Holds, Fields DEF Entered, AllSettled
  <2>3. QED
    BY <1>1, <2>2 DEF Settled
<1>5. AckNeverRegressesStep
  <2> SUFFICES ASSUME NEW d \in Devices, NEW p \in Projects, rows[d][p] # None
               PROVE  ~(rows[d][p].baseRev < rows[d][p].baseRev)
    BY DEF AckNeverRegressesStep
  <2>1. rows[d][p].baseRev \in Nat
    BY Holds, Fields
  <2>2. QED
    BY <2>1
<1>6. QED
  BY <1>2, <1>3, <1>4, <1>5 DEF Entered

\* A step that leaves the register and the documents as well.
LEMMA StillEntered ==
    ASSUME IInv, IInv', NEW W, Entered(W), UNCHANGED <<cloud, rows, hist, now>>,
           \A t \in Tabs : LoadKept(W, work'[t]) /\ LoadBehind(t)',
           \A t \in Tabs : /\ ControlKept(W, ctl'[t])
                           /\ Flying(ctl'[t]) => Flying(ctl[t]) /\ ctl'[t].batch = ctl[t].batch,
           \A request \in wire' : \A w \in request : WriteKept(W, w)
    PROVE  Entered(W)' /\ AckNeverRegressesStep
<1>1. W \in Registers /\ W.clock = now' /\ Onward(W, W)
  BY DEF Entered, Onward, Registers
<1>2. \A p \in Projects : Fits(W, p)'
  BY DEF Entered, Fits, Top
<1>3. QED
  BY <1>1, <1>2, QuietEntered

\* The loaded rows of a step that leaves them.
LEMMA LoadStays ==
    ASSUME IInv, NEW W, Entered(W), NEW X \in Registers, Onward(W, X), UNCHANGED <<rows, work>>
    PROVE  \A t \in Tabs : LoadKept(X, work'[t]) /\ LoadBehind(t)'
<1> SUFFICES ASSUME NEW t \in Tabs PROVE LoadKept(X, work'[t]) /\ LoadBehind(t)'
  OBVIOUS
<1>1. work[t] \in Loaded \cup {None} /\ LoadKept(W, work[t]) /\ LoadBehind(t) /\ W \in Registers
  BY Holds DEF Entered
<1>2. LoadKept(X, work[t])
  BY <1>1, OnwardLoad
<1>3. QED
  BY <1>1, <1>2 DEF LoadBehind

\* The requests of a step that adds none.
LEMMA WireStays ==
    ASSUME IInv, NEW W, Entered(W), NEW X \in Registers, Onward(W, X), wire' \subseteq wire
    PROVE  \A request \in wire' : \A w \in request : WriteKept(X, w)
<1> SUFFICES ASSUME NEW request \in wire, NEW w \in request PROVE WriteKept(X, w)
  OBVIOUS
<1>1. w.id \in Projects /\ w.doc \in SyncProject \cup {None} /\ WriteKept(W, w) /\ W \in Registers
  BY Holds DEF Entered
<1>2. QED
  BY <1>1, OnwardWrite

\* A controller that only invalidates its list stays kept.
LEMMA ControlStays ==
    ASSUME IInv, NEW W, Entered(W), NEW X \in Registers, Onward(W, X), NEW t \in Tabs, NEW k,
           k.queue = ctl[t].queue, k.batch = ctl[t].batch, k.reply = ctl[t].reply,
           k.pc = "committed" => ctl[t].pc = "committed"
    PROVE  ControlKept(X, k)
<1>1. ctl[t] \in Control /\ ControlKept(W, ctl[t]) /\ W \in Registers
  BY Holds DEF Entered
<1>2. ControlKept(X, ctl[t])
  BY <1>1, OnwardControl
<1>3. QED
  BY <1>2 DEF ControlKept

-----------------------------------------------------------------------------
(* A committed transaction. *)

\* Project p is written by a request.
Written(request, p) == \E w \in request : w.id = p /\ w.doc # None

\* The register that enters the documents D.
Extended(W, request, D) ==
    [W EXCEPT !.com = [p \in Projects |-> [n \in Nat |->
        IF Written(request, p) /\ n = D[p].revision THEN D[p].version ELSE W.com[p][n]]]]

\* What the Rules let through is the next revision, numbered as it was offered.
LEMMA WrittenNext ==
    ASSUME IInv, NEW W, Entered(W), NEW request, request \subseteq WriteAt(hist),
           \A w \in request : WriteKept(W, w), Applies(cloud, request, now),
           NEW p \in Projects, Written(request, p)
    PROVE  LET doc == Apply(cloud, request)[p] IN
           /\ doc \in SyncProject /\ doc # None
           /\ doc.revision = Top(p) + 1 /\ Top(p) \in Nat
           /\ Numbered(W, p, doc.version, doc.revision) /\ Dated(W, doc)
<1> DEFINE w0 == CHOOSE w \in request : w.id = p /\ w.doc # None
           doc == Apply(cloud, request)[p]
<1>1. w0 \in request /\ w0.id = p /\ w0.doc # None
  BY DEF Written
<1>2. doc = w0.doc
  BY DEF Apply, Written
<1> HIDE DEF w0, doc
<1>3. doc \in SyncProject /\ doc # None
  BY <1>1, <1>2 DEF WriteAt
<1>4. Numbered(W, p, doc.version, doc.revision)
  BY <1>1, <1>2, <1>3 DEF WriteKept
<1>5. IF cloud[p] = None THEN RulesCreate(doc, w0.base, now) ELSE RulesUpdate(cloud[p], doc, w0.base, now)
  BY <1>1, <1>2 DEF Applies, RulesAllow
<1>6. RulesValid(doc, now) /\ W.clock = now
  BY <1>5 DEF RulesCreate, RulesUpdate, Entered
<1>7. Dated(W, doc)
  BY <1>6 DEF RulesValid, Dated
<1>8. Top(p) \in Nat
  BY Holds, Fields DEF Top
<1>9. doc.revision = Top(p) + 1
  BY <1>5, <1>8 DEF RulesCreate, RulesUpdate, Top
<1>10. QED
  BY <1>3, <1>4, <1>7, <1>8, <1>9 DEF doc

\* A transaction that the server applies extends the register.
LEMMA AppliedKept ==
    ASSUME IInv, NEW W, Entered(W), NEW request, request \subseteq WriteAt(hist),
           \A w \in request : WriteKept(W, w), Applies(cloud, request, now),
           cloud' = Apply(cloud, request), UNCHANGED <<hist, now>>
    PROVE  \E X \in Registers : /\ X.num = W.num /\ X.clock = now' /\ Onward(W, X)
                                /\ \A p \in Projects : Fits(X, p)'
<1> DEFINE D == Apply(cloud, request)
           com == [p \in Projects |-> [n \in Nat |->
               IF Written(request, p) /\ n = D[p].revision THEN D[p].version ELSE W.com[p][n]]]
           Y == Extended(W, request, D)
<1>1. W \in Registers /\ W.clock = now /\ \A p \in Projects : Fits(W, p)
  BY DEF Entered
<1>2. \A p \in Projects : Written(request, p) =>
          /\ D[p] \in SyncProject /\ D[p] # None
          /\ D[p].revision = Top(p) + 1 /\ Top(p) \in Nat
          /\ Numbered(W, p, D[p].version, D[p].revision) /\ Dated(W, D[p])
  BY WrittenNext
<1>3. \A p \in Projects : ~Written(request, p) => D[p] = cloud[p]
  BY DEF Apply, Written
<1> HIDE DEF D
<1>4. \A p \in Projects : Written(request, p) =>
          D[p].version \in Nat \ {0} /\ D[p].revision \in Nat \ {0}
  BY <1>2, Fields
<1>5. Y.num = W.num /\ Y.clock = W.clock /\ Y.com = com
  BY <1>1 DEF Extended, Registers
<1>6. Y \in Registers
  <2>1. com \in [Projects -> [Nat -> Nat]]
    BY <1>1, <1>4 DEF Registers
  <2> HIDE DEF com
  <2>2. Y = [W EXCEPT !.com = com]
    BY DEF Extended, com
  <2>3. QED
    BY <1>1, <2>1, <2>2 DEF Registers
<1>7. \A p \in Projects : \A n \in Nat :
          Y.com[p][n] = IF Written(request, p) /\ n = D[p].revision THEN D[p].version ELSE W.com[p][n]
  BY <1>5
<1> HIDE DEF Y, com
<1>8. Onward(W, Y)
  <2>1. ASSUME NEW p \in Projects, NEW n \in Nat, W.com[p][n] # 0 PROVE Y.com[p][n] = W.com[p][n]
    <3>1. n \in 1..Top(p)
      BY <1>1, <2>1 DEF Fits
    <3>2. ~(Written(request, p) /\ n = D[p].revision)
      BY <1>2, <3>1
    <3>3. QED
      BY <1>7, <3>2
  <2>2. W.clock <= Y.clock
    BY <1>1, <1>5 DEF Registers
  <2>3. QED
    BY <1>5, <2>1, <2>2 DEF Onward
<1>9. PICK X \in Registers :
          /\ X.num = W.num /\ X.clock = now /\ Onward(W, X)
          /\ \A p \in Projects : \A n \in Nat :
                 X.com[p][n] = IF Written(request, p) /\ n = D[p].revision
                               THEN D[p].version ELSE W.com[p][n]
  BY <1>1, <1>5, <1>6, <1>7, <1>8
<1>10. ASSUME NEW p \in Projects PROVE Fits(X, p)'
  <2>1. Fits(W, p) /\ cloud'[p] = D[p]
    BY <1>1 DEF D
  <2>2. \A v \in Nat : Offered(X, p, v) => v \in 1..Len(hist'[p])
    BY <1>9, <2>1 DEF Fits, Offered
  <2>3. CASE ~Written(request, p)
    <3>1. \A n \in Nat : X.com[p][n] = W.com[p][n]
      BY <1>9, <2>3
    <3>2. cloud'[p] = cloud[p]
      BY <1>3, <2>1, <2>3
    <3>3. cloud[p] # None => RemoteKept(X, p, cloud[p])
      BY <1>1, <1>9, <2>1, Holds, OnwardKeeps DEF Fits
    <3>4. QED
      BY <1>9, <2>1, <2>2, <3>1, <3>2, <3>3 DEF Fits, Top
  <2>4. CASE Written(request, p)
    <3> DEFINE top == Top(p)
    <3>1. /\ D[p] \in SyncProject /\ D[p] # None /\ D[p].revision = top + 1 /\ top \in Nat
          /\ Numbered(W, p, D[p].version, D[p].revision) /\ Dated(W, D[p])
          /\ D[p].version \in Nat \ {0}
      BY <1>2, <1>4, <2>4
    <3>2. /\ \A n \in Nat : W.com[p][n] # 0 <=> n \in 1..top
          /\ \A n \in Nat : W.com[p][n] # 0 => W.num[p][W.com[p][n]] = n
      BY <2>1 DEF Fits
    <3>3. Top(p)' = top + 1
      BY <2>1, <3>1 DEF Top
    <3> HIDE DEF top
    <3>4. \A n \in Nat : X.com[p][n] = IF n = top + 1 THEN D[p].version ELSE W.com[p][n]
      BY <1>9, <2>4, <3>1
    <3>5. \A n \in Nat : X.com[p][n] # 0 <=> n \in 1..(top + 1)
      BY <3>1, <3>2, <3>4
    <3>6. \A n \in Nat : X.com[p][n] # 0 => X.num[p][X.com[p][n]] = n
      BY <1>9, <3>1, <3>2, <3>4 DEF Numbered
    <3>7. RemoteKept(X, p, D[p])
      <4>1. X.com[p][top + 1] = D[p].version
        BY <3>1, <3>4
      <4>2. Acked(X, p, D[p].version, D[p].revision)
        BY <3>1, <4>1 DEF Acked
      <4>3. Dated(X, D[p])
        BY <1>1, <1>9, <3>1 DEF Dated
      <4>4. QED
        BY <4>2, <4>3 DEF RemoteKept
    <3>8. QED
      BY <2>1, <2>2, <3>3, <3>5, <3>6, <3>7 DEF Fits
  <2>5. QED
    BY <2>3, <2>4
<1>11. QED
  BY <1>9, <1>10

\* A request writes what its batch offers.
LEMMA RequestKept ==
    ASSUME NEW W, NEW docs, NEW batch, NEW clock, batch \subseteq SyncMutation,
           \A m \in batch : OfferKept(W, m)
    PROVE  \A w \in Request(docs, batch, clock) : WriteKept(W, w)
<1> SUFFICES ASSUME NEW m \in batch
             PROVE  WriteKept(W, [id   |-> m.id,
                                  base |-> m.expected,
                                  read |-> VersionOf(docs[m.id]),
                                  doc  |-> IF Replayed(docs, m) THEN None ELSE Stored(m, clock)])
  BY DEF Request
<1>1. m.value \in SyncProject
  BY DEF SyncMutation
<1>2. Stored(m, clock).version = m.value.version /\ Stored(m, clock).revision = m.value.revision
  BY <1>1 DEF Stored, SyncProject
<1>3. QED
  BY <1>2 DEF WriteKept, OfferKept

\* The request of a tab.
LEMMA TabRequest ==
    ASSUME IInv, NEW W, Entered(W), NEW t \in Tabs
    PROVE  LET request == Request(cloud, ctl[t].batch, now) IN
           request \subseteq WriteAt(hist) /\ \A w \in request : WriteKept(W, w)
<1>1. /\ ctl[t].batch \in SUBSET MutationAt(hist) /\ ctl[t].batch \subseteq SyncMutation
      /\ \A m \in ctl[t].batch : OfferKept(W, m)
  BY DEF IInv, Known, KnownCtl, ControlAt, MutationAt, Entered, ControlKept, BatchKept
<1>2. hist \in HistType /\ now \in Nat /\ \A p \in Projects : cloud[p] \in ValueAt(hist, p) \cup {None}
  BY TabKnown DEF IInv, TypeOK, HistType
<1>3. QED
  BY <1>1, <1>2, RequestKnown, RequestKept

\* What an applied group wrote is committed.
LEMMA BatchCommitted ==
    ASSUME IInv, NEW W, Entered(W), NEW batch, batch \subseteq SyncMutation, BatchKept(W, batch),
           cloud' = Apply(cloud, Request(cloud, batch, now)), NEW X \in Registers, Onward(W, X),
           \A p \in Projects : Fits(X, p)', NEW m \in batch
    PROVE  Acked(X, m.id, m.value.version, m.value.revision)
<1> DEFINE p == m.id
           request == Request(cloud, batch, now)
<1>1. /\ m \in SyncMutation /\ p \in Projects /\ m.value \in SyncProject
      /\ m.value.version \in Nat \ {0} /\ m.value.revision \in Nat
      /\ OfferKept(W, m) /\ W \in Registers /\ Fits(W, p)
      /\ Numbered(W, p, m.value.version, m.value.revision)
  BY Fields DEF BatchKept, Entered, OfferKept
<1>2. CASE Replayed(cloud, m)
  <2>1. cloud[p] # None /\ cloud[p].version = m.value.version
    BY <1>1, <1>2 DEF Replayed, VersionOf
  <2>2. cloud[p].version \in Nat /\ cloud[p].revision \in Nat
    BY <1>1, <2>1, Holds, Fields
  <2>3. Acked(W, p, cloud[p].version, cloud[p].revision)
    BY <1>1, <2>1 DEF Fits, RemoteKept
  <2>4. Numbered(W, p, cloud[p].version, cloud[p].revision)
    BY <1>1, <2>1, <2>2, <2>3, AckedOnce
  <2>5. cloud[p].revision = m.value.revision
    BY <1>1, <2>1, <2>4 DEF Numbered
  <2>6. Acked(W, p, m.value.version, m.value.revision)
    BY <2>1, <2>3, <2>5
  <2>7. QED
    BY <1>1, <2>6, OnwardKeeps
<1>3. CASE ~Replayed(cloud, m)
  <2>1. \E w \in request : w.id = p /\ w.doc # None
    <3>1. [id |-> m.id, base |-> m.expected, read |-> VersionOf(cloud[m.id]),
           doc |-> IF Replayed(cloud, m) THEN None ELSE Stored(m, now)] \in request
      BY DEF Request
    <3>2. Stored(m, now) # None
      <4>1. Stored(m, now) \in SyncProject
        <5>1. DeletionState(m.value, now) \in DeletionStates
          BY <1>1 DEF DeletionState, DeletionStates, SyncProject
        <5>2. QED
          BY <1>1, <5>1 DEF Stored, SyncProject
      <4>2. QED
        BY <4>1, Fields
    <3>3. QED
      BY <1>3, <3>1, <3>2
  <2>2. PICK w \in request : w.id = p /\ w.doc # None /\ cloud'[p] = w.doc
    <3> HIDE DEF request
    <3>1. cloud' = Apply(cloud, request)
      BY DEF request
    <3>2. QED
      BY <1>1, <2>1, <3>1 DEF Apply
  <2>3. PICK n \in batch : n.id = p /\ w.doc = Stored(n, now)
    BY <2>2 DEF Request
  <2>4. n = m
    BY <2>3 DEF BatchKept
  <2>5. cloud'[p] = Stored(m, now) /\ cloud'[p] # None
    BY <2>2, <2>3, <2>4
  <2>6. Stored(m, now).version = m.value.version /\ Stored(m, now).revision = m.value.revision
    BY <1>1 DEF Stored, SyncProject
  <2>7. RemoteKept(X, p, cloud'[p])
    BY <1>1, <2>5 DEF Fits
  <2>8. QED
    BY <2>5, <2>6, <2>7 DEF RemoteKept
<1>4. QED
  BY <1>2, <1>3

\* commit(): what the server applies is entered in the register.
LEMMA CommitEntered ==
    ASSUME OneTabPerDevice, IInv, IInv', Built, NEW W, Entered(W), NEW t \in Tabs, Commit(t)
    PROVE  (\E X : Entered(X)') /\ AckNeverRegressesStep
<1> DEFINE batch == ctl[t].batch
           request == Request(cloud, batch, now)
           reply == {[id |-> m.id, value |-> cloud[m.id]] : m \in Clashing(batch)}
           k1 == Abandoned(ctl[t])
           k2 == [ctl[t] EXCEPT !.pc = "conflicted", !.reply = reply]
<1>1. /\ UNCHANGED <<rows, work, wire, now, hist>>
      /\ \/ UNCHANGED cloud /\ ctl' = [ctl EXCEPT ![t] = k1]
         \/ /\ UNCHANGED cloud /\ ctl' = [ctl EXCEPT ![t] = k2]
            /\ \A m \in Clashing(batch) : cloud[m.id] # None
         \/ /\ Applies(cloud, request, now)
            /\ cloud' = Apply(cloud, request)
            /\ ctl' = [Invalidated EXCEPT ![t].pc = "committed"]
  BY DEF Commit, IInv, TypeOK
<1>2. /\ W \in Registers /\ W.clock = now /\ Onward(W, W)
      /\ \A u \in Tabs : ctl[u] \in Control /\ ControlKept(W, ctl[u])
      /\ batch \subseteq SyncMutation /\ BatchKept(W, batch)
      /\ ctl[t].pc = "commit"
  BY Holds DEF Entered, Onward, Registers, Commit, ControlKept
<1>3. CASE \/ UNCHANGED cloud /\ ctl' = [ctl EXCEPT ![t] = k1]
           \/ /\ UNCHANGED cloud /\ ctl' = [ctl EXCEPT ![t] = k2]
              /\ \A m \in Clashing(batch) : cloud[m.id] # None
  <2>1. ControlKept(W, k1) /\ ~Flying(k1)
    <3>1. k1.queue = {} /\ k1.batch = {} /\ k1.reply = {} /\ k1.pc = "idle"
      BY <1>2 DEF Abandoned, Control
    <3> HIDE DEF k1
    <3>2. QED
      BY <3>1 DEF ControlKept, BatchKept, Flying
  <2>2. ASSUME \A m \in Clashing(batch) : cloud[m.id] # None PROVE ControlKept(W, k2) /\ ~Flying(k2)
    <3>1. k2.queue = ctl[t].queue /\ k2.batch = batch /\ k2.reply = reply /\ k2.pc = "conflicted"
      BY <1>2 DEF Control
    <3>2. ASSUME NEW x \in reply PROVE RemoteKept(W, x.id, x.value)
      <4>1. PICK m \in Clashing(batch) : x = [id |-> m.id, value |-> cloud[m.id]]
        BY <3>2
      <4>2. m.id \in Projects /\ cloud[m.id] # None
        BY <1>2, <2>2, <4>1, Fields DEF Clashing
      <4>3. RemoteKept(W, m.id, cloud[m.id])
        BY <4>2 DEF Entered, Fits
      <4>4. QED
        BY <4>1, <4>3
    <3> HIDE DEF k2, reply
    <3>3. QED
      BY <1>2, <3>1, <3>2 DEF ControlKept, Flying
  <2> HIDE DEF k1, k2
  <2>3. \A u \in Tabs : /\ ControlKept(W, ctl'[u])
                        /\ Flying(ctl'[u]) => Flying(ctl[u]) /\ ctl'[u].batch = ctl[u].batch
    BY <1>2, <1>3, <2>1, <2>2 DEF IInv, TypeOK
  <2>4. \A u \in Tabs : LoadKept(W, work'[u]) /\ LoadBehind(u)'
    BY <1>1, <1>2, LoadStays
  <2>5. \A q \in wire' : \A w \in q : WriteKept(W, w)
    BY <1>1, <1>2, WireStays
  <2>6. UNCHANGED <<cloud, rows, hist, now>>
    BY <1>1, <1>3
  <2>7. QED
    BY <2>3, <2>4, <2>5, <2>6, StillEntered
<1>4. CASE /\ Applies(cloud, request, now)
           /\ cloud' = Apply(cloud, request)
           /\ ctl' = [Invalidated EXCEPT ![t].pc = "committed"]
  <2>1. request \subseteq WriteAt(hist) /\ \A w \in request : WriteKept(W, w)
    BY TabRequest
  <2>2. PICK X \in Registers : /\ X.num = W.num /\ X.clock = now' /\ Onward(W, X)
                               /\ \A p \in Projects : Fits(X, p)'
    <3> HIDE DEF request
    <3>1. QED
      BY <1>1, <1>4, <2>1, AppliedKept
  <2>3. \A m \in batch : Acked(X, m.id, m.value.version, m.value.revision)
    BY <1>2, <1>4, <2>2, BatchCommitted
  <2>4. ASSUME NEW u \in Tabs
        PROVE  /\ ctl'[u].queue = ctl[u].queue /\ ctl'[u].batch = ctl[u].batch
               /\ ctl'[u].reply = ctl[u].reply
               /\ ctl'[u].pc = IF u = t THEN "committed" ELSE ctl[u].pc
    BY <1>2, <1>4 DEF Invalidated, Control
  <2>5. ASSUME NEW u \in Tabs PROVE ControlKept(X, ctl'[u])
    <3>1. CASE u = t
      <4>1. ControlKept(X, ctl[t])
        BY <1>2, <2>2, OnwardControl
      <4>2. QED
        BY <2>3, <2>4, <3>1, <4>1 DEF ControlKept
    <3>2. CASE u # t
      <4>1. ctl'[u].pc = ctl[u].pc
        BY <2>4, <3>2
      <4>2. QED
        BY <2>2, <2>4, <4>1, ControlStays
    <3>3. QED
      BY <3>1, <3>2
  <2>6. \A u \in Tabs : Flying(ctl'[u]) => Flying(ctl[u]) /\ ctl'[u].batch = ctl[u].batch
    BY <1>2, <2>4 DEF Flying
  <2>7. \A u \in Tabs : LoadKept(X, work'[u]) /\ LoadBehind(u)'
    BY <1>1, <2>2, LoadStays
  <2>8. \A q \in wire' : \A w \in q : WriteKept(X, w)
    BY <1>1, <2>2, WireStays
  <2>9. UNCHANGED <<rows, hist>>
    BY <1>1
  <2>10. QED
    BY <2>2, <2>5, <2>6, <2>7, <2>8, <2>9, QuietEntered
<1>5. QED
  BY <1>1, <1>3, <1>4

\* list() reads the documents, or is skipped.
LEMMA ListEntered ==
    ASSUME OneTabPerDevice, IInv, IInv', Built, NEW W, Entered(W), NEW t \in Tabs,
           ListRemote(t) \/ SkipList(t)
    PROVE  Entered(W)' /\ AckNeverRegressesStep
<1> DEFINE k1 == [ctl[t] EXCEPT !.pc = "listed", !.changed = FALSE, !.reply = Documents]
           k2 == [ctl[t] EXCEPT !.pc = IF ctl[t].first THEN "confirm" ELSE "idle"]
<1>1. /\ UNCHANGED <<cloud, rows, work, wire, now, hist>>
      /\ ctl' = [ctl EXCEPT ![t] = k1] \/ ctl' = [ctl EXCEPT ![t] = k2]
  BY DEF ListRemote, SkipList, IInv, TypeOK
<1>2. /\ W \in Registers /\ Onward(W, W)
      /\ \A u \in Tabs : ctl[u] \in Control /\ ControlKept(W, ctl[u])
  BY Holds DEF Entered, Onward, Registers
<1>3. ControlKept(W, k1) /\ ~Flying(k1)
  <2>1. k1.queue = ctl[t].queue /\ k1.batch = ctl[t].batch /\ k1.reply = Documents /\ k1.pc = "listed"
    BY <1>2 DEF Control
  <2>2. ASSUME NEW x \in Documents PROVE RemoteKept(W, x.id, x.value)
    <3>1. PICK p \in Projects : cloud[p] # None /\ x = [id |-> p, value |-> cloud[p]]
      BY <2>2 DEF Documents
    <3>2. RemoteKept(W, p, cloud[p])
      BY <3>1 DEF Entered, Fits
    <3>3. QED
      BY <3>1, <3>2
  <2> HIDE DEF k1
  <2>3. QED
    BY <1>2, <2>1, <2>2 DEF ControlKept, Flying
<1>4. ControlKept(W, k2) /\ ~Flying(k2)
  <2>1. /\ k2.queue = ctl[t].queue /\ k2.batch = ctl[t].batch /\ k2.reply = ctl[t].reply
        /\ k2.pc \in {"confirm", "idle"}
    BY <1>2 DEF Control
  <2> HIDE DEF k2
  <2>2. QED
    BY <1>2, <2>1 DEF ControlKept, Flying
<1> HIDE DEF k1, k2
<1>5. \A u \in Tabs : /\ ControlKept(W, ctl'[u])
                      /\ Flying(ctl'[u]) => Flying(ctl[u]) /\ ctl'[u].batch = ctl[u].batch
  BY <1>1, <1>2, <1>3, <1>4 DEF IInv, TypeOK
<1>6. \A u \in Tabs : LoadKept(W, work'[u]) /\ LoadBehind(u)'
  BY <1>1, <1>2, LoadStays
<1>7. \A q \in wire' : \A w \in q : WriteKept(W, w)
  BY <1>1, <1>2, WireStays
<1>8. QED
  BY <1>1, <1>5, <1>6, <1>7, StillEntered

\* A run that rejects, or a tab that is reloaded.
LEMMA FaultEntered ==
    ASSUME OneTabPerDevice, IInv, IInv', Built, NEW W, Entered(W), NEW t \in Tabs,
           Fail(t) \/ Reload(t)
    PROVE  Entered(W)' /\ AckNeverRegressesStep
<1> DEFINE k1 == [Abandoned(ctl[t]) EXCEPT !.changed = ctl[t].changed \/ ctl[t].pc = "listed"]
<1>1. /\ UNCHANGED <<cloud, rows, now, hist>>
      /\ wire' = Orphaned(t)
      /\ ctl' = [ctl EXCEPT ![t] = k1] \/ ctl' = [ctl EXCEPT ![t] = Idle]
  BY DEF Fail, Reload
<1>2. \A u \in Tabs : ctl[u] \in Control /\ ControlKept(W, ctl[u])
  BY Holds DEF Entered
<1>3. /\ k1.queue = {} /\ k1.batch = {} /\ k1.reply = {} /\ k1.pc = "idle"
      /\ Idle.queue = {} /\ Idle.batch = {} /\ Idle.reply = {} /\ Idle.pc = "idle"
  BY <1>2 DEF Control, Abandoned, Idle
<1> HIDE DEF k1
<1>4. ControlKept(W, k1) /\ ~Flying(k1) /\ ControlKept(W, Idle) /\ ~Flying(Idle)
  BY <1>3 DEF ControlKept, BatchKept, Flying
<1>5. \A u \in Tabs : /\ ControlKept(W, ctl'[u])
                      /\ Flying(ctl'[u]) => Flying(ctl[u]) /\ ctl'[u].batch = ctl[u].batch
  BY <1>1, <1>2, <1>4 DEF IInv, TypeOK
<1>6. ASSUME NEW q \in wire', NEW w \in q PROVE WriteKept(W, w)
  <2>1. q \in wire \/ q = Request(cloud, ctl[t].batch, now)
    BY <1>1, <1>6 DEF Orphaned
  <2>2. QED
    BY <1>6, <2>1, TabRequest DEF Entered
<1>7. ASSUME NEW u \in Tabs PROVE LoadKept(W, work'[u]) /\ LoadBehind(u)'
  <2>1. CASE work'[u] = work[u]
    BY <1>1, <2>1 DEF Entered, LoadBehind
  <2>2. CASE work'[u] # work[u]
    <3> DEFINE l == work[t]
               r == rows[DeviceOf[t]][l.id]
    <3>1. u = t /\ l # None /\ work'[t] = Recovered(DeviceOf[t], l)
      BY <2>2 DEF Fail, Reload, IInv, TypeOK
    <3>2. /\ l \in Loaded /\ l.id \in Projects /\ DeviceOf[t] \in Devices
          /\ LoadKept(W, l) /\ LoadBehind(t)
          /\ RowKept(W, l.id, r) /\ (r # None => r.baseRev \in Nat)
      <4>1. l \in Loaded /\ l.id \in Projects /\ DeviceOf[t] \in Devices
        BY <3>1, Holds, Fields
      <4>2. QED
        BY <4>1, Holds, Fields DEF Entered
    <3>3. CASE Active(r, now) /\ r.value.token = l.token
      <4>1. work'[t] = Capture(l.id, r) /\ r # None
        BY <3>1, <3>3 DEF Recovered, Active
      <4>2. /\ LoadKept(W, work'[t])
            /\ work'[t].id = l.id /\ work'[t].baseRev = r.baseRev
        BY <3>2, <4>1, CaptureKept
      <4>3. LoadBehind(t)'
        BY <1>1, <3>2, <4>1, <4>2 DEF LoadBehind, Behind
      <4>4. QED
        BY <3>1, <4>2, <4>3
    <3>4. CASE ~(Active(r, now) /\ r.value.token = l.token)
      <4> DEFINE s == [l EXCEPT !.sent = None, !.staged = FALSE]
      <4>1. work'[t] = s
        BY <3>1, <3>4 DEF Recovered
      <4>2. /\ s.id = l.id /\ s.base = l.base /\ s.baseRev = l.baseRev
            /\ s.sent = None /\ s.staged = FALSE
        BY <3>2 DEF Loaded
      <4> HIDE DEF s
      <4>3. LoadKept(W, s)
        BY <3>1, <3>2, <4>2 DEF LoadKept, BaseKept
      <4>4. LoadBehind(t)'
        BY <1>1, <3>1, <3>2, <4>1, <4>2 DEF LoadBehind, Behind
      <4>5. QED
        BY <3>1, <4>1, <4>3, <4>4
    <3>5. QED
      BY <3>3, <3>4
  <2>3. QED
    BY <2>1, <2>2
<1>8. QED
  BY <1>1, <1>5, <1>6, <1>7, StillEntered

\* A late request is applied, or rejected.
LEMMA DeliverEntered ==
    ASSUME IInv, IInv', NEW W, Entered(W), Deliver
    PROVE  (\E X : Entered(X)') /\ AckNeverRegressesStep
<1>1. PICK request \in wire :
          /\ wire' \subseteq wire
          /\ IF Applies(cloud, request, now)
             THEN cloud' = Apply(cloud, request) /\ ctl' = Invalidated
             ELSE UNCHANGED <<cloud, ctl>>
          /\ UNCHANGED <<rows, work, now, hist>>
  BY DEF Deliver
<1>2. /\ W \in Registers /\ W.clock = now /\ Onward(W, W) /\ \A p \in Projects : Fits(W, p)
      /\ \A u \in Tabs : ctl[u] \in Control /\ ControlKept(W, ctl[u])
  BY Holds DEF Entered, Onward, Registers
<1>3. PICK X \in Registers : /\ X.num = W.num /\ X.clock = now' /\ Onward(W, X)
                             /\ \A p \in Projects : Fits(X, p)'
  <2>1. CASE Applies(cloud, request, now)
    <3>1. request \subseteq WriteAt(hist) /\ \A w \in request : WriteKept(W, w)
      BY DEF IInv, Known, KnownWire, Entered
    <3>2. QED
      BY <1>1, <2>1, <3>1, AppliedKept
  <2>2. CASE ~Applies(cloud, request, now)
    <3>1. \A p \in Projects : Fits(W, p)'
      BY <1>1, <1>2, <2>2 DEF Fits, Top
    <3>2. W.clock = now'
      BY <1>1, <1>2
    <3>3. QED
      BY <1>2, <3>1, <3>2
  <2>3. QED
    BY <2>1, <2>2
<1>4. ASSUME NEW u \in Tabs
      PROVE  /\ ctl'[u].queue = ctl[u].queue /\ ctl'[u].batch = ctl[u].batch
             /\ ctl'[u].reply = ctl[u].reply /\ ctl'[u].pc = ctl[u].pc
  BY <1>1, <1>2 DEF Invalidated, Control
<1>5. \A u \in Tabs : ControlKept(X, ctl'[u])
  BY <1>3, <1>4, ControlStays
<1>6. \A u \in Tabs : Flying(ctl'[u]) => Flying(ctl[u]) /\ ctl'[u].batch = ctl[u].batch
  BY <1>4 DEF Flying
<1>7. \A u \in Tabs : LoadKept(X, work'[u]) /\ LoadBehind(u)'
  BY <1>1, <1>3, LoadStays
<1>8. \A q \in wire' : \A w \in q : WriteKept(X, w)
  BY <1>1, <1>3, WireStays
<1>9. UNCHANGED <<rows, hist>>
  BY <1>1
<1>10. QED
  BY <1>3, <1>5, <1>6, <1>7, <1>8, <1>9, QuietEntered

\* The clock, and no step.
LEMMA TickEntered ==
    ASSUME IInv, IInv', NEW W, Entered(W), Tick \/ UNCHANGED vars
    PROVE  (\E X : Entered(X)') /\ AckNeverRegressesStep
<1>1. UNCHANGED <<cloud, rows, work, ctl, wire, hist>> /\ now \in Nat /\ now' \in Nat /\ now <= now'
  BY Holds DEF Tick, vars
<1>2. W \in Registers /\ W.clock = now /\ \A p \in Projects : Fits(W, p)
  BY DEF Entered
<1>3. PICK X \in Registers : X.num = W.num /\ X.com = W.com /\ X.clock = now' /\ Onward(W, X)
  <2> DEFINE Y == [W EXCEPT !.clock = now']
  <2>1. Y \in Registers /\ Y.num = W.num /\ Y.com = W.com /\ Y.clock = now'
    BY <1>1, <1>2 DEF Registers
  <2> HIDE DEF Y
  <2>2. Onward(W, Y)
    BY <1>1, <1>2, <2>1 DEF Onward
  <2>3. QED
    BY <2>1, <2>2
<1>4. ASSUME NEW p \in Projects PROVE Fits(X, p)'
  <2>1. cloud[p] # None => RemoteKept(X, p, cloud[p])
    BY <1>2, <1>3, Holds, OnwardKeeps DEF Fits
  <2>2. QED
    BY <1>1, <1>2, <1>3, <2>1 DEF Fits, Offered, Top
<1>5. \A u \in Tabs : ControlKept(X, ctl'[u])
  <2>1. \A u \in Tabs : ControlKept(X, ctl[u])
    BY <1>3, ControlStays
  <2>2. QED
    BY <1>1, <2>1
<1>6. \A u \in Tabs : Flying(ctl'[u]) => Flying(ctl[u]) /\ ctl'[u].batch = ctl[u].batch
  BY <1>1
<1>7. \A u \in Tabs : LoadKept(X, work'[u]) /\ LoadBehind(u)'
  BY <1>1, <1>3, LoadStays
<1>8. \A q \in wire' : \A w \in q : WriteKept(X, w)
  BY <1>1, <1>3, WireStays
<1>9. UNCHANGED <<rows, hist>>
  BY <1>1
<1>10. QED
  BY <1>3, <1>4, <1>5, <1>6, <1>7, <1>8, <1>9, QuietEntered

-----------------------------------------------------------------------------
(* A register fits every state that is reached. *)

Registered == \E W : Entered(W)

\* At first only the seeded documents are entered.
LEMMA InitEntered == Init => Registered
<1> SUFFICES ASSUME Init PROVE Registered
  OBVIOUS
<1> DEFINE f == [p \in Projects |-> [n \in Nat |-> IF p \in DOMAIN Seed /\ n = 1 THEN 1 ELSE 0]]
           Y == [com |-> f, num |-> f, clock |-> 0]
<1>1. PICK W \in Registers :
          /\ W.clock = 0
          /\ \A p \in Projects : \A n \in Nat :
                 /\ W.com[p][n] = IF p \in DOMAIN Seed /\ n = 1 THEN 1 ELSE 0
                 /\ W.num[p][n] = IF p \in DOMAIN Seed /\ n = 1 THEN 1 ELSE 0
  <2>1. Y \in Registers
    BY DEF Registers
  <2>2. /\ Y.clock = 0
        /\ \A p \in Projects : \A n \in Nat :
               /\ Y.com[p][n] = IF p \in DOMAIN Seed /\ n = 1 THEN 1 ELSE 0
               /\ Y.num[p][n] = IF p \in DOMAIN Seed /\ n = 1 THEN 1 ELSE 0
    OBVIOUS
  <2> HIDE DEF Y, f
  <2>3. QED
    BY <2>1, <2>2
<1> HIDE DEF Y, f
<1>2. now = 0 /\ wire = {} /\ (\A t \in Tabs : work[t] = None)
  BY DEF Init
<1>3. ASSUME NEW p \in DOMAIN Seed, NEW v, v = SeedValue(p)
      PROVE  /\ v.version = 1 /\ v.revision = 1 /\ v.deletion = "ACTIVE"
             /\ v \in SyncProject /\ v # None /\ p \in Projects
             /\ RemoteKept(W, p, v)
  <2>1. v.version = 1 /\ v.revision = 1 /\ v.deletion = "ACTIVE" /\ p \in Projects
    BY <1>3, SeedAssumption DEF SeedValue
  <2>2. v \in SyncProject
    BY <1>3, SeedAssumption DEF SeedValue, SyncProject, DeletionStates
  <2>3. QED
    BY <1>1, <2>1, <2>2, Fields DEF RemoteKept, Acked, Dated
<1>4. ASSUME NEW p \in Projects PROVE Fits(W, p)
  <2>1. CASE p \in DOMAIN Seed
    <3>1. cloud[p] = SeedValue(p) /\ hist[p] = <<[seen |-> {<<p, 1>>}, dead |-> FALSE]>>
      BY <2>1 DEF Init
    <3>2. /\ cloud[p].revision = 1 /\ cloud[p] # None /\ RemoteKept(W, p, cloud[p])
          /\ Len(hist[p]) = 1
      BY <1>3, <2>1, <3>1
    <3>3. QED
      BY <1>1, <2>1, <3>2 DEF Fits, Offered, Top
  <2>2. CASE p \notin DOMAIN Seed
    <3>1. cloud[p] = None
      BY <2>2 DEF Init
    <3>2. QED
      BY <1>1, <2>2, <3>1 DEF Fits, Offered, Top
  <2>3. QED
    BY <2>1, <2>2
<1>5. ASSUME NEW d \in Devices, NEW p \in Projects, rows[d][p] # None
      PROVE  /\ rows[d][p].value.version = 1
             /\ \/ p \in DOMAIN Seed /\ rows[d][p] = CleanRow(p, SeedValue(p))
                \/ /\ p \notin DOMAIN Seed /\ p \in Imported[d]
                   /\ rows[d][p] = [NewRow(p, None, 1, FALSE, d) EXCEPT !.staged = TRUE]
  <2>1. CASE p \in DOMAIN Seed /\ d \in Synced
    <3>1. rows[d][p] = CleanRow(p, SeedValue(p))
      BY <2>1 DEF Init
    <3>2. QED
      BY <2>1, <3>1 DEF CleanRow, SeedValue
  <2>2. CASE ~(p \in DOMAIN Seed /\ d \in Synced) /\ p \in Imported[d]
    <3>1. rows[d][p] = [NewRow(p, None, 1, FALSE, d) EXCEPT !.staged = TRUE]
      BY <2>2 DEF Init
    <3>2. p \notin DOMAIN Seed
      BY <2>2, SeedAssumption
    <3>3. [NewRow(p, None, 1, FALSE, d) EXCEPT !.staged = TRUE].value.version = 1
      BY DEF NewRow
    <3>4. QED
      BY <2>2, <3>1, <3>2, <3>3
  <2>3. CASE ~(p \in DOMAIN Seed /\ d \in Synced) /\ p \notin Imported[d]
    BY <1>5, <2>3 DEF Init
  <2>4. QED
    BY <2>1, <2>2, <2>3
<1>6. ASSUME NEW d \in Devices, NEW p \in Projects PROVE RowKept(W, p, rows[d][p])
  <2> SUFFICES ASSUME rows[d][p] # None PROVE RowKept(W, p, rows[d][p])
    BY DEF RowKept
  <2>1. CASE p \in DOMAIN Seed /\ rows[d][p] = CleanRow(p, SeedValue(p))
    <3>1. PICK v \in SyncProject : v = SeedValue(p) /\ RemoteKept(W, p, v)
      BY <1>3, <2>1
    <3>2. LET s == CleanRow(p, v) IN
          RowKept(W, p, s) /\ Sourced(W, p, None, s) /\ Advances(None, s)
      BY <1>4, <3>1, CleanKept
    <3>3. QED
      BY <2>1, <3>1, <3>2
  <2>2. CASE /\ p \notin DOMAIN Seed /\ p \in Imported[d]
             /\ rows[d][p] = [NewRow(p, None, 1, FALSE, d) EXCEPT !.staged = TRUE]
    <3> DEFINE s == [NewRow(p, None, 1, FALSE, d) EXCEPT !.staged = TRUE]
    <3>1. /\ s.base = 0 /\ s.baseRev = 0 /\ s.dirty = TRUE /\ s.conflict = None /\ s.sent = None
          /\ s.staged = TRUE /\ s.value.version = 1 /\ s.value.revision = 1
          /\ s.value.deletion = "ACTIVE"
      BY DEF NewRow
    <3> HIDE DEF s
    <3>2. ~Offered(W, p, 1)
      BY <1>1, <2>2 DEF Offered
    <3>3. RowConsistent(p, s)
      BY <3>1 DEF RowConsistent
    <3>4. RowKept(W, p, s)
      BY <3>1, <3>2, <3>3 DEF RowKept, BaseKept, Acked, Dated, OfferedKept
    <3>5. QED
      BY <2>2, <3>4 DEF s
  <2>3. QED
    BY <1>5, <2>1, <2>2
<1>7. ASSUME NEW d \in Devices, NEW e \in Devices, NEW p \in Projects, d # e
      PROVE  Private(W, p, rows[d][p], rows[e][p])
  <2> SUFFICES ASSUME rows[d][p] # None, rows[e][p] # None PROVE Offered(W, p, 1)
    BY <1>5 DEF Private
  <2>1. p \notin Imported[d] \cap Imported[e]
    BY <1>7, SeedAssumption
  <2>2. p \in DOMAIN Seed
    BY <1>5, <2>1
  <2>3. QED
    BY <1>1, <2>2 DEF Offered
<1>8. ASSUME NEW t \in Tabs
      PROVE  ctl[t].pc = "idle" /\ ctl[t].queue = {} /\ ctl[t].batch = {} /\ ctl[t].reply = {}
  BY DEF Init, Idle
<1>9. \A t \in Tabs : ControlKept(W, ctl[t]) /\ AllSettled(W, t)
  BY <1>8 DEF ControlKept, BatchKept, AllSettled, Flying
<1>10. \A t \in Tabs : LoadKept(W, work[t]) /\ LoadBehind(t)
  BY <1>2 DEF LoadKept, LoadBehind
<1>11. Entered(W)
  BY <1>1, <1>2, <1>4, <1>6, <1>7, <1>9, <1>10 DEF Entered
<1>12. QED
  BY <1>11 DEF Registered

\* A state that fits a register is followed by one that does.
LEMMA NextEntered ==
    ASSUME OneTabPerDevice, IInv, IInv', Built, Registered, [Next]_vars
    PROVE  Registered' /\ AckNeverRegressesStep
<1> PICK W : Entered(W)
  BY DEF Registered
<1>1. ASSUME NEW t \in Tabs, UserStep(t) PROVE Registered' /\ AckNeverRegressesStep
  BY <1>1, UserStepEntered DEF Registered
<1>2. ASSUME NEW t \in Tabs, ControllerStep(t) PROVE Registered' /\ AckNeverRegressesStep
  BY <1>2, StartRunEntered, MarkSendingEntered, CommitEntered, AcknowledgeEntered, ReceiveEntered,
     ListEntered, ConfirmEntered DEF ControllerStep, Registered
<1>3. ASSUME NEW t \in Tabs, Fail(t) \/ Reload(t) PROVE Registered' /\ AckNeverRegressesStep
  BY <1>3, FaultEntered DEF Registered
<1>4. CASE Deliver
  BY <1>4, DeliverEntered DEF Registered
<1>5. CASE Tick \/ UNCHANGED vars
  BY <1>5, TickEntered DEF Registered
<1>6. QED
  BY <1>1, <1>2, <1>3, <1>4, <1>5 DEF Next

\* A row that fits a register is consistent.
LEMMA RegisteredConsistent == Registered => RowsConsistent
BY DEF Registered, Entered, RowKept, RowsConsistent

\* A group that was offered and does not clash is refused for its deadline only.
LEMMA RegisteredAllowed ==
    ASSUME IInv, Registered PROVE RefusedOnlyForDeadline
<1> SUFFICES ASSUME NEW t \in Tabs, Clashing(ctl[t].batch) = {},
                    NEW w \in Request(cloud, ctl[t].batch, now), w.doc # None
             PROVE  RulesAllow(cloud, w, now) \/ MovesDeadline(w)
  BY DEF RefusedOnlyForDeadline, RulesAllow
<1> PICK W : Entered(W)
  BY DEF Registered
<1>1. PICK m \in ctl[t].batch :
          /\ w.id = m.id /\ w.base = m.expected
          /\ ~Replayed(cloud, m) /\ w.doc = Stored(m, now)
  BY DEF Request
<1> DEFINE p == m.id
           doc == w.doc
<1>2. /\ m \in SyncMutation /\ p \in Projects /\ m.value \in SyncProject /\ m.expected \in Nat
      /\ m.value.version \in Nat \ {0} /\ m.value.revision \in Nat /\ m.value.revision - 1 \in Nat
      /\ m.value.until \in Nat
      /\ OfferKept(W, m) /\ W \in Registers /\ W.clock = now /\ Fits(W, p) /\ now \in Nat
  <2>1. m \in SyncMutation /\ OfferKept(W, m)
    BY Holds DEF Entered, ControlKept, BatchKept
  <2>2. m.value \in SyncProject /\ p \in Projects
    BY <2>1, Fields
  <2>3. QED
    BY <2>1, <2>2, Holds, Fields DEF Entered, SyncProject
<1>3. /\ doc.version = m.value.version /\ doc.revision = m.value.revision
      /\ doc.until = m.value.until /\ doc.deletion = DeletionState(m.value, now)
  BY <1>1, <1>2 DEF Stored, SyncProject
<1>4. ~Clashes(cloud, m, now)
  BY <1>1 DEF Clashing
<1>5. /\ VersionOf(cloud[p]) = m.expected /\ VersionOf(cloud[p]) # m.value.version
      /\ cloud[p] # None /\ DeletionState(cloud[p], now) = "DELETED" =>
             DeletionState(m.value, now) = "DELETED"
  BY <1>1, <1>4 DEF Clashes, Replayed
<1>6. RulesValid(doc, now)
  <2>1. doc.deletion = "PENDING_DELETE" => m.value.deletion = "PENDING_DELETE"
    BY <1>3 DEF DeletionState
  <2>2. m.value.deletion = "PENDING_DELETE" =>
            m.value.until # 0 /\ m.value.until <= now + UndoWindow
    BY <1>2 DEF OfferKept, Dated
  <2>3. QED
    BY <1>3, <2>1, <2>2 DEF RulesValid
<1>7. Acked(W, p, m.expected, m.value.revision - 1)
  BY <1>2 DEF OfferKept
<1>8. CASE cloud[p] = None
  <2>1. m.expected = 0
    BY <1>5, <1>8 DEF VersionOf
  <2>2. m.value.revision - 1 = 0
    BY <1>7, <2>1 DEF Acked
  <2>3. doc.revision = 1
    BY <1>2, <1>3, <2>2
  <2>4. RulesCreate(doc, w.base, now)
    BY <1>1, <1>6, <2>1, <2>3 DEF RulesCreate
  <2>5. QED
    BY <1>1, <1>8, <2>4 DEF RulesAllow
<1>9. CASE cloud[p] # None
  <2>1. /\ cloud[p] \in SyncProject /\ cloud[p].revision \in Nat /\ cloud[p].until \in Nat
        /\ cloud[p].version \in Nat
    BY <1>2, <1>9, Holds, Fields
  <2>2. cloud[p].version = m.expected
    BY <1>5, <1>9 DEF VersionOf
  <2>3. Acked(W, p, m.expected, cloud[p].revision) /\ Dated(W, cloud[p])
    BY <1>2, <1>9, <2>2 DEF Fits, RemoteKept
  <2>4. m.value.revision - 1 = cloud[p].revision
    BY <1>2, <1>7, <2>1, <2>3, AckedOnce
  <2>5. doc.revision = cloud[p].revision + 1
    BY <1>2, <1>3, <2>1, <2>4
  <2>6. doc.version # cloud[p].version
    BY <1>3, <1>5, <2>2
  <2>7. RulesDeleted(cloud[p], now) => doc.deletion = "DELETED"
    <3> SUFFICES ASSUME RulesDeleted(cloud[p], now) PROVE doc.deletion = "DELETED"
      OBVIOUS
    <3>1. DeletionState(cloud[p], now) = "DELETED"
      <4>1. CASE cloud[p].deletion = "DELETED"
        BY <4>1 DEF DeletionState
      <4>2. CASE cloud[p].deletion = "PENDING_DELETE" /\ cloud[p].until <= now
        <5>1. cloud[p].until # 0
          BY <2>3, <4>2 DEF Dated
        <5>2. now >= cloud[p].until
          BY <1>2, <2>1, <4>2
        <5>3. QED
          BY <4>2, <5>1, <5>2 DEF DeletionState, Expired
      <4>3. QED
        BY <4>1, <4>2 DEF RulesDeleted
    <3>2. QED
      BY <1>3, <1>5, <1>9, <3>1
  <2>8. CASE cloud[p].deletion = "PENDING_DELETE" /\ doc.deletion = "PENDING_DELETE"
             /\ doc.until # cloud[p].until
    BY <1>1, <1>9, <2>8 DEF MovesDeadline
  <2>9. CASE ~(cloud[p].deletion = "PENDING_DELETE" /\ doc.deletion = "PENDING_DELETE"
               /\ doc.until # cloud[p].until)
    <3>1. RulesUpdate(cloud[p], doc, w.base, now)
      BY <1>1, <1>6, <2>2, <2>5, <2>6, <2>7, <2>9 DEF RulesUpdate
    <3>2. QED
      BY <1>1, <1>9, <3>1 DEF RulesAllow
  <2>10. QED
    BY <2>8, <2>9
<1>10. QED
  BY <1>8, <1>9

\* Where every device has one tab, every state that is reached fits a register.
LEMMA AlwaysRegistered ==
    ASSUME OneTabPerDevice
    PROVE  /\ Spec => [](IInv /\ Registered)
           /\ Spec => AckNeverRegresses
<1>1. Init => Built /\ Registered
  BY InitBuilt, InitEntered
<1>2. IInv /\ IInv' /\ Built /\ [Next]_vars => Built'
  BY NextBuilt
<1>3. IInv /\ IInv' /\ Built /\ Registered /\ [Next]_vars =>
          Registered' /\ [AckNeverRegressesStep]_vars
  BY NextEntered
<1>4. Spec => []IInv
  BY TypeCorrect
<1>5. Spec => [](IInv /\ Registered)
  BY <1>1, <1>2, <1>3, <1>4, PTL DEF Spec
<1>6. Spec => AckNeverRegresses
  BY <1>1, <1>2, <1>3, <1>4, PTL DEF Spec, AckNeverRegresses
<1>7. QED
  BY <1>5, <1>6

\* Where every device has one tab, the rows are consistent in every state: what
\* a row acknowledges, pins and conflicts with are revisions in their order,
\* although the merges compare versions or revisions, never both.
THEOREM RowsStayConsistent ==
    ASSUME OneTabPerDevice
    PROVE  Spec => []RowsConsistent
<1>1. Spec => []Registered
  BY AlwaysRegistered, PTL
<1>2. QED
  BY <1>1, RegisteredConsistent, PTL

\* Where every device has one tab, a late acknowledgement, a delayed list or a
\* choice of the user never takes back an acknowledged revision.
THEOREM AcknowledgedForGood ==
    ASSUME OneTabPerDevice
    PROVE  Spec => AckNeverRegresses
BY AlwaysRegistered

\* Where every device has one tab, a group that passes the compare-and-swap of
\* the client is refused by the Rules only if it moves a running deadline.
THEOREM RulesAgreeWithClient ==
    ASSUME OneTabPerDevice
    PROVE  Spec => []RefusedOnlyForDeadline
<1>1. Spec => [](IInv /\ Registered)
  BY AlwaysRegistered
<1>2. IInv /\ Registered => RefusedOnlyForDeadline
  BY RegisteredAllowed
<1>3. QED
  BY <1>1, <1>2, PTL
=============================================================================
