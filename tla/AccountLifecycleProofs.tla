----------------------- MODULE AccountLifecycleProofs -----------------------
(***************************************************************************)
(* Proofs about AccountLifecycle.  Drained is not inductive: that a batch  *)
(* loop which found nothing may complete the deletion rests on the server  *)
(* gate, which never opens again for the generation of a running deletion. *)
(* That rests in turn on the ids which tabs and caches can name: none is   *)
(* newer than the record's, and a registration issues a newer one.         *)
(***************************************************************************)
EXTENDS AccountLifecycle, TLAPS

\* The id of the account registered last, 0 before the first login.
Newest == IF record = None THEN 0 ELSE record.id

\* A tab's state is typed and names no id above n.
Sound(c, n) ==
    /\ c \in TabState
    /\ c.account <= n /\ c.prev <= n /\ c.owner <= n
    /\ c.value # None => c.value.id <= n
    /\ c.pc \in {"got", "clean", "final", "succeed"} => c.value # None
    /\ c.pc \in DeletePcs => c.owner # 0

\* A sound tab that is not past the server gate of a deletion.
Calm(c, n) == Sound(c, n) /\ c.pc \in {"idle", "read", "dread"}

PastGate == {"disown", "drain", "batch", "dclean", "finish", "forget"}
PastDrain == {"dclean", "finish"}

Numbered == issued = IF record = None THEN Legacy ELSE record.id
CachesKnown == \A d \in Devices : cache[d] # None => cache[d].id <= Newest
Gated == \A t \in Tabs : tab[t].pc \in PastGate => ~RulesActive(tab[t].owner)
Emptied == \A t \in Tabs : tab[t].pc \in PastDrain => docs[tab[t].owner] = {}

IInv ==
    /\ TypeOK
    /\ Numbered
    /\ CachesKnown
    /\ \A t \in Tabs : Sound(tab[t], Newest)
    /\ Gated
    /\ Emptied
    /\ Drained

-----------------------------------------------------------------------------
(* The building blocks keep a tab sound. *)

\* The empty sequence of removals is one.
LEMMA EmptyTodo == <<>> \in Seq(Ids)
OBVIOUS

\* An id known below n is known below every m above it.
LEMMA SoundAbove ==
    ASSUME NEW c, NEW n \in Nat, NEW m \in Nat, n <= m, Sound(c, n)
    PROVE  Sound(c, m)
<1>1. c.account \in Nat /\ c.prev \in Nat /\ c.owner \in Nat /\ (c.value # None => c.value.id \in Nat)
    BY DEF Sound, TabState, AccountRecord, Ids
<1> QED BY <1>1 DEF Sound

\* A closed tab names nothing.
LEMMA ClosedCalm ==
    ASSUME NEW n \in Nat, NEW user \in BOOLEAN
    PROVE  /\ Calm(Closed, n)
           /\ Calm([Closed EXCEPT !.user = user], n)
<1>1. Closed \in TabState
    BY EmptyTodo DEF Closed, TabState
<1>2. [Closed EXCEPT !.user = user] \in TabState
    BY <1>1 DEF TabState
<1> QED BY <1>1, <1>2 DEF Closed, Calm, Sound, CheckPcs, DeletePcs

\* The end of a call leaves an idle tab.
LEMMA DoneCalm ==
    ASSUME NEW c, NEW n \in Nat, Sound(c, n)
    PROVE  /\ Calm(Done(c), n)
           /\ Done(c) \in TabState
           /\ Done(c).account = c.account /\ Done(c).prev = 0
           /\ Done(c).value = None /\ Done(c).pc = "idle"
<1>1. Closed \in TabState
    BY EmptyTodo DEF Closed, TabState
<1>2. Done(c) \in TabState
    BY <1>1 DEF Done, Sound, TabState
<1>3. /\ Done(c).account = c.account /\ Done(c).prev = 0 /\ Done(c).owner = 0
      /\ Done(c).value = None /\ Done(c).pc = "idle"
    BY DEF Done, Closed
<1>4. PICK d : d = Done(c)
    OBVIOUS
<1>5. Calm(d, n)
    <2>1. d \in TabState /\ d.account <= n /\ d.prev = 0 /\ d.owner = 0 /\ d.value = None /\ d.pc = "idle"
        BY <1>2, <1>3, <1>4 DEF Sound
    <2> QED BY ONLY n \in Nat, <2>1 DEF Calm, Sound, CheckPcs, DeletePcs
<1> QED BY <1>2, <1>3, <1>4, <1>5

\* A call starts with a read.
LEMMA StartedCalm ==
    ASSUME NEW c, NEW n \in Nat, Sound(c, n),
           NEW mode \in {"check", "register", "delete", "after"},
           NEW owner \in Ids \cup {0}, owner <= n
    PROVE  Calm(Started(c, mode, owner), n)
<1> DEFINE d == Done(c)
<1>1. d \in TabState /\ d.account <= n /\ d.prev = 0 /\ d.value = None
    BY DoneCalm DEF Sound
<1>2. Started(c, mode, owner) = [d EXCEPT !.pc = "read", !.mode = mode, !.owner = owner]
    BY DEF Started
<1> HIDE DEF d
<1>3. PICK e : e = [d EXCEPT !.pc = "read", !.mode = mode, !.owner = owner]
    OBVIOUS
<1>4. /\ e \in TabState /\ e.pc = "read" /\ e.owner = owner
      /\ e.account <= n /\ e.prev = 0 /\ e.value = None
    BY <1>1, <1>3 DEF TabState, CheckPcs
<1>5. Calm(e, n)
    BY <1>4 DEF Calm, Sound, CheckPcs, DeletePcs
<1> QED BY <1>2, <1>3, <1>5

\* publish() names an account that is known.
LEMMA PublishedSound ==
    ASSUME NEW c, NEW n \in Nat, Sound(c, n),
           NEW g \in Ids \cup {0}, g <= n, NEW pending \in BOOLEAN
    PROVE  Sound(Published(c, g, pending), n) /\ Published(c, g, pending).pc = c.pc
<1>1. Published(c, g, pending) \in TabState
    BY DEF Sound, TabState, Published
<1> QED BY <1>1 DEF Sound, TabState, Published

\* A call that ends by publishing a known account.
LEMMA PublishedDoneCalm ==
    ASSUME NEW c, NEW n \in Nat, Sound(c, n),
           NEW g \in Ids \cup {0}, g <= n, NEW pending \in BOOLEAN
    PROVE  Calm(Done(Published(c, g, pending)), n)
BY PublishedSound, DoneCalm

\* The ways a call may end without an account.
LEMMA EndsCalm ==
    ASSUME NEW c, NEW n \in Nat, Sound(c, n)
    PROVE  /\ Calm(Done(c), n)
           /\ \A pending \in BOOLEAN : Calm(Done(Published(c, 0, pending)), n)
           /\ Calm(DeletionFailed(c), n)
           /\ Calm(Unresolved(c), n)
           /\ Calm(Deleted(c), n)
           /\ Calm(RemovalPending(c), n)
<1>1. \A pending \in BOOLEAN : Calm(Done(Published(c, 0, pending)), n)
  <2>1. 0 \in Ids \cup {0} /\ 0 <= n
    OBVIOUS
  <2> QED BY <2>1, PublishedDoneCalm
<1>2. Calm(Started(c, "after", 0), n)
    BY StartedCalm
<1>3. Calm(Done(c), n)
    BY DoneCalm
<1>4. Calm(DeletionFailed(c), n)
    BY <1>1, <1>2 DEF DeletionFailed
<1>5. c.mode \in {"check", "register", "delete", "after"}
    BY DEF Sound, TabState
<1>6. Calm(Unresolved(c), n)
  <2>1. CASE c.mode \in {"check", "register"}
    BY <2>1, <1>1 DEF Unresolved
  <2>2. CASE c.mode = "after"
    BY <2>2, <1>3 DEF Unresolved
  <2>3. CASE c.mode = "delete"
    BY <2>3, <1>4 DEF Unresolved
  <2> QED BY <1>5, <2>1, <2>2, <2>3
<1>7. Calm(Deleted(c), n) /\ Calm(RemovalPending(c), n)
    BY <1>1, <1>3 DEF Deleted, RemovalPending
<1> QED BY <1>1, <1>3, <1>4, <1>6, <1>7

\* A resolved check opens a known account, or goes on to delete it.
LEMMA ResolvedCalm ==
    ASSUME NEW c, NEW n \in Nat, Sound(c, n), NEW g \in Ids, g <= n, NEW deleting \in BOOLEAN
    PROVE  Calm(Resolved(c, g, deleting), n)
<1>1. c.mode \in {"check", "register", "delete", "after"}
    BY DEF Sound, TabState
<1>2. Calm(Done(Published(c, 0, TRUE)), n) /\ Calm(Done(c), n)
    BY EndsCalm
<1>3. CASE c.mode \in {"check", "register"}
  <2>1. Calm(Done(Published(c, IF deleting THEN 0 ELSE g, deleting)), n)
    BY PublishedDoneCalm
  <2> QED BY <1>3, <2>1 DEF Resolved
<1>4. CASE c.mode = "after"
    BY <1>4, <1>2 DEF Resolved
<1>5. CASE c.mode = "delete"
  <2> DEFINE d == Done(c)
             e == [d EXCEPT !.pc = "dread", !.mode = "delete", !.owner = g]
  <2>1. d \in TabState /\ d.account <= n /\ d.prev = 0 /\ d.value = None
    BY DoneCalm DEF Sound
  <2>2. Calm(e, n)
    <3> HIDE DEF d
    <3>1. e \in TabState
        BY <2>1 DEF TabState, DeletePcs
    <3> QED BY <2>1, <3>1 DEF Calm, Sound, TabState, CheckPcs, DeletePcs, Ids
  <2>3. Calm(Started(c, "after", 0), n)
    BY StartedCalm
  <2>4. Resolved(c, g, deleting) \in {e, Done(Published(c, 0, TRUE)), Started(c, "after", 0)}
    BY <1>5 DEF Resolved
  <2> HIDE DEF d, e
  <2> QED BY <2>2, <2>3, <2>4, <1>2
<1> QED BY <1>1, <1>3, <1>4, <1>5

-----------------------------------------------------------------------------
(* Steps of one tab that leave the server alone. *)

StoresTyped ==
    /\ dbs \in [Devices -> SUBSET Ids]
    /\ anon \in [Devices -> Ids \cup {0, None}]
    /\ signed \in [Devices -> BOOLEAN]
    /\ late \subseteq Tabs \X Ids
    /\ disowned \subseteq Devices \X Ids

CacheSound ==
    /\ cache \in [Devices -> [id : Ids, retired : BOOLEAN] \cup {None}]
    /\ CachesKnown

\* The newest id is a number, 0 or an id.
LEMMA NewestTyped ==
    ASSUME IInv
    PROVE  Newest \in Ids \cup {0} /\ Newest \in Nat
BY DEF IInv, TypeOK, Newest, AccountRecord, Ids

\* A step of one tab keeps the invariant if the tab's new state obeys it.
LEMMA TabStep ==
    ASSUME IInv, NEW t \in Tabs, NEW c,
           Sound(c, Newest),
           c.pc \in PastGate => ~RulesActive(c.owner),
           c.pc \in PastDrain => docs[c.owner] = {},
           tab' = [tab EXCEPT ![t] = c],
           UNCHANGED server, CacheSound', StoresTyped'
    PROVE  IInv'
<1>1. tab \in [Tabs -> TabState] /\ c \in TabState
    BY DEF IInv, TypeOK, Sound
<1>2. tab' \in [Tabs -> TabState]
    BY <1>1
<1>3. \A u \in Tabs : tab'[u] = IF u = t THEN c ELSE tab[u]
    BY <1>1
<1>4. record' = record /\ docs' = docs /\ issued' = issued /\ Newest' = Newest
    BY DEF server, Newest
<1>5. TypeOK'
    BY <1>2, <1>4 DEF IInv, TypeOK, CacheSound, StoresTyped
<1>6. \A u \in Tabs : Sound(tab'[u], Newest)
    BY <1>3 DEF IInv
<1>7. Gated'
    BY <1>3, <1>4 DEF IInv, Gated, RulesActive
<1>8. Emptied'
    BY <1>3, <1>4 DEF IInv, Emptied
<1>9. Numbered' /\ Drained'
    BY <1>4 DEF IInv, Numbered, Drained
<1> QED BY <1>4, <1>5, <1>6, <1>7, <1>8, <1>9 DEF IInv, CacheSound

\* The same for a tab that is left idle or at the start of a call.
LEMMA CalmStep ==
    ASSUME IInv, NEW t \in Tabs, NEW c,
           Calm(c, Newest),
           tab' = [tab EXCEPT ![t] = c],
           UNCHANGED server, CacheSound', StoresTyped'
    PROVE  IInv'
<1>1. c.pc \notin PastGate /\ c.pc \notin PastDrain
    BY DEF Calm, PastGate, PastDrain
<1> QED BY <1>1, TabStep DEF Calm

\* A step that leaves the record and the cache alone keeps the cached ids known.
LEMMA CacheUnchanged ==
    ASSUME IInv, UNCHANGED <<record, cache>>
    PROVE  CacheSound'
BY DEF IInv, TypeOK, CacheSound, CachesKnown, Newest

\* What a tab names.
LEMMA TabTyped ==
    ASSUME IInv, NEW t \in Tabs
    PROVE  /\ tab[t] \in TabState
           /\ Sound(tab[t], Newest)
           /\ DeviceOf[t] \in Devices
           /\ Leftover(t) \subseteq Tabs \X Ids
           /\ tab[t].todo # <<>> => Head(tab[t].todo) \in Ids /\ Tail(tab[t].todo) \in Seq(Ids)
<1>1. tab[t] \in TabState /\ Sound(tab[t], Newest)
    BY DEF IInv, TypeOK
<1>2. tab[t].todo \in Seq(Ids)
    BY <1>1 DEF TabState
<1>3. \A i \in 1..Len(tab[t].todo) : tab[t].todo[i] \in Ids
    BY <1>2
<1>4. Leftover(t) \subseteq Tabs \X Ids
    BY <1>3 DEF Leftover
<1> QED BY <1>1, <1>2, <1>4, TabsAssumption

-----------------------------------------------------------------------------
(* The provider. *)

\* An explicit login starts a check.
LEMMA SignInKeeps ==
    ASSUME IInv, NEW t \in Tabs, SignIn(t)
    PROVE  IInv'
<1> DEFINE b == [tab[t] EXCEPT !.user = TRUE]
           c == Started(b, "register", 0)
<1>1. Newest \in Nat /\ tab[t] \in TabState /\ Sound(tab[t], Newest) /\ Leftover(t) \subseteq Tabs \X Ids
    BY NewestTyped, TabTyped
<1>2. b \in TabState
    BY <1>1 DEF TabState
<1>3. Sound(b, Newest)
    BY <1>1, <1>2 DEF Sound, TabState
<1>4. Calm(c, Newest)
  <2> HIDE DEF b
  <2> QED BY <1>1, <1>3, StartedCalm
<1>5. tab' = [tab EXCEPT ![t] = c]
    BY DEF SignIn
<1>6. StoresTyped'
    BY <1>1 DEF SignIn, Supersede, IInv, TypeOK, StoresTyped
<1>7. UNCHANGED server /\ CacheSound'
    BY CacheUnchanged DEF SignIn, server
<1> QED BY <1>4, <1>5, <1>6, <1>7, CalmStep

\* Refresh and the start of a deletion.
LEMMA CallsKeep ==
    ASSUME IInv, NEW t \in Tabs, Refresh(t) \/ DeleteAccount(t)
    PROVE  IInv'
<1>1. Newest \in Nat /\ tab[t] \in TabState /\ Sound(tab[t], Newest) /\ Leftover(t) \subseteq Tabs \X Ids
    BY NewestTyped, TabTyped
<1>2. StoresTyped' /\ UNCHANGED server /\ CacheSound'
  <2>1. UNCHANGED server /\ UNCHANGED device /\ UNCHANGED disowned /\ late' = late \cup Leftover(t)
    BY DEF Refresh, DeleteAccount, Supersede
  <2> QED BY <1>1, <2>1, CacheUnchanged DEF device, server, IInv, TypeOK, StoresTyped
<1>3. CASE Refresh(t)
  <2> DEFINE c == Started(tab[t], "check", 0)
  <2>1. Calm(c, Newest)
    BY <1>1, StartedCalm
  <2>2. tab' = [tab EXCEPT ![t] = c]
    BY <1>3 DEF Refresh
  <2> QED BY <1>2, <2>1, <2>2, CalmStep
<1>4. CASE DeleteAccount(t)
  <2> DEFINE c == Started(tab[t], "delete", tab[t].account)
  <2>0. tab[t].account \in Ids \cup {0} /\ tab[t].account <= Newest
    BY <1>1 DEF Sound, TabState
  <2>1. Calm(c, Newest)
    BY <1>1, <2>0, StartedCalm
  <2>2. tab' = [tab EXCEPT ![t] = c]
    BY <1>4 DEF DeleteAccount
  <2> QED BY <1>2, <2>1, <2>2, CalmStep
<1> QED BY <1>3, <1>4

\* The tab is closed, or reads the account of a user signed in elsewhere.
LEMMA SessionsKeep ==
    ASSUME IInv, NEW t \in Tabs, SignOut(t) \/ Reload(t)
    PROVE  IInv'
<1> DEFINE b == [Closed EXCEPT !.user = TRUE]
           c == Started(b, "check", 0)
<1>1. Newest \in Nat /\ Leftover(t) \subseteq Tabs \X Ids
    BY NewestTyped, TabTyped
<1>2. Calm(Closed, Newest) /\ Calm(c, Newest)
  <2>1. Calm(Closed, Newest) /\ Calm(b, Newest)
    BY <1>1, ClosedCalm
  <2> HIDE DEF b
  <2> QED BY <1>1, <2>1, StartedCalm DEF Calm
<1>3. UNCHANGED server /\ CacheSound'
    BY CacheUnchanged DEF SignOut, Reload, server, device
<1>4. StoresTyped'
  <2>1. CASE SignOut(t)
    BY <2>1, <1>1 DEF SignOut, Supersede, IInv, TypeOK, StoresTyped
  <2>2. CASE Reload(t)
    BY <2>2, <1>1 DEF Reload, device, IInv, TypeOK, StoresTyped
  <2> QED BY <2>1, <2>2
<1>5. \E x \in {Closed, c} : tab' = [tab EXCEPT ![t] = x]
    BY DEF SignOut, Reload
<1> HIDE DEF c
<1> QED BY <1>2, <1>3, <1>4, <1>5, CalmStep

\* A sign-in or sign-out in another tab closes or restarts a check, and closes the
\* context of a running deletion, which stays behind its gate.
LEMMA FollowKeeps ==
    ASSUME IInv, NEW t \in Tabs, Follow(t)
    PROVE  IInv'
<1>1. Newest \in Nat /\ tab[t] \in TabState /\ Sound(tab[t], Newest) /\ Leftover(t) \subseteq Tabs \X Ids
    BY NewestTyped, TabTyped
<1>2. UNCHANGED server /\ CacheSound'
    BY CacheUnchanged DEF Follow, server, device
<1>3. StoresTyped'
    BY <1>1 DEF Follow, Supersede, device, IInv, TypeOK, StoresTyped
<1>4. CASE tab[t].mode \in {"delete", "after"}
  <2> DEFINE b == [tab[t] EXCEPT !.user = FALSE]
             c == Published(b, 0, FALSE)
  <2>1. Sound(b, Newest) /\ b.pc = tab[t].pc /\ b.owner = tab[t].owner
    <3>1. b \in TabState
        BY <1>1 DEF TabState
    <3> QED BY <1>1, <3>1 DEF Sound, TabState
  <2>2. Sound(c, Newest) /\ c.pc = tab[t].pc
    <3> HIDE DEF b
    <3>1. 0 \in Ids \cup {0} /\ 0 <= Newest
        BY <1>1
    <3> QED BY <1>1, <2>1, <3>1, PublishedSound
  <2>3. c.owner = tab[t].owner
    BY <1>1 DEF Published, TabState
  <2>4. tab' = [tab EXCEPT ![t] = c]
    BY <1>4 DEF Follow
  <2>5. (c.pc \in PastGate => ~RulesActive(c.owner)) /\ (c.pc \in PastDrain => docs[c.owner] = {})
    BY <2>2, <2>3 DEF IInv, Gated, Emptied
  <2> HIDE DEF c
  <2> QED BY <1>2, <1>3, <2>2, <2>4, <2>5, TabStep
<1>5. CASE tab[t].mode \notin {"delete", "after"}
  <2> DEFINE b == [tab[t] EXCEPT !.user = TRUE]
             c == Started(b, "check", 0)
  <2>1. Sound(b, Newest)
    <3>1. b \in TabState
        BY <1>1 DEF TabState
    <3> QED BY <1>1, <3>1 DEF Sound, TabState
  <2>2. Calm(c, Newest) /\ Calm(Closed, Newest)
    <3> HIDE DEF b
    <3>1. Calm(c, Newest)
        BY <1>1, <2>1, StartedCalm
    <3>2. Calm(Closed, Newest)
        BY <1>1, ClosedCalm
    <3> QED BY <3>1, <3>2
  <2>3. \E x \in {Closed, c} : tab' = [tab EXCEPT ![t] = x]
    BY <1>5 DEF Follow
  <2> HIDE DEF c
  <2> QED BY <1>2, <1>3, <2>2, <2>3, CalmStep
<1> QED BY <1>4, <1>5

-----------------------------------------------------------------------------
(* currentAccount. *)

\* The record as the server holds it names no id above the newest.
LEMMA RecordKnown ==
    ASSUME IInv
    PROVE  /\ record \in AccountRecord \cup {None}
           /\ record # None => record.id \in Ids /\ record.id <= Newest /\ record \in AccountRecord
BY DEF IInv, TypeOK, Newest, AccountRecord, Ids

\* The record that is read names the newest id at most.
LEMMA ServerReadKeeps ==
    ASSUME IInv, NEW t \in Tabs, ServerRead(t)
    PROVE  IInv'
<1> DEFINE pc == IF record = None THEN "create" ELSE "got"
           c == [tab[t] EXCEPT !.value = record, !.pc = pc]
<1>1. Newest \in Nat /\ tab[t] \in TabState /\ Sound(tab[t], Newest)
    BY NewestTyped, TabTyped
<1>2. c \in TabState
    BY <1>1, RecordKnown DEF TabState, CheckPcs
<1>3. Sound(c, Newest)
    BY <1>1, <1>2, RecordKnown DEF Sound, TabState, DeletePcs
<1>4. c.pc \notin PastGate /\ c.pc \notin PastDrain
    BY <1>1 DEF TabState, PastGate, PastDrain
<1>5. tab' = [tab EXCEPT ![t] = c]
    BY DEF ServerRead
<1>6. UNCHANGED server /\ CacheSound' /\ StoresTyped'
    BY CacheUnchanged DEF ServerRead, server, device, IInv, TypeOK, StoresTyped
<1> HIDE DEF c
<1> QED BY <1>3, <1>4, <1>5, <1>6, TabStep

\* The answer of an outage is a cached id, which is known.
LEMMA UnreachedCalm ==
    ASSUME IInv, NEW t \in Tabs
    PROVE  Calm(Unreached(t), Newest)
<1>1. Newest \in Nat /\ Sound(tab[t], Newest) /\ DeviceOf[t] \in Devices
    BY NewestTyped, TabTyped
<1>2. CASE tab[t].user /\ Usable(DeviceOf[t])
  <2>1. CachedId(DeviceOf[t]) \in Ids /\ CachedId(DeviceOf[t]) <= Newest
    BY <1>1, <1>2 DEF Usable, CachedId, IInv, TypeOK, CachesKnown
  <2>2. Calm(Resolved(tab[t], CachedId(DeviceOf[t]), FALSE), Newest)
    BY <1>1, <2>1, ResolvedCalm
  <2> QED BY <1>2, <2>2 DEF Unreached
<1>3. CASE ~(tab[t].user /\ Usable(DeviceOf[t]))
    BY <1>1, <1>3, EndsCalm DEF Unreached
<1> QED BY <1>2, <1>3

\* An outage ends the read.
LEMMA OutageKeeps ==
    ASSUME IInv, NEW t \in Tabs, Outage(t)
    PROVE  IInv'
<1>1. Calm(Unreached(t), Newest)
    BY UnreachedCalm
<1>2. tab' = [tab EXCEPT ![t] = Unreached(t)]
    BY DEF Outage
<1>3. UNCHANGED server /\ CacheSound' /\ StoresTyped'
    BY CacheUnchanged DEF Outage, server, device, IInv, TypeOK, StoresTyped
<1> QED BY <1>1, <1>2, <1>3, CalmStep

\* What a check removes is a sequence of ids.
LEMMA OthersTyped ==
    ASSUME NEW v \in AccountRecord, NEW prev \in Ids \cup {0}
    PROVE  Others(v, prev) \in Seq(Ids)
<1>1. Legacy \in Ids
    BY BoundsAssumption DEF Legacy, Ids
<1>2. /\ (IF prev \in {0, v.id} THEN <<>> ELSE <<prev>>) \in Seq(Ids)
      /\ (IF v.id = Legacy THEN <<>> ELSE <<Legacy>>) \in Seq(Ids)
    BY <1>1
<1> QED BY <1>2 DEF Others

\* The answer retires a known id and lists known ids for removal.
LEMMA GotKeeps ==
    ASSUME IInv, NEW t \in Tabs, Got(t)
    PROVE  IInv'
<1> DEFINE d == DeviceOf[t]
           v == tab[t].value
           prev == CachedId(d)
           stale == v.state # "ACTIVE" \/ prev \notin {0, v.id}
           b == IF stale THEN ContextClosed(tab[t]) ELSE tab[t]
           pc == IF v.state = "ACTIVE" THEN "final" ELSE "clean"
           todo == IF v.state = "ACTIVE" THEN Others(v, prev)
                   ELSE <<v.id>> \o (IF prev \in {0, v.id} THEN <<>> ELSE <<prev>>)
           c == [b EXCEPT !.prev = prev, !.pc = pc, !.todo = todo]
<1>1. Newest \in Nat /\ tab[t] \in TabState /\ Sound(tab[t], Newest) /\ d \in Devices
    BY NewestTyped, TabTyped
<1>2. v \in AccountRecord /\ v.id \in Ids /\ v.id <= Newest
    BY <1>1 DEF Got, Sound, TabState, AccountRecord
<1>3. prev \in Ids \cup {0} /\ prev <= Newest
    BY <1>1 DEF CachedId, IInv, TypeOK, CachesKnown
<1>4. todo \in Seq(Ids)
  <2>1. Others(v, prev) \in Seq(Ids)
    BY <1>2, <1>3, OthersTyped
  <2>2. <<v.id>> \in Seq(Ids) /\ (IF prev \in {0, v.id} THEN <<>> ELSE <<prev>>) \in Seq(Ids)
    BY <1>2, <1>3
  <2> HIDE DEF v, prev
  <2> QED BY <2>1, <2>2
<1>5. b \in TabState /\ Sound(b, Newest) /\ b.value = v
  <2> DEFINE x == ContextClosed(tab[t])
  <2>1. tab[t].mode \in {"check", "register", "delete", "after"} /\ tab[t].pending \in BOOLEAN
    BY <1>1 DEF TabState
  <2>2. \E p \in BOOLEAN : x = Published(tab[t], 0, p) \/ x = tab[t]
    BY <2>1 DEF ContextClosed
  <2>3. 0 \in Ids \cup {0} /\ 0 <= Newest
    BY <1>1
  <2>4. Sound(x, Newest)
    BY <1>1, <2>2, <2>3, PublishedSound
  <2>5. x.value = v
    BY <1>1, <2>2 DEF Published, TabState
  <2> QED BY <1>1, <2>4, <2>5 DEF Sound
<1>6. c \in TabState
  <2> HIDE DEF b, prev, todo, v
  <2> QED BY <1>3, <1>4, <1>5, ZenonT(60) DEF TabState, CheckPcs
<1>7. Sound(c, Newest)
  <2>1. v # None
    BY DEF Got, Sound, TabState, TypeOK, IInv
  <2> HIDE DEF b, prev, todo, v
  <2> QED BY <2>1, <1>2, <1>3, <1>5, <1>6 DEF Sound, TabState, DeletePcs
<1>8. c.pc \notin PastGate /\ c.pc \notin PastDrain
  <2> HIDE DEF prev, todo, v
  <2> QED BY <1>5 DEF TabState, PastGate, PastDrain
<1>9. tab' = [tab EXCEPT ![t] = c]
    BY DEF Got
<1>10. CacheSound'
  <2> DEFINE g == IF prev = 0 THEN v.id ELSE prev
  <2>1. g \in Ids /\ g <= Newest
    BY <1>2, <1>3
  <2>2. cache' = [cache EXCEPT ![d] = IF stale THEN Retired(g) ELSE @]
    BY DEF Got
  <2>3. record' = record
    BY DEF Got, server
  <2> HIDE DEF g, prev, v, d
  <2>4. Retired(g) \in [id : Ids, retired : BOOLEAN] /\ Retired(g).id = g
    BY <2>1 DEF Retired
  <2>5. Newest' = Newest
    BY <2>3 DEF Newest
  <2>6. cache' \in [Devices -> [id : Ids, retired : BOOLEAN] \cup {None}]
    BY <1>1, <2>2, <2>4 DEF IInv, TypeOK
  <2>7. \A e \in Devices : cache'[e] # None => cache'[e].id <= Newest
    BY <1>1, <2>1, <2>2, <2>4 DEF IInv, TypeOK, CachesKnown
  <2> QED BY <2>5, <2>6, <2>7 DEF CacheSound, CachesKnown
<1>11. UNCHANGED server /\ StoresTyped'
    BY DEF Got, server, IInv, TypeOK, StoresTyped
<1> HIDE DEF c
<1> QED BY <1>7, <1>8, <1>9, <1>10, <1>11, TabStep

\* removeLocalAccount touches local stores only.
LEMMA RemovalsTyped ==
    ASSUME IInv, NEW d \in Devices, NEW g \in Ids,
           Remove(d, g) \/ RemoveFails(d, g)
    PROVE  /\ dbs' \in [Devices -> SUBSET Ids]
           /\ anon' \in [Devices -> Ids \cup {0, None}]
BY DEF Remove, RemoveFails, IInv, TypeOK

\* A removal, done or refused.
LEMMA CleanKeeps ==
    ASSUME IInv, NEW t \in Tabs, Clean(t)
    PROVE  IInv'
<1> DEFINE d == DeviceOf[t]
           g == Head(tab[t].todo)
           c == [tab[t] EXCEPT !.todo = Tail(tab[t].todo)]
<1>1. Newest \in Nat /\ tab[t] \in TabState /\ Sound(tab[t], Newest) /\ d \in Devices
    BY NewestTyped, TabTyped
<1>2. g \in Ids /\ Tail(tab[t].todo) \in Seq(Ids) /\ tab[t].pc \in {"clean", "final"}
    BY TabTyped DEF Clean
<1>3. Remove(d, g) \/ RemoveFails(d, g)
    BY DEF Clean
<1>4. UNCHANGED server /\ CacheSound'
    BY CacheUnchanged DEF Clean, server
<1>5. StoresTyped'
  <2> HIDE DEF d, g
  <2>1. dbs' \in [Devices -> SUBSET Ids] /\ anon' \in [Devices -> Ids \cup {0, None}]
    BY <1>1, <1>2, <1>3, RemovalsTyped
  <2>2. UNCHANGED <<signed, late, disowned>>
    BY DEF Clean
  <2> QED BY <2>1, <2>2 DEF IInv, TypeOK, StoresTyped
<1>6. CASE tab' = [tab EXCEPT ![t] = c]
  <2>1. c \in TabState
    BY <1>1, <1>2 DEF TabState
  <2>2. Sound(c, Newest) /\ c.pc = tab[t].pc
    BY <1>1, <2>1 DEF Sound, TabState
  <2>3. c.pc \notin PastGate /\ c.pc \notin PastDrain
    BY <1>2, <2>2 DEF PastGate, PastDrain
  <2> HIDE DEF c
  <2> QED BY <1>4, <1>5, <1>6, <2>2, <2>3, TabStep
<1>7. CASE \E x \in {Done(tab[t]), RemovalPending(tab[t]), Unresolved(tab[t])} :
                tab' = [tab EXCEPT ![t] = x]
  <2>1. \A x \in {Done(tab[t]), RemovalPending(tab[t]), Unresolved(tab[t])} : Calm(x, Newest)
    BY <1>1, EndsCalm
  <2> QED BY <1>4, <1>5, <1>7, <2>1, CalmStep
<1>8. CASE /\ Usable(d)
           /\ tab' = [tab EXCEPT ![t] = Resolved(tab[t], CachedId(d), FALSE)]
  <2>1. CachedId(d) \in Ids /\ CachedId(d) <= Newest
    BY <1>1, <1>8 DEF Usable, CachedId, IInv, TypeOK, CachesKnown
  <2>2. Calm(Resolved(tab[t], CachedId(d), FALSE), Newest)
    BY <1>1, <2>1, ResolvedCalm
  <2> QED BY <1>4, <1>5, <1>8, <2>2, CalmStep
<1>9. \/ tab' = [tab EXCEPT ![t] = c]
      \/ \E x \in {Done(tab[t]), RemovalPending(tab[t]), Unresolved(tab[t])} :
            tab' = [tab EXCEPT ![t] = x]
      \/ /\ Usable(d)
         /\ tab' = [tab EXCEPT ![t] = Resolved(tab[t], CachedId(d), FALSE)]
    BY DEF Clean
<1> QED BY <1>6, <1>7, <1>8, <1>9

\* An inactive record ends the check or lets it register.
LEMMA InactiveKeeps ==
    ASSUME IInv, NEW t \in Tabs, Inactive(t)
    PROVE  IInv'
<1> DEFINE d == DeviceOf[t]
           c == tab[t]
           r == Resolved(c, c.value.id, TRUE)
           s == [c EXCEPT !.pc = "succeed"]
<1>1. Newest \in Nat /\ c \in TabState /\ Sound(c, Newest) /\ d \in Devices
    BY NewestTyped, TabTyped
<1>2. c.pc = "clean" /\ c.value # None /\ c.value.id \in Ids /\ c.value.id <= Newest
    BY <1>1 DEF Inactive, Sound, TabState, AccountRecord
<1>3. UNCHANGED server /\ StoresTyped'
    BY DEF Inactive, server, IInv, TypeOK, StoresTyped
<1>4. CASE UNCHANGED cache /\ tab' = [tab EXCEPT ![t] = r]
  <2>1. Calm(r, Newest)
    BY <1>1, <1>2, ResolvedCalm
  <2>2. CacheSound'
    BY <1>3, <1>4, CacheUnchanged DEF server
  <2> HIDE DEF r
  <2> QED BY <1>3, <1>4, <2>1, <2>2, CalmStep
<1>5. CASE UNCHANGED cache /\ tab' = [tab EXCEPT ![t] = s]
  <2>1. s \in TabState
    BY <1>1 DEF TabState, CheckPcs
  <2>2. Sound(s, Newest) /\ s.pc = "succeed"
    BY <1>1, <1>2, <2>1 DEF Sound, TabState, DeletePcs
  <2>3. s.pc \notin PastGate /\ s.pc \notin PastDrain
    BY <2>2 DEF PastGate, PastDrain
  <2>4. CacheSound'
    BY <1>3, <1>5, CacheUnchanged DEF server
  <2> HIDE DEF s
  <2> QED BY <1>3, <1>5, <2>2, <2>3, <2>4, TabStep
<1>6. CASE /\ cache' = [cache EXCEPT ![d] = None]
           /\ tab' = [tab EXCEPT ![t] = Deleted(c)]
  <2>1. Calm(Deleted(c), Newest)
    BY <1>1, EndsCalm
  <2>2. CacheSound'
    BY <1>1, <1>3, <1>6 DEF server, CacheSound, CachesKnown, IInv, TypeOK, Newest
  <2> QED BY <1>3, <1>6, <2>1, <2>2, CalmStep
<1>7. \/ UNCHANGED cache /\ tab' = [tab EXCEPT ![t] = r]
      \/ UNCHANGED cache /\ tab' = [tab EXCEPT ![t] = s]
      \/ /\ cache' = [cache EXCEPT ![d] = None]
         /\ tab' = [tab EXCEPT ![t] = Deleted(c)]
    BY DEF Inactive
<1> QED BY <1>4, <1>5, <1>6, <1>7

\* The id that is cached and opened is known.
LEMMA FinishKeeps ==
    ASSUME IInv, NEW t \in Tabs, Finish(t)
    PROVE  IInv'
<1> DEFINE d == DeviceOf[t]
           c == tab[t]
           g == c.value.id
           deleting == c.value.state = "DELETING"
           e == [id |-> g, retired |-> FALSE]
<1>1. Newest \in Nat /\ c \in TabState /\ Sound(c, Newest) /\ d \in Devices
    BY NewestTyped, TabTyped
<1>2. g \in Ids /\ g <= Newest
    BY <1>1 DEF Finish, Sound, TabState, AccountRecord
<1>3. UNCHANGED server /\ StoresTyped'
    BY DEF Finish, server, IInv, TypeOK, StoresTyped
<1>4. Calm(Resolved(c, g, deleting), Newest)
  <2>1. deleting \in BOOLEAN
    OBVIOUS
  <2> HIDE DEF c, g, deleting
  <2> QED BY <1>1, <1>2, <2>1, ResolvedCalm
<1>5. tab' = [tab EXCEPT ![t] = Resolved(c, g, deleting)]
    BY DEF Finish
<1>6. CacheSound'
  <2>1. cache' = [cache EXCEPT ![d] = e]
    BY DEF Finish
  <2>2. e \in [id : Ids, retired : BOOLEAN] /\ e.id = g
    BY <1>2
  <2>3. Newest' = Newest
    BY <1>3 DEF server, Newest
  <2> HIDE DEF e, g, d
  <2> QED BY <1>1, <1>2, <2>1, <2>2, <2>3 DEF CacheSound, CachesKnown, IInv, TypeOK
<1> HIDE DEF c, g, deleting
<1> QED BY <1>3, <1>4, <1>5, <1>6, CalmStep

\* Deletion calls that give up.
LEMMA FailuresKeep ==
    ASSUME IInv, NEW t \in Tabs, Boundary(t) \/ Interrupted(t)
    PROVE  IInv'
<1>1. Calm(DeletionFailed(tab[t]), Newest)
    BY NewestTyped, TabTyped, EndsCalm
<1>2. tab' = [tab EXCEPT ![t] = DeletionFailed(tab[t])]
    BY DEF Boundary, Interrupted
<1>3. UNCHANGED server /\ CacheSound' /\ StoresTyped'
    BY CacheUnchanged DEF Boundary, Interrupted, server, device, IInv, TypeOK, StoresTyped
<1> QED BY <1>1, <1>2, <1>3, CalmStep

\* Removals of superseded calls touch local stores only.
LEMMA LateRemoveKeeps ==
    ASSUME IInv, LateRemove
    PROVE  IInv'
<1>1. PICK x \in late : /\ late' = late \ {x}
                        /\ Remove(DeviceOf[x[1]], x[2]) \/ RemoveFails(DeviceOf[x[1]], x[2])
    BY DEF LateRemove
<1>2. DeviceOf[x[1]] \in Devices /\ x[2] \in Ids
    BY TabsAssumption DEF IInv, TypeOK
<1>3. dbs' \in [Devices -> SUBSET Ids] /\ anon' \in [Devices -> Ids \cup {0, None}]
    BY <1>1, <1>2, RemovalsTyped
<1>4. UNCHANGED <<server, cache, signed, tab, disowned>>
    BY DEF LateRemove
<1> QED BY <1>1, <1>3, <1>4
        DEF server, IInv, TypeOK, Numbered, CachesKnown, Newest, Gated, Emptied, Drained, RulesActive

-----------------------------------------------------------------------------
(* deleteCurrentAccount. *)

\* A deletion in progress moves on within the same record.
LEMMA MoveOn ==
    ASSUME IInv, NEW t \in Tabs, tab[t].pc \in DeletePcs, NEW pc \in DeletePcs, NEW c,
           c = [tab[t] EXCEPT !.pc = pc]
    PROVE  Sound(c, Newest) /\ c.pc = pc /\ c.owner = tab[t].owner /\ c.owner \in Ids
<1>1. Newest \in Nat /\ tab[t] \in TabState /\ Sound(tab[t], Newest)
    BY NewestTyped, TabTyped
<1>2. c \in TabState
    BY <1>1 DEF TabState
<1> QED BY <1>1, <1>2 DEF Sound, TabState, DeletePcs

\* The record that a deletion reads is inactive once the tab is past the gate.
LEMMA DeleteReadKeeps ==
    ASSUME IInv, NEW t \in Tabs, DeleteRead(t)
    PROVE  IInv'
<1> DEFINE pc == IF record.state = "ACTIVE" THEN "mark" ELSE "disown"
           c == [tab[t] EXCEPT !.pc = pc]
<1>1. UNCHANGED server /\ CacheSound' /\ StoresTyped'
    BY CacheUnchanged DEF DeleteRead, server, device, IInv, TypeOK, StoresTyped
<1>2. CASE tab' = [tab EXCEPT ![t] = DeletionFailed(tab[t])]
    BY <1>1, <1>2, NewestTyped, TabTyped, EndsCalm, CalmStep
<1>3. CASE /\ record # None
           /\ record.id = tab[t].owner
           /\ tab' = [tab EXCEPT ![t] = c]
  <2>1. Sound(c, Newest) /\ c.pc = pc /\ c.owner = tab[t].owner
    BY MoveOn DEF DeleteRead, DeletePcs
  <2>2. (c.pc \in PastGate => ~RulesActive(c.owner)) /\ c.pc \notin PastDrain
    BY <1>3, <2>1 DEF PastGate, PastDrain, RulesActive
  <2> HIDE DEF c
  <2> QED BY <1>1, <1>3, <2>1, <2>2, TabStep
<1> QED BY <1>2, <1>3 DEF DeleteRead

\* The deleting device retires a known id behind the closed gate.
LEMMA DisownKeeps ==
    ASSUME IInv, NEW t \in Tabs, Disown(t)
    PROVE  IInv'
<1> DEFINE d == DeviceOf[t]
           g == tab[t].owner
           b == [tab[t] EXCEPT !.pc = "drain"]
           c == Published(b, 0, TRUE)
<1>1. Newest \in Nat /\ tab[t] \in TabState /\ Sound(tab[t], Newest) /\ d \in Devices
    BY NewestTyped, TabTyped
<1>2. Sound(b, Newest) /\ b.pc = "drain" /\ b.owner = g /\ g \in Ids /\ b \in TabState
  <2>1. Sound(b, Newest) /\ b.pc = "drain" /\ b.owner = g /\ b.owner \in Ids
    BY MoveOn DEF Disown, DeletePcs
  <2> QED BY <2>1 DEF Sound
<1>3. Sound(c, Newest) /\ c.pc = "drain" /\ c.owner = g
  <2> HIDE DEF b, g
  <2>1. 0 \in Ids \cup {0} /\ 0 <= Newest
    BY <1>1
  <2>2. Sound(c, Newest) /\ c.pc = "drain"
    BY <1>1, <1>2, <2>1, PublishedSound
  <2> QED BY <1>2, <2>2 DEF Published, TabState
<1>4. ~RulesActive(g)
    BY DEF IInv, Gated, Disown, PastGate
<1>5. tab' = [tab EXCEPT ![t] = c]
    BY DEF Disown
<1>6. UNCHANGED server /\ StoresTyped'
    BY <1>1, <1>2 DEF Disown, server, IInv, TypeOK, StoresTyped
<1>7. CacheSound'
  <2>1. cache' = [cache EXCEPT ![d] = Retired(g)]
    BY DEF Disown
  <2>2. Retired(g) \in [id : Ids, retired : BOOLEAN] /\ Retired(g).id = g
    BY <1>2 DEF Retired
  <2>3. Newest' = Newest /\ g <= Newest
    BY <1>1, <1>6 DEF server, Newest, Sound
  <2> HIDE DEF g, d
  <2> QED BY <1>1, <2>1, <2>2, <2>3 DEF CacheSound, CachesKnown, IInv, TypeOK
<1>8. c.pc \notin PastDrain
    BY <1>3 DEF PastDrain
<1> HIDE DEF c
<1> QED BY <1>3, <1>4, <1>5, <1>6, <1>7, <1>8, TabStep

\* Only a read that found no document ends the drain.
LEMMA DrainKeeps ==
    ASSUME IInv, NEW t \in Tabs, Drain(t)
    PROVE  IInv'
<1>1. UNCHANGED server /\ CacheSound' /\ StoresTyped'
    BY CacheUnchanged DEF Drain, server, device, IInv, TypeOK, StoresTyped
<1>2. ~RulesActive(tab[t].owner) /\ tab[t].pc \in DeletePcs
    BY DEF IInv, Gated, Drain, PastGate, DeletePcs
<1>3. CASE tab' = [tab EXCEPT ![t] = DeletionFailed(tab[t])]
    BY <1>1, <1>3, NewestTyped, TabTyped, EndsCalm, CalmStep
<1>4. CASE docs[tab[t].owner] = {} /\ tab' = [tab EXCEPT ![t].pc = "dclean"]
  <2> DEFINE c == [tab[t] EXCEPT !.pc = "dclean"]
  <2>1. Sound(c, Newest) /\ c.owner = tab[t].owner
    BY <1>2, MoveOn DEF DeletePcs
  <2>2. tab' = [tab EXCEPT ![t] = c]
    BY <1>4
  <2> HIDE DEF c
  <2> QED BY <1>1, <1>2, <1>4, <2>1, <2>2, TabStep
<1>5. CASE \E b \in SUBSET docs[tab[t].owner] :
                tab' = [tab EXCEPT ![t].pc = "batch", ![t].batch = b]
  <2>1. PICK b \in SUBSET docs[tab[t].owner] :
                tab' = [tab EXCEPT ![t].pc = "batch", ![t].batch = b]
    BY <1>5
  <2> DEFINE e == [tab[t] EXCEPT !.pc = "batch"]
             c == [e EXCEPT !.batch = b]
  <2>2. Sound(e, Newest) /\ e.owner = tab[t].owner /\ e.owner \in Ids /\ e.pc = "batch"
    BY <1>2, MoveOn DEF DeletePcs
  <2>3. b \in SUBSET Docs
    BY <2>2 DEF IInv, TypeOK
  <2>4. Sound(c, Newest) /\ c.owner = tab[t].owner /\ c.pc = "batch"
    <3> HIDE DEF e
    <3>1. c \in TabState
        BY <2>2, <2>3 DEF Sound, TabState
    <3> QED BY <2>2, <3>1 DEF Sound, TabState
  <2>5. tab' = [tab EXCEPT ![t] = c]
    BY <2>1
  <2>6. c.pc \notin PastDrain
    BY <2>4 DEF PastDrain
  <2> HIDE DEF c
  <2> QED BY <1>1, <1>2, <2>4, <2>5, <2>6, TabStep
<1> QED BY <1>3, <1>4, <1>5 DEF Drain

\* Removing the local copies leaves the drained documents as they are.
LEMMA DeleteLocalKeeps ==
    ASSUME IInv, NEW t \in Tabs, DeleteLocal(t)
    PROVE  IInv'
<1> DEFINE c == [tab[t] EXCEPT !.pc = "finish"]
<1>1. UNCHANGED server /\ CacheSound' /\ DeviceOf[t] \in Devices
    BY CacheUnchanged, TabTyped DEF DeleteLocal, server
<1>2. Sound(c, Newest) /\ c.owner = tab[t].owner /\ tab[t].owner \in Ids
    BY MoveOn DEF DeleteLocal, DeletePcs
<1>3. StoresTyped'
  <2>1. dbs' \in [Devices -> SUBSET Ids] /\ anon' \in [Devices -> Ids \cup {0, None}]
    BY <1>1, <1>2, RemovalsTyped DEF DeleteLocal
  <2> QED BY <2>1 DEF DeleteLocal, IInv, TypeOK, StoresTyped
<1>4. ~RulesActive(c.owner) /\ docs[c.owner] = {}
    BY <1>2 DEF IInv, Gated, Emptied, DeleteLocal, PastGate, PastDrain
<1>5. Calm(DeletionFailed(tab[t]), Newest)
    BY NewestTyped, TabTyped, EndsCalm
<1>6. \/ tab' = [tab EXCEPT ![t] = c]
      \/ tab' = [tab EXCEPT ![t] = DeletionFailed(tab[t])]
    BY DEF DeleteLocal
<1> HIDE DEF c
<1> QED BY <1>1, <1>2, <1>3, <1>4, <1>5, <1>6, TabStep, CalmStep

\* The end of a deletion closes the tab.
LEMMA ForgetKeeps ==
    ASSUME IInv, NEW t \in Tabs, Forget(t)
    PROVE  IInv'
<1>1. Newest \in Nat /\ DeviceOf[t] \in Devices
    BY NewestTyped, TabTyped
<1>2. Calm(Closed, Newest)
    BY <1>1, ClosedCalm
<1>3. UNCHANGED server /\ StoresTyped' /\ tab' = [tab EXCEPT ![t] = Closed]
    BY <1>1 DEF Forget, server, IInv, TypeOK, StoresTyped
<1>4. CacheSound'
    BY <1>1, <1>3 DEF Forget, server, CacheSound, CachesKnown, IInv, TypeOK, Newest
<1> QED BY <1>2, <1>3, <1>4, CalmStep

\* The open context writes local stores.
LEMMA ContextKeeps ==
    ASSUME IInv, NEW t \in Tabs, Store(t) \/ Claim(t)
    PROVE  IInv'
<1>1. tab[t].account # 0 => tab[t].account \in Ids
    BY TabTyped DEF TabState
<1>2. StoresTyped' /\ UNCHANGED <<server, cache, tab>>
    BY <1>1, TabTyped DEF Store, Claim, IInv, TypeOK, StoresTyped
<1> QED BY <1>2 DEF StoresTyped, server, IInv, TypeOK, Numbered, CachesKnown, Newest, Gated, Emptied, Drained, RulesActive

-----------------------------------------------------------------------------
(* Steps of the server. *)

\* A step that may change the record or remove documents.  A closed gate stays
\* closed, and no document appears.
LEMMA ServerStep ==
    ASSUME IInv, NEW t \in Tabs, NEW c,
           record' \in AccountRecord \cup {None}, issued' \in Ids, Numbered',
           Newest <= Newest', Newest' \in Nat,
           \A g \in Ids : g <= Newest /\ ~RulesActive(g) => ~RulesActive(g)',
           docs' \in [Ids -> SUBSET Docs],
           \A g \in Ids : docs'[g] \subseteq docs[g],
           Drained',
           Sound(c, Newest'),
           c.pc \in PastGate => ~RulesActive(c.owner)',
           c.pc \in PastDrain => docs[c.owner] = {},
           tab' = [tab EXCEPT ![t] = c],
           UNCHANGED cache, StoresTyped'
    PROVE  IInv'
<1>1. tab \in [Tabs -> TabState] /\ c \in TabState /\ Newest \in Nat
    BY NewestTyped DEF IInv, TypeOK, Sound
<1>2. \A u \in Tabs : tab'[u] = IF u = t THEN c ELSE tab[u]
    BY <1>1
<1>3. TypeOK'
    BY <1>1 DEF IInv, TypeOK, StoresTyped
<1>4. \A u \in Tabs : Sound(tab'[u], Newest')
    BY <1>1, <1>2, SoundAbove DEF IInv
<1>5. CachesKnown'
  <2>1. \A d \in Devices : cache[d] # None => cache[d].id \in Nat /\ cache[d].id <= Newest
    BY DEF IInv, TypeOK, CachesKnown, Ids
  <2> QED BY <1>1, <2>1 DEF CachesKnown
<1>6. \A u \in Tabs : tab'[u].pc \in PastGate => tab'[u].owner \in Ids
    BY <1>2, <1>3, <1>4 DEF Sound, TabState, PastGate, DeletePcs
<1>7. \A u \in Tabs, g \in Ids : g = tab'[u].owner /\ tab'[u].pc \in PastGate => ~RulesActive(g)'
  <2> SUFFICES ASSUME NEW u \in Tabs, NEW g \in Ids, g = tab'[u].owner, tab'[u].pc \in PastGate
               PROVE  ~RulesActive(g)'
    OBVIOUS
  <2>1. CASE u = t
    BY <1>2, <2>1
  <2>2. CASE u # t
    <3>1. tab'[u] = tab[u] /\ g = tab[u].owner /\ g <= Newest
        BY <1>2, <2>2 DEF IInv, Sound
    <3>2. ~RulesActive(g)
        BY <3>1 DEF IInv, Gated
    <3> QED BY <3>1, <3>2
  <2> QED BY <2>1, <2>2
<1>8. Gated'
    BY <1>6, <1>7 DEF Gated, RulesActive
<1>9. Emptied'
  <2>1. PastDrain \subseteq PastGate
    BY DEF PastDrain, PastGate
  <2> QED BY <1>2, <1>6, <2>1 DEF IInv, Emptied
<1> QED BY <1>3, <1>4, <1>5, <1>8, <1>9 DEF IInv

\* A step that leaves the record alone is covered by TabStep.  Here a deletion
\* fails with or without its effect on the server.
LEMMA MarkKeeps ==
    ASSUME IInv, NEW t \in Tabs, Mark(t)
    PROVE  IInv'
<1> DEFINE g == tab[t].owner
           c == [tab[t] EXCEPT !.pc = "disown"]
<1>1. Newest \in Nat /\ Sound(tab[t], Newest)
    BY NewestTyped, TabTyped
<1>2. Sound(c, Newest) /\ c.pc = "disown" /\ c.owner = g /\ g \in Ids
    BY MoveOn DEF Mark, DeletePcs
<1>3. Calm(DeletionFailed(tab[t]), Newest)
    BY <1>1, EndsCalm
<1>4. UNCHANGED <<docs, issued, cache>> /\ StoresTyped'
    BY DEF Mark, device, IInv, TypeOK, StoresTyped
<1>5. CASE UNCHANGED record /\ tab' = [tab EXCEPT ![t] = DeletionFailed(tab[t])]
    BY <1>3, <1>4, <1>5, CacheUnchanged, CalmStep DEF server
<1>6. CASE /\ record = [id |-> g, state |-> "ACTIVE"]
           /\ record' = [record EXCEPT !.state = "DELETING"]
           /\ \/ tab' = [tab EXCEPT ![t] = c]
              \/ tab' = [tab EXCEPT ![t] = DeletionFailed(tab[t])]
  <2>1. record' = [id |-> g, state |-> "DELETING"]
    BY <1>6
  <2>2. record # None /\ record' # None /\ record' \in AccountRecord
    BY <1>2, <1>6, <2>1, NoneAssumption DEF AccountRecord
  <2>3. Newest' = Newest /\ Numbered'
    BY <1>4, <1>6, <2>1, <2>2 DEF Newest, IInv, Numbered
  <2>4. \A h \in Ids : ~RulesActive(h)'
    BY <2>1, <2>2 DEF RulesActive
  <2>5. Drained'
    BY <1>4, <1>6, <2>1, <2>2 DEF IInv, Drained
  <2>6. docs' \in [Ids -> SUBSET Docs] /\ issued' \in Ids
    BY <1>4 DEF IInv, TypeOK
  <2>7. PICK x \in {c, DeletionFailed(tab[t])} : tab' = [tab EXCEPT ![t] = x]
    BY <1>6
  <2>8. Sound(x, Newest') /\ x.pc \notin PastDrain /\ (x.pc \in PastGate => x.owner \in Ids)
    BY <1>2, <1>3, <2>3 DEF Calm, PastGate, PastDrain
  <2>9. x.pc \in PastGate => ~RulesActive(x.owner)'
    BY <2>4, <2>8
  <2>10. \A h \in Ids : docs'[h] \subseteq docs[h]
    BY <1>4
  <2>11. x.pc \in PastDrain => docs[x.owner] = {}
    BY <2>8
  <2>12. Newest <= Newest' /\ Newest' \in Nat /\ record' \in AccountRecord \cup {None}
    BY <1>1, <2>2, <2>3
  <2>13. cache' = cache
    BY <1>4
  <2> HIDE DEF c, g
  <2> QED BY <1>4, <2>3, <2>4, <2>5, <2>6, <2>7, <2>8, <2>9, <2>10, <2>11, <2>12, <2>13, ServerStep
<1> QED BY <1>5, <1>6 DEF Mark, Transition

\* The completion finds no document: the drain ended with none, and the gate
\* has been closed since.
LEMMA CompleteKeeps ==
    ASSUME IInv, NEW t \in Tabs, Complete(t)
    PROVE  IInv'
<1> DEFINE g == tab[t].owner
           c == [tab[t] EXCEPT !.pc = "forget"]
<1>1. Newest \in Nat /\ Sound(tab[t], Newest)
    BY NewestTyped, TabTyped
<1>2. Sound(c, Newest) /\ c.pc = "forget" /\ c.owner = g /\ g \in Ids
    BY MoveOn DEF Complete, DeletePcs
<1>3. Calm(DeletionFailed(tab[t]), Newest)
    BY <1>1, EndsCalm
<1>4. UNCHANGED <<docs, issued, cache>> /\ StoresTyped'
    BY DEF Complete, device, IInv, TypeOK, StoresTyped
<1>5. CASE UNCHANGED record /\ tab' = [tab EXCEPT ![t] = DeletionFailed(tab[t])]
    BY <1>3, <1>4, <1>5, CacheUnchanged, CalmStep DEF server
<1>6. CASE /\ record = [id |-> g, state |-> "DELETING"]
           /\ record' = [record EXCEPT !.state = "DELETED"]
           /\ \/ tab' = [tab EXCEPT ![t] = c]
              \/ tab' = [tab EXCEPT ![t] = DeletionFailed(tab[t])]
  <2>1. record' = [id |-> g, state |-> "DELETED"]
    BY <1>6
  <2>2. record # None /\ record' # None /\ record' \in AccountRecord
    BY <1>2, <1>6, <2>1, NoneAssumption DEF AccountRecord
  <2>3. Newest' = Newest /\ Numbered'
    BY <1>4, <1>6, <2>1, <2>2 DEF Newest, IInv, Numbered
  <2>4. \A h \in Ids : ~RulesActive(h)'
    BY <2>1, <2>2 DEF RulesActive
  <2>5. docs[g] = {}
    BY DEF IInv, Emptied, Complete, PastDrain
  <2>6. \A h \in Ids : docs'[h] = {}
    BY <1>4, <1>6, <2>2, <2>5 DEF IInv, Drained
  <2>7. Drained'
    BY <2>6 DEF Drained
  <2>8. docs' \in [Ids -> SUBSET Docs] /\ issued' \in Ids
    BY <1>4 DEF IInv, TypeOK
  <2>9. PICK x \in {c, DeletionFailed(tab[t])} : tab' = [tab EXCEPT ![t] = x]
    BY <1>6
  <2>10. Sound(x, Newest') /\ x.pc \notin PastDrain /\ (x.pc \in PastGate => x.owner \in Ids)
    BY <1>2, <1>3, <2>3 DEF Calm, PastGate, PastDrain
  <2>11. x.pc \in PastGate => ~RulesActive(x.owner)'
    BY <2>4, <2>10
  <2>12. \A h \in Ids : docs'[h] \subseteq docs[h]
    BY <2>6
  <2>13. Newest <= Newest' /\ Newest' \in Nat /\ record' \in AccountRecord \cup {None} /\ cache' = cache
    BY <1>1, <1>4, <2>2, <2>3
  <2>14. x.pc \in PastDrain => docs[x.owner] = {}
    BY <2>10
  <2> HIDE DEF c, g
  <2> QED BY <1>4, <2>3, <2>4, <2>7, <2>8, <2>9, <2>10, <2>11, <2>12, <2>13, <2>14, ServerStep
<1> QED BY <1>5, <1>6 DEF Complete, Transition

\* A batch only removes documents.
LEMMA BatchKeeps ==
    ASSUME IInv, NEW t \in Tabs, Batch(t)
    PROVE  IInv'
<1> DEFINE g == tab[t].owner
           c == [tab[t] EXCEPT !.pc = "drain"]
<1>1. Newest \in Nat /\ Sound(tab[t], Newest)
    BY NewestTyped, TabTyped
<1>2. Sound(c, Newest) /\ c.pc = "drain" /\ c.owner = g /\ g \in Ids
    BY MoveOn DEF Batch, DeletePcs
<1>3. Calm(DeletionFailed(tab[t]), Newest)
    BY <1>1, EndsCalm
<1>4. UNCHANGED <<record, issued, cache>> /\ StoresTyped'
    BY DEF Batch, device, IInv, TypeOK, StoresTyped
<1>5. docs' = docs \/ docs' = [docs EXCEPT ![g] = @ \ tab[t].batch]
    BY DEF Batch
<1>6. docs' \in [Ids -> SUBSET Docs] /\ \A h \in Ids : docs'[h] \subseteq docs[h]
    BY <1>2, <1>5 DEF IInv, TypeOK
<1>7. Drained'
    BY <1>4, <1>6 DEF IInv, Drained
<1>8. PICK x \in {c, DeletionFailed(tab[t])} : tab' = [tab EXCEPT ![t] = x]
    BY DEF Batch
<1>9. ~RulesActive(g)
    BY DEF IInv, Gated, Batch, PastGate
<1>10. Newest' = Newest /\ Numbered' /\ \A h \in Ids : ~RulesActive(h) => ~RulesActive(h)'
    BY <1>4 DEF Newest, IInv, Numbered, RulesActive
<1>11. Sound(x, Newest') /\ x.pc \notin PastDrain /\ (x.pc \in PastGate => x.owner = g)
    BY <1>2, <1>3, <1>10 DEF Calm, PastGate, PastDrain
<1>12. x.pc \in PastGate => ~RulesActive(x.owner)'
    BY <1>2, <1>9, <1>10, <1>11
<1>13. record' \in AccountRecord \cup {None} /\ issued' \in Ids /\ Newest <= Newest' /\ Newest' \in Nat
    BY <1>1, <1>4, <1>10 DEF IInv, TypeOK
<1>14. x.pc \in PastDrain => docs[x.owner] = {}
    BY <1>11
<1> HIDE DEF c, g
<1> QED BY <1>4, <1>6, <1>7, <1>8, <1>10, <1>11, <1>12, <1>13, <1>14, ServerStep

\* An upload reaches the one active generation, which no deletion has drained.
LEMMA UploadKeeps ==
    ASSUME IInv, NEW t \in Tabs, Upload(t)
    PROVE  IInv'
<1> DEFINE g == tab[t].account
<1>1. Newest \in Nat /\ tab[t] \in TabState /\ Sound(tab[t], Newest)
    BY NewestTyped, TabTyped
<1>2. g \in Ids /\ g <= Newest /\ RulesActive(g)
    BY <1>1 DEF Upload, Sound, TabState
<1>3. record # None /\ record.id = g /\ record.state = "ACTIVE"
    BY <1>2 DEF RulesActive, Newest, Ids
<1>4. PICK x \in Docs : docs' = [docs EXCEPT ![g] = @ \cup {x}]
    BY DEF Upload
<1>5. UNCHANGED <<record, issued, cache, dbs, anon, signed, tab, late, disowned>>
    BY DEF Upload, device
<1> HIDE DEF g
<1>6. docs' \in [Ids -> SUBSET Docs] /\ \A h \in Ids : h # g => docs'[h] = docs[h]
    BY <1>2, <1>4 DEF IInv, TypeOK
<1>7. Drained'
    BY <1>3, <1>5, <1>6 DEF IInv, Drained
<1>8. Emptied'
  <2> SUFFICES ASSUME NEW u \in Tabs, tab[u].pc \in PastDrain
               PROVE  docs'[tab[u].owner] = {}
    BY <1>5 DEF Emptied
  <2>1. ~RulesActive(tab[u].owner) /\ docs[tab[u].owner] = {}
    BY DEF IInv, Gated, Emptied, PastDrain, PastGate
  <2>2. tab[u].owner \in Ids
    BY TabTyped DEF Sound, TabState, PastDrain, DeletePcs
  <2> QED BY <1>2, <1>6, <2>1, <2>2
<1>9. TypeOK' /\ Numbered' /\ CachesKnown' /\ Gated' /\ (\A u \in Tabs : Sound(tab[u], Newest))'
    BY <1>5, <1>6 DEF IInv, TypeOK, Numbered, CachesKnown, Gated, Newest, RulesActive
<1> QED BY <1>7, <1>8, <1>9 DEF IInv

\* The first registration finds no documents, caches or accounts.
LEMMA CreateKeeps ==
    ASSUME IInv, NEW t \in Tabs, Create(t)
    PROVE  IInv'
<1> DEFINE v == IF record = None THEN [id |-> Legacy, state |-> "ACTIVE"] ELSE record
           c == [tab[t] EXCEPT !.value = v, !.pc = "got"]
<1>1. Newest \in Nat /\ tab[t] \in TabState /\ Sound(tab[t], Newest)
    BY NewestTyped, TabTyped
<1>2. UNCHANGED <<docs, issued, cache>> /\ StoresTyped' /\ record' = v
    BY DEF Create, device, IInv, TypeOK, StoresTyped
<1>3. Legacy \in Ids /\ v \in AccountRecord /\ v # None /\ v.id \in Ids
    BY BoundsAssumption, NoneAssumption, RecordKnown DEF Legacy, Ids, AccountRecord
<1>4. Newest' = v.id /\ Newest' \in Nat /\ Newest <= Newest'
  <2>1. Newest' = v.id
    BY <1>2, <1>3 DEF Newest
  <2>2. Newest = 0 \/ Newest = v.id
    BY DEF Newest
  <2> QED BY <1>3, <2>1, <2>2 DEF Ids
<1>5. c \in TabState
  <2> HIDE DEF v
  <2> QED BY <1>1, <1>3 DEF TabState, CheckPcs
<1>6. Sound(c, Newest')
  <2>1. Sound(tab[t], Newest')
    BY <1>1, <1>4, SoundAbove
  <2>2. c.value = v /\ c.pc = "got"
    BY <1>1 DEF TabState
  <2> HIDE DEF v
  <2> QED BY <1>1, <1>3, <1>4, <1>5, <2>1, <2>2 DEF Sound, TabState, DeletePcs
<1>7. Sound(Unreached(t), Newest')
    BY <1>1, <1>4, UnreachedCalm, SoundAbove DEF Calm
<1>8. PICK x \in {c, Unreached(t)} : tab' = [tab EXCEPT ![t] = x]
    BY DEF Create
<1>9. Sound(x, Newest') /\ x.pc \notin PastGate /\ x.pc \notin PastDrain
  <2>1. c.pc = "got"
    BY <1>1 DEF TabState
  <2>2. Unreached(t).pc \in {"idle", "read", "dread"}
    BY UnreachedCalm DEF Calm
  <2> HIDE DEF c
  <2> QED BY <1>6, <1>7, <2>1, <2>2 DEF PastGate, PastDrain
<1>10. \A g \in Ids : g <= Newest /\ ~RulesActive(g) => ~RulesActive(g)'
  <2>1. CASE record = None
    <3>1. Newest = 0
        BY <2>1 DEF Newest
    <3> QED BY <3>1 DEF Ids
  <2>2. CASE record # None
    BY <1>2, <2>2 DEF RulesActive
  <2> QED BY <2>1, <2>2
<1>11. Numbered' /\ Drained'
  <2>1. CASE record = None
    <3>1. issued = Legacy /\ \A g \in Ids : docs[g] = {}
        BY <2>1 DEF IInv, Numbered, Drained
    <3> QED BY <1>2, <1>3, <2>1, <3>1 DEF Numbered, Drained
  <2>2. CASE record # None
    BY <1>2, <2>2 DEF IInv, Numbered, Drained
  <2> QED BY <2>1, <2>2
<1>12. docs' \in [Ids -> SUBSET Docs] /\ issued' \in Ids /\ \A g \in Ids : docs'[g] \subseteq docs[g]
    BY <1>2 DEF IInv, TypeOK
<1>13. record' \in AccountRecord \cup {None} /\ cache' = cache
    BY <1>2, <1>3
<1> HIDE DEF c, v
<1> QED BY <1>2, <1>4, <1>8, <1>9, <1>10, <1>11, <1>12, <1>13, ServerStep

\* A registration after a deletion issues a new id and finds no documents.
LEMMA SucceedKeeps ==
    ASSUME IInv, NEW t \in Tabs, Succeed(t)
    PROVE  IInv'
<1> DEFINE v == IF record.state = "DELETED" THEN [id |-> issued + 1, state |-> "ACTIVE"] ELSE record
           c == [tab[t] EXCEPT !.value = v, !.pc = "final", !.todo = Others(v, tab[t].prev)]
<1>1. Newest \in Nat /\ tab[t] \in TabState /\ Sound(tab[t], Newest) /\ tab[t].pc = "succeed"
    BY NewestTyped, TabTyped DEF Succeed
<1>2. UNCHANGED <<docs, cache>> /\ StoresTyped'
    BY DEF Succeed, device, IInv, TypeOK, StoresTyped
<1>3. record # None /\ record \in AccountRecord /\ record.id = issued /\ Newest = issued /\ issued \in Ids
  <2>1. tab[t].value # None /\ tab[t].value.id \in Ids /\ tab[t].value.id <= Newest
    BY <1>1 DEF Sound, TabState, AccountRecord
  <2>2. record # None
    BY <2>1 DEF Newest, Ids
  <2> QED BY <2>2, RecordKnown DEF Newest, IInv, TypeOK, Numbered
<1>4. CASE UNCHANGED <<record, issued>> /\ tab' = [tab EXCEPT ![t] = Unresolved(tab[t])]
    BY <1>1, <1>2, <1>4, CacheUnchanged, EndsCalm, CalmStep DEF server
<1>5. CASE /\ record.state = "DELETED" => issued < MaxGenerations
           /\ record' = v
           /\ issued' = IF record.state = "DELETED" THEN issued + 1 ELSE issued
           /\ \/ tab' = [tab EXCEPT ![t] = c]
              \/ tab' = [tab EXCEPT ![t] = Unresolved(tab[t])]
  <2>1. /\ v \in AccountRecord /\ v # None /\ v.id \in Ids /\ issued' \in Ids
        /\ v.id = issued' /\ issued <= issued' /\ issued' \in Nat
    <3>1. CASE record.state = "DELETED"
        BY <1>3, <1>5, <3>1, BoundsAssumption, NoneAssumption DEF Ids, AccountRecord
    <3>2. CASE record.state # "DELETED"
        BY <1>3, <1>5, <3>2, BoundsAssumption DEF Ids, AccountRecord
    <3> QED BY <3>1, <3>2
  <2>2. Newest' = issued' /\ Newest <= Newest' /\ Newest' \in Nat /\ Numbered'
    BY <1>3, <1>5, <2>1 DEF Newest, Numbered
  <2>3. Sound(tab[t], Newest')
    BY <1>1, <2>2, SoundAbove
  <2>4. Others(v, tab[t].prev) \in Seq(Ids)
    BY <1>1, <2>1, OthersTyped DEF TabState
  <2>5. c \in TabState
    <3> HIDE DEF v
    <3> QED BY <1>1, <2>1, <2>4 DEF TabState, CheckPcs
  <2>6. Sound(c, Newest') /\ c.pc = "final"
    <3>1. c.value = v /\ c.pc = "final"
        BY <1>1 DEF TabState
    <3> HIDE DEF v
    <3> QED BY <1>1, <2>1, <2>2, <2>3, <2>5, <3>1 DEF Sound, TabState, DeletePcs
  <2>7. Calm(Unresolved(tab[t]), Newest')
    BY <2>2, <2>3, EndsCalm
  <2>8. PICK x \in {c, Unresolved(tab[t])} : tab' = [tab EXCEPT ![t] = x]
    BY <1>5
  <2>9. Sound(x, Newest') /\ x.pc \notin PastGate /\ x.pc \notin PastDrain
    <3> HIDE DEF c
    <3> QED BY <2>6, <2>7 DEF Calm, PastGate, PastDrain
  <2>10. \A g \in Ids : g <= Newest /\ ~RulesActive(g) => ~RulesActive(g)'
    <3>1. CASE record.state = "DELETED"
        <4>1. v.id > Newest
            BY <1>3, <3>1 DEF Ids
        <4> QED BY <1>5, <2>1, <4>1, <1>1 DEF RulesActive, Ids
    <3>2. CASE record.state # "DELETED"
        BY <1>5, <3>2 DEF RulesActive
    <3> QED BY <3>1, <3>2
  <2>11. Drained'
    <3>1. CASE record.state = "DELETED"
        <4>1. \A g \in Ids : docs[g] = {}
            BY <3>1 DEF IInv, Drained
        <4> QED BY <1>2, <4>1 DEF Drained
    <3>2. CASE record.state # "DELETED"
        BY <1>2, <1>5, <3>2 DEF IInv, Drained
    <3> QED BY <3>1, <3>2
  <2>12. docs' \in [Ids -> SUBSET Docs] /\ \A g \in Ids : docs'[g] \subseteq docs[g]
    BY <1>2 DEF IInv, TypeOK
  <2>13. record' \in AccountRecord \cup {None} /\ cache' = cache
    BY <1>2, <1>5, <2>1
  <2> HIDE DEF c, v
  <2> QED BY <1>2, <2>1, <2>2, <2>8, <2>9, <2>10, <2>11, <2>12, <2>13, ServerStep
<1> QED BY <1>4, <1>5 DEF Succeed

-----------------------------------------------------------------------------
(* The theorems. *)

\* The initial state satisfies the invariant.
LEMMA InitKeeps == Init => IInv
<1> SUFFICES ASSUME Init PROVE IInv
    OBVIOUS
<1>1. Legacy \in Ids /\ Newest = 0
    BY BoundsAssumption DEF Legacy, Ids, Init, Newest
<1>2. Calm(Closed, 0)
    BY ClosedCalm
<1>3. \A t \in Tabs : tab[t] = Closed
    BY DEF Init
<1>4. TypeOK
    BY <1>1, <1>2, BoundsAssumption DEF Init, TypeOK, Calm, Sound
<1>5. \A t \in Tabs : Sound(tab[t], Newest) /\ tab[t].pc \in {"idle", "read", "dread"}
    BY <1>1, <1>2, <1>3 DEF Calm
<1>6. Gated /\ Emptied
    BY <1>5 DEF Gated, Emptied, PastGate, PastDrain
<1>7. Numbered /\ CachesKnown /\ Drained
    BY DEF Init, Numbered, CachesKnown, Drained
<1> QED BY <1>4, <1>5, <1>6, <1>7 DEF IInv

\* Every step keeps the invariant.
LEMMA NextKeeps == IInv /\ [Next]_vars => IInv'
<1> SUFFICES ASSUME IInv, [Next]_vars PROVE IInv'
    OBVIOUS
<1>1. CASE UNCHANGED vars
    BY <1>1 DEF vars, IInv, TypeOK, Numbered, CachesKnown, Newest, Gated, Emptied, Drained, RulesActive
<1>2. CASE LateRemove
    BY <1>2, LateRemoveKeeps
<1>3. ASSUME NEW t \in Tabs,
             \/ Refresh(t) \/ SignIn(t) \/ SignOut(t) \/ Follow(t) \/ Reload(t)
             \/ ServerRead(t) \/ Outage(t) \/ Create(t) \/ Got(t) \/ Clean(t)
      PROVE  IInv'
    BY <1>3, CallsKeep, SignInKeeps, SessionsKeep, FollowKeeps, ServerReadKeeps, OutageKeeps,
       CreateKeeps, GotKeeps, CleanKeeps
<1>4. ASSUME NEW t \in Tabs,
             \/ Inactive(t) \/ Succeed(t) \/ Finish(t) \/ Boundary(t)
             \/ DeleteAccount(t) \/ DeleteRead(t) \/ Mark(t) \/ Disown(t)
      PROVE  IInv'
    BY <1>4, InactiveKeeps, SucceedKeeps, FinishKeeps, FailuresKeep, CallsKeep, DeleteReadKeeps,
       MarkKeeps, DisownKeeps
<1>5. ASSUME NEW t \in Tabs,
             \/ Drain(t) \/ Batch(t) \/ DeleteLocal(t) \/ Complete(t)
             \/ Forget(t) \/ Interrupted(t) \/ Store(t) \/ Claim(t) \/ Upload(t)
      PROVE  IInv'
    BY <1>5, DrainKeeps, BatchKeeps, DeleteLocalKeeps, CompleteKeeps, ForgetKeeps, FailuresKeep,
       ContextKeeps, UploadKeeps
<1> QED BY <1>1, <1>2, <1>3, <1>4, <1>5 DEF Next

\* The types, the closed gate and the empty documents hold together in every
\* reachable state, for any devices, tabs, documents and generations.
THEOREM Inductive == Spec => []IInv
BY InitKeeps, NextKeeps, PTL DEF Spec

\* Every variable has its type, for any devices, tabs, documents and
\* generations.
THEOREM LifecycleTypes == Spec => []TypeOK
<1>1. IInv => TypeOK
    BY DEF IInv
<1> QED BY Inductive, <1>1, PTL

\* A deleted account leaves no remote Project behind, for any devices, tabs,
\* documents and generations, however uploads, crashes and retried deletions
\* interleave.
THEOREM NothingLeftBehind == Spec => []Drained
<1>1. IInv => Drained
    BY DEF IInv
<1> QED BY Inductive, <1>1, PTL
=============================================================================
