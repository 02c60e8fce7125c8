-------------------------- MODULE AccountLifecycle --------------------------
(***************************************************************************)
(* The NavMate account of one Google identity: its server record and its   *)
(* remote Projects (firebase/firestore.rules), and on every device the     *)
(* cached account id, the account's local databases and the anonymous      *)
(* original it claimed.  A tab runs FirebaseAuthProvider                   *)
(* (web/src/firebaseAuthProvider.ts) over currentAccount and               *)
(* deleteCurrentAccount (web/src/accountLifecycle.ts).                     *)
(*                                                                         *)
(* An account id names one generation.  Legacy is the id derived from the  *)
(* Google subject, every later one is a new UUID.  A step ends where the   *)
(* code awaits the server, or the deletion of a local database; a server   *)
(* read and the use of its answer are two steps.                           *)
(***************************************************************************)
EXTENDS Naturals, Sequences, FiniteSets

CONSTANTS Devices, Tabs,
          DeviceOf,         \* the device of each tab
          Docs,             \* remote Projects of a generation
          BatchLimit,       \* documents removed by one batch
          MaxGenerations,   \* bound: accounts ever registered
          MaxLate,          \* bound: removals going on in superseded calls
          Originals,        \* devices with an anonymous original to claim
          None

ASSUME TabsAssumption == DeviceOf \in [Tabs -> Devices]
ASSUME BoundsAssumption ==
    /\ MaxGenerations \in Nat \ {0}
    /\ BatchLimit \in Nat \ {0}
    /\ MaxLate \in Nat
    /\ Originals \subseteq Devices
    /\ IsFiniteSet(Docs)

Legacy == 1
Ids == 1..MaxGenerations

AccountRecord == [id : Ids, state : {"ACTIVE", "DELETING", "DELETED"}]

ASSUME NoneAssumption == None \notin AccountRecord \cup [id : Ids, retired : BOOLEAN] \cup Nat

VARIABLES
    record,    \* the server's account record, or None
    docs,      \* [Ids -> remote Projects of that generation]
    issued,    \* ids issued so far
    cache,     \* [Devices -> the cached id, possibly retired, or None]
    dbs,       \* [Devices -> ids that have a local database]
    anon,      \* [Devices -> owner of the anonymous original, 0 unclaimed, or None]
    signed,    \* [Devices -> whether Firebase persists a signed-in user]
    tab,       \* [Tabs -> the provider's state and its asynchronous call]
    late,      \* local removals of calls that were superseded meanwhile
    disowned   \* history: <<device, id>> whose deletion passed its server gate there

vars == <<record, docs, issued, cache, dbs, anon, signed, tab, late, disowned>>
device == <<cache, dbs, anon, signed>>
server == <<record, docs, issued>>

CheckPcs == {"read", "create", "got", "clean", "succeed", "final"}
DeletePcs == {"dread", "mark", "disown", "drain", "batch", "dclean", "finish", "forget"}

TabState ==
    [user : BOOLEAN,                       \* auth.currentUser
     account : Ids \cup {0},               \* the account of the open context
     pending : BOOLEAN,                    \* deletionPending
     pc : {"idle"} \cup CheckPcs \cup DeletePcs,
     mode : {"check", "register", "delete", "after"},
     value : AccountRecord \cup {None},    \* the record as read
     prev : Ids \cup {0},                  \* the id cached before
     todo : Seq(Ids),                      \* local copies still to remove
     owner : Ids \cup {0},                 \* the account to delete
     batch : SUBSET Docs]

Closed == [user |-> FALSE, account |-> 0, pending |-> FALSE, pc |-> "idle", mode |-> "check",
           value |-> None, prev |-> 0, todo |-> <<>>, owner |-> 0, batch |-> {}]

Init ==
    /\ record = None
    /\ docs = [g \in Ids |-> {}]
    /\ issued = Legacy
    /\ cache = [d \in Devices |-> None]
    /\ dbs = [d \in Devices |-> {}]
    /\ anon = [d \in Devices |-> IF d \in Originals THEN 0 ELSE None]
    /\ signed = [d \in Devices |-> FALSE]
    /\ tab = [t \in Tabs |-> Closed]
    /\ late = {}
    /\ disowned = {}

-----------------------------------------------------------------------------
(* The Rules. *)

\* (broken) an account in deletion still takes uploads
RulesActiveOrDeleting(g) ==
    \/ record = None /\ g = Legacy
    \/ record # None /\ record.id = g /\ record.state # "DELETED"

RulesActive(g) ==
    \/ record = None /\ g = Legacy
    \/ record # None /\ record.id = g /\ record.state = "ACTIVE"
RulesDeleting(g) == record # None /\ record.id = g /\ record.state = "DELETING"
RulesRead(g) == RulesActive(g) \/ RulesDeleting(g)

-----------------------------------------------------------------------------
(* Building blocks. *)

\* publish() and the end of the asynchronous call.
Published(c, account, pending) == [c EXCEPT !.account = account, !.pending = pending]
Done(c) == [Closed EXCEPT !.user = c.user, !.account = c.account, !.pending = c.pending]
Started(c, mode, owner) == [Done(c) EXCEPT !.pc = "read", !.mode = mode, !.owner = owner]

CachedId(d) == IF cache[d] = None THEN 0 ELSE cache[d].id
Retired(g) == [id |-> g, retired |-> TRUE]
Usable(d) == cache[d] # None /\ ~cache[d].retired

\* Removals that a superseded call has begun and still performs.
Leftover(t) == {<<t, tab[t].todo[i]>> : i \in 1..Len(tab[t].todo)}
Supersede(t) ==
    /\ late' = late \cup Leftover(t)
    /\ Cardinality(late') <= MaxLate

\* (broken) the claimed original survives its account
RemoveDatabaseOnly(d, g) ==
    /\ dbs' = [dbs EXCEPT ![d] = @ \ {g}]
    /\ UNCHANGED anon

\* removeLocalAccount.  It may stop after the database, or do nothing.
Remove(d, g) ==
    /\ dbs' = [dbs EXCEPT ![d] = @ \ {g}]
    /\ anon' = [anon EXCEPT ![d] = IF @ = g THEN None ELSE @]
RemoveFails(d, g) ==
    /\ dbs' = dbs \/ dbs' = [dbs EXCEPT ![d] = @ \ {g}]
    /\ UNCHANGED anon

\* The tab after its account check succeeded or failed.
Resolved(c, g, deleting) ==
    CASE c.mode \in {"check", "register"} -> Done(Published(c, IF deleting THEN 0 ELSE g, deleting))
      [] c.mode = "after" -> Done(IF deleting THEN Published(c, 0, TRUE) ELSE c)
      [] c.mode = "delete" ->
            IF c.owner = g \/ (c.owner = 0 /\ deleting)
            THEN [Done(c) EXCEPT !.pc = "dread", !.mode = "delete", !.owner = g]
            ELSE IF c.pending THEN Done(Published(c, 0, TRUE)) ELSE Started(c, "after", 0)

\* deleteAccount's handler: once the server gate is set the tab stays pending,
\* otherwise the record decides.
DeletionFailed(c) ==
    IF c.pending THEN Done(Published(c, 0, TRUE)) ELSE Started(c, "after", 0)

Unresolved(c) ==
    CASE c.mode \in {"check", "register"} -> Done(Published(c, 0, FALSE))
      [] c.mode = "after" -> Done(c)
      [] c.mode = "delete" -> DeletionFailed(c)

Deleted(c) == IF c.mode = "after" THEN Done(c) ELSE Done(Published(c, 0, FALSE))
RemovalPending(c) == Done(Published(c, 0, TRUE))

\* assertCurrent of a deletion's own check: its user is still signed in.
Owned(c) == c.mode = "delete" => c.user

\* A call that a later accept() may supersede.
Replaceable(t) == tab[t].pc = "idle" \/ tab[t].mode = "check"

-----------------------------------------------------------------------------
(* The provider. *)

\* Focus, reconnect, the timer or a token event.
Refresh(t) ==
    /\ tab[t].user
    /\ Replaceable(t)
    /\ tab' = [tab EXCEPT ![t] = Started(@, "check", 0)]
    /\ Supersede(t)
    /\ UNCHANGED <<server, device, disowned>>

\* signInWith: an explicit Google login.
SignIn(t) ==
    /\ tab[t].account = 0
    /\ Replaceable(t)
    /\ tab' = [tab EXCEPT ![t] = Started([@ EXCEPT !.user = TRUE], "register", 0)]
    /\ signed' = [signed EXCEPT ![DeviceOf[t]] = TRUE]
    /\ Supersede(t)
    /\ UNCHANGED <<server, cache, dbs, anon, disowned>>

SignOut(t) ==
    /\ tab[t].user
    /\ Replaceable(t) \/ tab[t].mode = "register"
    /\ tab' = [tab EXCEPT ![t] = Closed]
    /\ signed' = [signed EXCEPT ![DeviceOf[t]] = FALSE]
    /\ Supersede(t)
    /\ UNCHANGED <<server, cache, dbs, anon, disowned>>

\* Another tab of the device signed in or out.
Follow(t) ==
    LET d == DeviceOf[t] IN
    /\ tab[t].user # signed[d]
    /\ IF tab[t].mode \in {"delete", "after"}
       THEN \* the requests of the running deletion will be refused
            /\ ~signed[d]
            /\ tab' = [tab EXCEPT ![t] = Published([@ EXCEPT !.user = FALSE], 0, FALSE)]
            /\ UNCHANGED late
       ELSE /\ tab' = [tab EXCEPT ![t] =
                        IF signed[d] THEN Started([@ EXCEPT !.user = TRUE], "check", 0) ELSE Closed]
            /\ Supersede(t)
    /\ UNCHANGED <<server, device, disowned>>

\* The page is reloaded, or crashes and is opened again.
Reload(t) ==
    LET d == DeviceOf[t] IN
    /\ tab[t].user \/ tab[t].pc # "idle"
    /\ tab' = [tab EXCEPT ![t] = IF signed[d] THEN Started([Closed EXCEPT !.user = TRUE], "check", 0)
                                 ELSE Closed]
    /\ late' = {x \in late : x[1] # t}
    /\ UNCHANGED <<server, device, disowned>>

-----------------------------------------------------------------------------
(* currentAccount. *)

ServerRead(t) ==
    /\ tab[t].pc = "read"
    /\ tab[t].user
    /\ tab' = [tab EXCEPT ![t].value = record,
                          ![t].pc = IF record = None THEN "create" ELSE "got"]
    /\ UNCHANGED <<server, device, late, disowned>>

\* Offline, or the server cannot be reached: the cached id, unless retired.
Unreached(t) ==
    IF tab[t].user /\ Usable(DeviceOf[t])
    THEN Resolved(tab[t], CachedId(DeviceOf[t]), FALSE)
    ELSE Unresolved(tab[t])

Outage(t) ==
    /\ tab[t].pc \in {"read", "create"}
    /\ tab' = [tab EXCEPT ![t] = Unreached(t)]
    /\ UNCHANGED <<server, device, late, disowned>>

\* The first login creates the record, unless it exists by now.  The reply may
\* be lost.
Create(t) ==
    LET v == IF record = None THEN [id |-> Legacy, state |-> "ACTIVE"] ELSE record IN
    /\ tab[t].pc = "create"
    /\ tab[t].user
    /\ record' = v
    /\ \/ tab' = [tab EXCEPT ![t].value = v, ![t].pc = "got"]
       \/ tab' = [tab EXCEPT ![t] = Unreached(t)]
    /\ UNCHANGED <<docs, issued, device, late, disowned>>

\* (broken) the cached id is removed although it is the current one
OthersAlways(v, prev) == IF prev = 0 THEN <<>> ELSE <<prev>>

\* What a check has to remove before it may cache the record's id.
Others(v, prev) ==
    (IF prev \in {0, v.id} THEN <<>> ELSE <<prev>>)
        \o (IF v.id = Legacy THEN <<>> ELSE <<Legacy>>)

\* closeOldContext of each caller.
ContextClosed(c) ==
    CASE c.mode \in {"check", "register"} -> Published(c, 0, c.pending)
      [] c.mode = "delete" -> Published(c, 0, FALSE)
      [] c.mode = "after" -> c

\* The answer arrives: an inactive or another generation closes the context and
\* retires the cache.
Got(t) ==
    LET d == DeviceOf[t]
        v == tab[t].value
        prev == CachedId(d)
        stale == v.state # "ACTIVE" \/ prev \notin {0, v.id}
    IN
    /\ tab[t].pc = "got"
    /\ Owned(tab[t])
    /\ cache' = [cache EXCEPT ![d] = IF stale THEN Retired(IF prev = 0 THEN v.id ELSE prev) ELSE @]
    /\ tab' = [tab EXCEPT ![t] =
                  [(IF stale THEN ContextClosed(@) ELSE @) EXCEPT
                      !.prev = prev,
                      !.pc = IF v.state = "ACTIVE" THEN "final" ELSE "clean",
                      !.todo = IF v.state = "ACTIVE" THEN Others(v, prev)
                               ELSE <<v.id>> \o (IF prev \in {0, v.id} THEN <<>> ELSE <<prev>>)]]
    /\ UNCHANGED <<server, dbs, anon, signed, late, disowned>>

Clean(t) ==
    /\ tab[t].pc \in {"clean", "final"}
    /\ tab[t].todo # <<>>
    /\ \/ /\ Remove(DeviceOf[t], Head(tab[t].todo))
          /\ tab' = [tab EXCEPT ![t].todo = Tail(@)]
       \/ /\ RemoveFails(DeviceOf[t], Head(tab[t].todo))
          /\ tab' = [tab EXCEPT ![t] = IF @.pc = "clean" /\ @.value.state = "DELETING"
                                       THEN IF @.mode = "after" THEN Done(@) ELSE RemovalPending(@)
                                       ELSE Unresolved(@)]
       \/ \* the failed removal of an outage opens the cached account
          /\ RemoveFails(DeviceOf[t], Head(tab[t].todo))
          /\ tab[t].pc = "final" /\ Usable(DeviceOf[t])
          /\ tab' = [tab EXCEPT ![t] = Resolved(@, CachedId(DeviceOf[t]), FALSE)]
    /\ UNCHANGED <<server, cache, signed, late, disowned>>

\* A deletion in progress or completed: nothing is opened.
Inactive(t) ==
    LET c == tab[t] IN
    /\ c.pc = "clean"
    /\ c.todo = <<>>
    /\ Owned(c)
    /\ IF c.value.state = "DELETING"
       THEN /\ tab' = [tab EXCEPT ![t] = Resolved(c, c.value.id, TRUE)]
            /\ UNCHANGED cache
       ELSE IF c.mode = "register"
       THEN /\ tab' = [tab EXCEPT ![t].pc = "succeed"]
            /\ UNCHANGED cache
       ELSE /\ tab' = [tab EXCEPT ![t] = Deleted(c)]
            /\ cache' = [cache EXCEPT ![DeviceOf[t]] = None]
    /\ UNCHANGED <<server, dbs, anon, signed, late, disowned>>

\* An explicit login after a deletion registers the next generation.
Succeed(t) ==
    LET new == [id |-> issued + 1, state |-> "ACTIVE"]
        v == IF record.state = "DELETED" THEN new ELSE record
    IN
    /\ tab[t].pc = "succeed"
    /\ tab[t].user
    /\ \/ /\ record.state = "DELETED" => issued < MaxGenerations
          /\ record' = v
          /\ issued' = IF record.state = "DELETED" THEN issued + 1 ELSE issued
          /\ \/ tab' = [tab EXCEPT ![t].value = v, ![t].pc = "final",
                                   ![t].todo = Others(v, tab[t].prev)]
             \/ tab' = [tab EXCEPT ![t] = Unresolved(@)]
       \/ tab' = [tab EXCEPT ![t] = Unresolved(@)] /\ UNCHANGED <<record, issued>>
    /\ UNCHANGED <<docs, device, late, disowned>>

\* The id is cached and the context opened.
Finish(t) ==
    LET c == tab[t] IN
    /\ c.pc = "final"
    /\ c.todo = <<>>
    /\ Owned(c)
    /\ cache' = [cache EXCEPT ![DeviceOf[t]] = [id |-> c.value.id, retired |-> FALSE]]
    /\ tab' = [tab EXCEPT ![t] = Resolved(c, c.value.id, c.value.state = "DELETING")]
    /\ UNCHANGED <<server, dbs, anon, signed, late, disowned>>

\* The user was signed out elsewhere before the deletion began.
Boundary(t) ==
    /\ tab[t].pc \in {"got", "clean", "final"}
    /\ tab[t].pc = "got" \/ tab[t].todo = <<>>
    /\ ~Owned(tab[t])
    /\ tab' = [tab EXCEPT ![t] = DeletionFailed(@)]
    /\ UNCHANGED <<server, device, late, disowned>>

LateRemove ==
    \E x \in late :
        /\ late' = late \ {x}
        /\ Remove(DeviceOf[x[1]], x[2]) \/ RemoveFails(DeviceOf[x[1]], x[2])
        /\ UNCHANGED <<server, cache, signed, tab, disowned>>

-----------------------------------------------------------------------------
(* deleteAccount and deleteCurrentAccount. *)

DeleteAccount(t) ==
    /\ tab[t].user
    /\ Replaceable(t)
    /\ tab[t].account # 0 \/ tab[t].pending
    /\ tab' = [tab EXCEPT ![t] = Started(@, "delete", tab[t].account)]
    /\ Supersede(t)
    /\ UNCHANGED <<server, device, disowned>>

DeleteRead(t) ==
    LET c == tab[t] IN
    /\ c.pc = "dread"
    /\ tab[t].user
    /\ tab' = [tab EXCEPT ![t] =
                  IF record = None THEN DeletionFailed(c)
                  ELSE IF record.id # c.owner \/ record.state = "DELETED" THEN DeletionFailed(c)
                  ELSE [c EXCEPT !.pc = IF record.state = "ACTIVE" THEN "mark" ELSE "disown"]]
    /\ UNCHANGED <<server, device, late, disowned>>

\* The transaction takes effect; its reply may be lost.
Transition(t, from, to, pc) ==
    LET c == tab[t] IN
    IF record = [id |-> c.owner, state |-> from]
    THEN /\ record' = [record EXCEPT !.state = to]
         /\ \/ tab' = [tab EXCEPT ![t].pc = pc]
            \/ tab' = [tab EXCEPT ![t] = DeletionFailed(c)]
    ELSE tab' = [tab EXCEPT ![t] = DeletionFailed(c)] /\ UNCHANGED record

Mark(t) ==
    /\ tab[t].pc = "mark"
    /\ tab[t].user
    /\ Transition(t, "ACTIVE", "DELETING", "disown")
    /\ UNCHANGED <<docs, issued, device, late, disowned>>

\* (broken) the deleting device keeps its offline cache
DisownLater(t) ==
    LET d == DeviceOf[t] IN
    /\ tab[t].pc = "disown"
    /\ tab' = [tab EXCEPT ![t] = Published([@ EXCEPT !.pc = "drain"], 0, TRUE)]
    /\ disowned' = disowned \cup {<<d, tab[t].owner>>}
    /\ UNCHANGED <<server, device, late>>

\* The server gate is durable: this device gives the generation up.
Disown(t) ==
    LET d == DeviceOf[t] IN
    /\ tab[t].pc = "disown"
    /\ cache' = [cache EXCEPT ![d] = Retired(tab[t].owner)]
    /\ tab' = [tab EXCEPT ![t] = Published([@ EXCEPT !.pc = "drain"], 0, TRUE)]
    /\ disowned' = disowned \cup {<<d, tab[t].owner>>}
    /\ UNCHANGED <<server, dbs, anon, signed, late>>

\* (broken) one batch is taken for all
DrainOnce(t) ==
    LET c == tab[t] IN
    /\ c.pc = "drain"
    /\ tab[t].user
    /\ IF ~RulesRead(c.owner) THEN tab' = [tab EXCEPT ![t] = DeletionFailed(c)]
       ELSE IF docs[c.owner] = {} \/ c.batch # {} THEN tab' = [tab EXCEPT ![t].pc = "dclean"]
       ELSE \E b \in SUBSET docs[c.owner] :
               /\ b # {} /\ Cardinality(b) <= BatchLimit
               /\ tab' = [tab EXCEPT ![t].pc = "batch", ![t].batch = b]
    /\ UNCHANGED <<server, device, late, disowned>>

Drain(t) ==
    LET c == tab[t] IN
    /\ c.pc = "drain"
    /\ tab[t].user
    /\ IF ~RulesRead(c.owner) THEN tab' = [tab EXCEPT ![t] = DeletionFailed(c)]
       ELSE IF docs[c.owner] = {} THEN tab' = [tab EXCEPT ![t].pc = "dclean"]
       ELSE \E b \in SUBSET docs[c.owner] :
               /\ b # {} /\ Cardinality(b) <= BatchLimit
               /\ tab' = [tab EXCEPT ![t].pc = "batch", ![t].batch = b]
    /\ UNCHANGED <<server, device, late, disowned>>

Batch(t) ==
    LET c == tab[t] IN
    /\ c.pc = "batch"
    /\ tab[t].user
    /\ IF RulesDeleting(c.owner)
       THEN /\ docs' = [docs EXCEPT ![c.owner] = @ \ c.batch]
            /\ \/ tab' = [tab EXCEPT ![t].pc = "drain"]
               \/ tab' = [tab EXCEPT ![t] = DeletionFailed(c)]
       ELSE tab' = [tab EXCEPT ![t] = DeletionFailed(c)] /\ UNCHANGED docs
    /\ UNCHANGED <<record, issued, device, late, disowned>>

DeleteLocal(t) ==
    LET d == DeviceOf[t] IN
    /\ tab[t].pc = "dclean"
    /\ \/ Remove(d, tab[t].owner) /\ tab' = [tab EXCEPT ![t].pc = "finish"]
       \/ RemoveFails(d, tab[t].owner) /\ tab' = [tab EXCEPT ![t] = DeletionFailed(@)]
    /\ UNCHANGED <<server, cache, signed, late, disowned>>

Complete(t) ==
    /\ tab[t].pc = "finish"
    /\ tab[t].user
    /\ Transition(t, "DELETING", "DELETED", "forget")
    /\ UNCHANGED <<docs, issued, device, late, disowned>>

Forget(t) ==
    LET d == DeviceOf[t] IN
    /\ tab[t].pc = "forget"
    /\ cache' = [cache EXCEPT ![d] = None]
    /\ tab' = [tab EXCEPT ![t] = Closed]
    /\ signed' = [signed EXCEPT ![d] = FALSE]
    /\ UNCHANGED <<server, dbs, anon, late, disowned>>

\* The server cannot be reached, or the user was signed out elsewhere.
Interrupted(t) ==
    /\ tab[t].pc \in {"dread", "mark", "drain", "batch", "finish"}
    /\ tab' = [tab EXCEPT ![t] = DeletionFailed(@)]
    /\ UNCHANGED <<server, device, late, disowned>>

-----------------------------------------------------------------------------
(* The open context. *)

\* A save, or a download, puts a row into the account's database.
Store(t) ==
    LET d == DeviceOf[t] IN
    /\ tab[t].account # 0
    /\ dbs' = [dbs EXCEPT ![d] = @ \cup {tab[t].account}]
    /\ UNCHANGED <<server, cache, anon, signed, tab, late, disowned>>

\* claimAnonymous().  Store puts the claimed rows into the account's database.
Claim(t) ==
    LET d == DeviceOf[t]
        g == tab[t].account
    IN
    /\ g # 0
    /\ anon[d] \in {0, g}
    /\ anon' = [anon EXCEPT ![d] = g]
    /\ UNCHANGED <<server, cache, dbs, signed, tab, late, disowned>>

\* A commit reaches the server while the Rules admit the generation.
Upload(t) ==
    LET g == tab[t].account IN
    /\ g # 0
    /\ g \in dbs[DeviceOf[t]]
    /\ RulesActive(g)
    /\ \E x \in Docs : docs' = [docs EXCEPT ![g] = @ \cup {x}]
    /\ UNCHANGED <<record, issued, device, tab, late, disowned>>

Next ==
    \/ \E t \in Tabs :
          \/ Refresh(t) \/ SignIn(t) \/ SignOut(t) \/ Follow(t) \/ Reload(t)
          \/ ServerRead(t) \/ Outage(t) \/ Create(t) \/ Got(t) \/ Clean(t)
          \/ Inactive(t) \/ Succeed(t) \/ Finish(t) \/ Boundary(t)
          \/ DeleteAccount(t) \/ DeleteRead(t) \/ Mark(t) \/ Disown(t)
          \/ Drain(t) \/ Batch(t) \/ DeleteLocal(t) \/ Complete(t)
          \/ Forget(t) \/ Interrupted(t)
          \/ Store(t) \/ Claim(t) \/ Upload(t)
    \/ LateRemove

Spec == Init /\ [][Next]_vars

-----------------------------------------------------------------------------
(* Properties. *)

\* Every variable has its type.
TypeOK ==
    /\ record \in AccountRecord \cup {None}
    /\ docs \in [Ids -> SUBSET Docs]
    /\ issued \in Ids
    /\ cache \in [Devices -> [id : Ids, retired : BOOLEAN] \cup {None}]
    /\ dbs \in [Devices -> SUBSET Ids]
    /\ anon \in [Devices -> Ids \cup {0, None}]
    /\ signed \in [Devices -> BOOLEAN]
    /\ tab \in [Tabs -> TabState]
    /\ late \subseteq Tabs \X Ids
    /\ disowned \subseteq Devices \X Ids

\* A deleted account leaves no remote Project behind, whoever uploads or
\* retries the deletion meanwhile: only the record's generation, and only until
\* its deletion is marked complete, has any.
Drained ==
    \A g \in Ids : docs[g] # {} =>
        record # None /\ record.id = g /\ record.state # "DELETED"

\* A device does not open a generation again whose deletion has passed the
\* server gate on this device, also offline ("An interrupted deletion must not
\* reopen this generation from the deleting device's offline cache").
NotReopenedStep ==
    \A t \in Tabs :
        tab'[t].account # tab[t].account => <<DeviceOf[t], tab'[t].account>> \notin disowned
NotReopened == [][NotReopenedStep]_vars

\* Local copies are only removed of generations that are not the live account.
ErasesOnlyDeadStep ==
    \A d \in Devices : \A g \in dbs[d] \ dbs'[d] :
        ~(record # None /\ record.id = g /\ record.state = "ACTIVE")
ErasesOnlyDead == [][ErasesOnlyDeadStep]_vars

\* The account is marked deleted after the deleting device has removed its
\* database and claimed original ("removes its account IndexedDB namespace and
\* anonymous originals claimed by that ID, then marks the account DELETED").
MarkedAfterErasedStep ==
    \A t \in Tabs :
        tab[t].pc = "finish" /\ tab'[t] # tab[t] /\ record' # record =>
            /\ tab[t].owner \notin dbs[DeviceOf[t]]
            /\ anon[DeviceOf[t]] # tab[t].owner
MarkedAfterErased == [][MarkedAfterErasedStep]_vars
=============================================================================
