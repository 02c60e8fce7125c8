--------------------------- MODULE WebSessionsProofs ---------------------------
(***************************************************************************)
(* Proofs about WebSessions: what is kept of calculations is what it says  *)
(* it is, a pinned forecast is replaced on a second click only, and what   *)
(* an autosaving session works on is durable first.  The three rest on one *)
(* inductive invariant.  It adds to the stated properties that tokens are  *)
(* numbered as they are issued, that a calculation under way has a Project *)
(* (RunningOK), that the store files a Project under its own id (StoreOK)  *)
(* and that an intent to refresh is for the inputs the session has, in the *)
(* rounding mode it was announced in (IntentOK).                           *)
(***************************************************************************)
EXTENDS WebSessions, FiniteSetTheorems, SequenceTheorems, TLAPS

Jobs == [kind : {"calculate", "update"}, rounding : BOOLEAN, refresh : BOOLEAN]
Stores == [draft : [WebProjects -> WebProject \cup {Nothing}],
           saved : [WebProjects -> WebProject \cup {Nothing}],
           record : [WebProjects -> Working \cup {Nothing}],
           opened : WebProjects \cup {Nothing}, latest : WebProjects \cup {Nothing}]

Elements(s) == {s[i] : i \in 1 .. Len(s)}
Distinct(s) == \A i, j \in 1 .. Len(s) : s[i] = s[j] => i = j

\* The order of use of the sessions in tokens.
OrderOK(tokens, s) == /\ s \in Seq(Tokens) /\ Distinct(s)
                      /\ tokens = Elements(s) /\ Len(s) <= MaximumSessions

TokensOK == /\ \E n \in 0 .. MaxTokens : DOMAIN mem = 1 .. n
            /\ table \subseteq DOMAIN mem

SessionOK(s) == /\ s \in WebSession /\ Paired(s.last)
                /\ s.outcome # Nothing /\ s.outcome.rounded => s.rounding

\* An intent to refresh, and the mode v it was announced in.
IntentOK(s, v) == s.intent # Nothing => /\ s.project # Nothing /\ v \in BOOLEAN
                                        /\ s.intent = ForecastFingerprint(s.project, v)

SessionsOK == /\ mem = [t \in DOMAIN mem |-> mem[t]] /\ told = [t \in DOMAIN mem |-> told[t]]
              /\ \A t \in DOMAIN mem : SessionOK(mem[t]) /\ IntentOK(mem[t], told[t])

RunningOK == /\ DOMAIN running \subseteq DOMAIN mem
             /\ \A t \in DOMAIN running : running[t] \in Jobs /\ mem[t].project # Nothing

Filed(s) == \A p \in WebProjects : /\ s.draft[p] # Nothing => s.draft[p].id = p
                                   /\ s.saved[p] # Nothing => s.saved[p].id = p
                                   /\ s.record[p] # Nothing => s.record[p].project.id = p
                                   /\ Paired(s.record[p])

StoreOK(s) == s \in Stores /\ Filed(s)

CountersOK == /\ newest \in 1 .. MaxRun
              /\ requests \in 0 .. MaxRequests /\ writeFaults \in 0 .. MaxWriteFaults

IInv == /\ TokensOK /\ OrderOK(table, order) /\ SessionsOK /\ RunningOK
        /\ StoreOK(store) /\ CountersOK

(* --- constants and sequences ------------------------------------------- *)

\* What the assumption says of the bounds and of absence.
LEMMA Bounds == /\ MaximumSessions \in Nat \ {0} /\ MaxRun \in Nat \ {0}
                /\ MaxTokens \in Nat /\ MaxSaves \in Nat /\ MaxRequests \in Nat
                /\ MaxWriteFaults \in Nat
                /\ Nothing \notin WebProject /\ Nothing \notin WebProjects
                /\ Nothing \notin WebProjects \X Inputs \X BOOLEAN
BY WebAssumption DEF WebAssumption

\* The index at which a distinct sequence has an element is the one RemoveFirst finds.
LEMMA FoundAt ==
  ASSUME NEW s, Len(s) \in Nat, Distinct(s), NEW k \in 1 .. Len(s)
  PROVE  RemoveFirst(s, s[k]) = SubSeq(s, 1, k - 1) \o SubSeq(s, k + 1, Len(s))
<1> DEFINE I == {i \in 1 .. Len(s) : s[i] = s[k]}
<1>1. I = {k}
    BY DEF Distinct
<1>2. Min(I) = k
    BY <1>1 DEF Min
<1>3. SelectInSeq(s, LAMBDA v : v = s[k]) = k
    BY <1>1, <1>2 DEF SelectInSeq
<1>4. \E i \in 1 .. Len(s) : s[i] = s[k]
    OBVIOUS
<1> QED BY <1>3, <1>4 DEF RemoveFirst, RemoveAt

\* Taking an element out of a distinct sequence.
LEMMA RemovedOnce ==
  ASSUME NEW S, NEW s \in Seq(S), Distinct(s), NEW e \in Elements(s)
  PROVE  /\ RemoveFirst(s, e) \in Seq(S) /\ Distinct(RemoveFirst(s, e))
         /\ Elements(RemoveFirst(s, e)) = Elements(s) \ {e}
         /\ Len(RemoveFirst(s, e)) = Len(s) - 1
<1>1. PICK k \in 1 .. Len(s) : e = s[k]
    BY DEF Elements
<1> DEFINE r == SubSeq(s, 1, k - 1) \o SubSeq(s, k + 1, Len(s))
<1>2. RemoveFirst(s, e) = r
    BY <1>1, FoundAt, LenProperties
<1>3. Len(s) \in Nat
    BY LenProperties
<1>4. /\ SubSeq(s, 1, k - 1) \in Seq(S) /\ Len(SubSeq(s, 1, k - 1)) = k - 1
      /\ \A i \in 1 .. k - 1 : SubSeq(s, 1, k - 1)[i] = s[i]
    BY <1>3
<1>5. /\ SubSeq(s, k + 1, Len(s)) \in Seq(S) /\ Len(SubSeq(s, k + 1, Len(s))) = Len(s) - k
      /\ \A i \in 1 .. Len(s) - k : SubSeq(s, k + 1, Len(s))[i] = s[k + i]
    BY <1>3
<1>6. /\ r \in Seq(S) /\ Len(r) = Len(s) - 1
      /\ \A i \in 1 .. Len(s) - 1 : r[i] = IF i < k THEN s[i] ELSE s[i + 1]
  <2> DEFINE a == SubSeq(s, 1, k - 1)
             b == SubSeq(s, k + 1, Len(s))
  <2>1. /\ a \in Seq(S) /\ Len(a) = k - 1 /\ \A i \in 1 .. k - 1 : a[i] = s[i]
        /\ b \in Seq(S) /\ Len(b) = Len(s) - k /\ \A i \in 1 .. Len(s) - k : b[i] = s[k + i]
      BY <1>4, <1>5
  <2> HIDE DEF a, b
  <2>2. /\ a \o b \in Seq(S) /\ Len(a \o b) = Len(a) + Len(b)
        /\ \A i \in 1 .. Len(a) + Len(b) :
             (a \o b)[i] = IF i <= Len(a) THEN a[i] ELSE b[i - Len(a)]
      BY <2>1, ConcatProperties
  <2>3. Len(a) + Len(b) = Len(s) - 1
      BY <1>3, <2>1
  <2>4. ASSUME NEW i \in 1 .. Len(s) - 1
        PROVE  (a \o b)[i] = IF i < k THEN s[i] ELSE s[i + 1]
    <3>1. (a \o b)[i] = IF i <= k - 1 THEN a[i] ELSE b[i - (k - 1)]
        BY <2>1, <2>2, <2>3
    <3>2. CASE i < k
      <4>1. i \in 1 .. k - 1 /\ i <= k - 1
          BY <1>3, <3>2
      <4>2. a[i] = s[i]
          BY <2>1, <4>1
      <4> QED BY <3>1, <3>2, <4>1, <4>2
    <3>3. CASE i >= k
      <4>1. PICK j \in 1 .. Len(s) - k : i = j + (k - 1) /\ i - (k - 1) = j
        <5>1. i - (k - 1) \in 1 .. Len(s) - k /\ i = (i - (k - 1)) + (k - 1)
            BY <1>3, <3>3
        <5> QED BY <5>1
      <4>2. k + j = i + 1 /\ ~(i <= k - 1) /\ ~(i < k)
          BY <1>3, <3>3, <4>1
      <4>3. b[j] = s[i + 1]
        <5>1. b[j] = s[k + j]
            BY <2>1
        <5> QED BY <4>2, <5>1
      <4>4. (a \o b)[i] = b[j]
          BY <3>1, <4>1, <4>2
      <4>5. (a \o b)[i] = s[i + 1]
          BY <4>3, <4>4
      <4> QED BY <4>2, <4>5
    <3>4. i < k \/ i >= k
        BY <1>3
    <3> QED BY <3>2, <3>3, <3>4
  <2> QED BY <2>2, <2>3, <2>4 DEF a, b
<1> HIDE DEF r
<1>7. Distinct(r)
    BY <1>3, <1>6 DEF Distinct
<1>8. Elements(r) = Elements(s) \ {e}
  <2>1. ASSUME NEW x \in Elements(r) PROVE x \in Elements(s) \ {e}
      BY <1>1, <1>3, <1>6 DEF Elements, Distinct
  <2>2. ASSUME NEW x \in Elements(s) \ {e} PROVE x \in Elements(r)
    <3>1. PICK i \in 1 .. Len(s) : x = s[i] /\ i # k
        BY <1>1 DEF Elements
    <3>2. CASE i < k
        BY <1>3, <1>6, <3>1, <3>2 DEF Elements
    <3>3. CASE i > k
      <4>1. i - 1 \in 1 .. Len(r) /\ r[i - 1] = x
          BY <1>3, <1>6, <3>1, <3>3
      <4> QED BY <4>1 DEF Elements
    <3> QED BY <3>1, <3>2, <3>3, <1>3
  <2> QED BY <2>1, <2>2
<1> QED BY <1>2, <1>6, <1>7, <1>8

\* Appending what a sequence does not have.
LEMMA AppendedOnce ==
  ASSUME NEW S, NEW s \in Seq(S), Distinct(s), NEW e \in S, e \notin Elements(s)
  PROVE  /\ Append(s, e) \in Seq(S) /\ Distinct(Append(s, e))
         /\ Elements(Append(s, e)) = Elements(s) \cup {e}
         /\ Len(Append(s, e)) = Len(s) + 1
<1>1. Len(s) \in Nat
    BY LenProperties
<1>2. /\ Append(s, e) \in Seq(S) /\ Len(Append(s, e)) = Len(s) + 1
      /\ \A i \in 1 .. Len(s) : Append(s, e)[i] = s[i]
      /\ Append(s, e)[Len(s) + 1] = e
    BY AppendProperties, <1>1
<1> DEFINE r == Append(s, e)
<1> HIDE DEF r
<1>3. \A i \in 1 .. Len(s) : s[i] # e
    BY DEF Elements
<1>4. Distinct(r)
    BY <1>1, <1>2, <1>3 DEF Distinct, r
<1>5. \A x : x \in Elements(r) <=> (x \in Elements(s) \/ x = e)
    BY <1>1, <1>2 DEF Elements, r
<1> QED BY <1>2, <1>4, <1>5 DEF r

\* The end of a distinct sequence.
LEMMA SuffixDistinct ==
  ASSUME NEW S, NEW s \in Seq(S), Distinct(s), NEW m \in 1 .. Len(s) + 1
  PROVE  LET r == SubSeq(s, m, Len(s))
         IN /\ r \in Seq(S) /\ Distinct(r) /\ Elements(r) \subseteq Elements(s)
            /\ Len(r) = Len(s) - m + 1
<1> DEFINE r == SubSeq(s, m, Len(s))
<1>1. Len(s) \in Nat
    BY LenProperties
<1>2. /\ r \in Seq(S) /\ Len(r) = Len(s) - m + 1
      /\ \A i \in 1 .. Len(s) - m + 1 : r[i] = s[m + i - 1]
    BY <1>1
<1> HIDE DEF r
<1>3. \A i \in 1 .. Len(r) : r[i] = s[m + i - 1] /\ m + i - 1 \in 1 .. Len(s)
    BY <1>1, <1>2
<1>4. Elements(r) \subseteq Elements(s)
    BY <1>3 DEF Elements
<1>5. Distinct(r)
  <2> SUFFICES ASSUME NEW i \in 1 .. Len(r), NEW j \in 1 .. Len(r), r[i] = r[j]
               PROVE  i = j
      BY DEF Distinct
  <2>1. m + i - 1 = m + j - 1
      BY <1>3 DEF Distinct
  <2> QED BY <1>1, <1>2, <2>1
<1> QED BY <1>2, <1>4, <1>5 DEF r

\* A distinct sequence has as many elements as it is long.
LEMMA CountedOnce ==
  ASSUME NEW S, NEW s \in Seq(S), Distinct(s)
  PROVE  Cardinality(Elements(s)) = Len(s)
<1>1. Len(s) \in Nat /\ s \in [1 .. Len(s) -> S]
    BY LenProperties
<1>2. s \in Bijection(1 .. Len(s), Elements(s))
    BY <1>1 DEF Distinct, Elements, Bijection, Injection, Surjection, IsInjective
<1>3. ExistsBijection(1 .. Len(s), Elements(s))
    BY <1>2 DEF ExistsBijection
<1> QED BY <1>1, <1>3, FS_CountingElements

(* --- the store --------------------------------------------------------- *)

\* What can be loaded under an id is a Project filed under it.
LEMMA LoadableFiled ==
  ASSUME NEW s, StoreOK(s), NEW p \in WebProjects, Loadable(s, p) # Nothing
  PROVE  Loadable(s, p) \in WebProject /\ Loadable(s, p).id = p
BY DEF StoreOK, Stores, Filed, Loadable

\* Forgetting a Project leaves the others filed.
LEMMA ForgetKeeps ==
  ASSUME NEW s, StoreOK(s), NEW p \in WebProjects
  PROVE  /\ StoreOK(Forget(s, p))
         /\ \A q \in WebProjects \ {p} : Loadable(Forget(s, p), q) = Loadable(s, q)
<1>1. /\ Forget(s, p) \in Stores
      /\ \A q \in WebProjects :
           /\ Forget(s, p).draft[q] = IF q = p THEN Nothing ELSE s.draft[q]
           /\ Forget(s, p).saved[q] = IF q = p THEN Nothing ELSE s.saved[q]
           /\ Forget(s, p).record[q] = IF q = p THEN Nothing ELSE s.record[q]
    BY DEF StoreOK, Stores, Forget
<1>2. Filed(Forget(s, p))
    BY <1>1 DEF StoreOK, Filed, Paired
<1> QED BY <1>1, <1>2 DEF StoreOK, Loadable

\* Writing a draft under its own id.
LEMMA WrittenKeeps ==
  ASSUME NEW s, StoreOK(s), NEW project \in WebProject,
         NEW opened \in WebProjects \cup {Nothing}, NEW latest \in WebProjects \cup {Nothing}
  PROVE  /\ StoreOK([s EXCEPT !.draft[project.id] = project])
         /\ StoreOK([[s EXCEPT !.draft[project.id] = project]
                       EXCEPT !.opened = opened, !.latest = latest])
<1>1. project.id \in WebProjects
    BY DEF WebProject
<1> DEFINE w == [s EXCEPT !.draft[project.id] = project]
<1>2. /\ w \in Stores /\ w.saved = s.saved /\ w.record = s.record
      /\ \A q \in WebProjects : w.draft[q] = IF q = project.id THEN project ELSE s.draft[q]
    BY <1>1 DEF StoreOK, Stores
<1> HIDE DEF w
<1> DEFINE v == [w EXCEPT !.opened = opened, !.latest = latest]
<1>3. v \in Stores /\ v.saved = w.saved /\ v.record = w.record /\ v.draft = w.draft
    BY <1>2 DEF Stores
<1> HIDE DEF v
<1>4. Filed(w)
    BY <1>2 DEF StoreOK, Filed
<1>5. Filed(v)
    BY <1>3, <1>4 DEF Filed
<1> QED BY <1>2, <1>3, <1>4, <1>5 DEF StoreOK, w, v

\* An autosave keeps the store in order, and what it wrote is what a load
\* finds, unless a newer revision is saved.
LEMMA AutosavedKeeps ==
  ASSUME NEW s, StoreOK(s), NEW project \in WebProject, NEW b \in BOOLEAN
  PROVE  /\ StoreOK(Autosaved(s, project, b))
         /\ Autosaved(s, project, b).draft[project.id] = project
         /\ Autosaved(s, project, b).saved[project.id] = s.saved[project.id]
<1> DEFINE p == project.id
           w == [s EXCEPT !.draft[p] = project]
           o == [w EXCEPT !.opened = p, !.latest = IF s.saved[p] = Nothing THEN p ELSE Nothing]
<1>1. p \in WebProjects
    BY DEF WebProject
<1>2. StoreOK(w) /\ StoreOK(o)
  <2>1. (IF s.saved[p] = Nothing THEN p ELSE Nothing) \in WebProjects \cup {Nothing}
      BY <1>1
  <2> QED BY <1>1, <2>1, WrittenKeeps
<1>3. /\ w.draft[p] = project /\ w.saved[p] = s.saved[p]
      /\ o.draft[p] = project /\ o.saved[p] = s.saved[p]
    BY <1>1 DEF StoreOK, Stores
<1>4. CASE ~b /\ s.opened # p
    BY <1>2, <1>3, <1>4 DEF Autosaved
<1>5. CASE ~(~b /\ s.opened # p) /\ s.latest # Nothing /\ s.latest # p /\ s.saved[s.latest] = Nothing
  <2>1. s.latest \in WebProjects
      BY <1>5 DEF StoreOK, Stores
  <2>2. Autosaved(s, project, b) = Forget(o, s.latest)
      BY <1>5 DEF Autosaved
  <2> HIDE DEF o
  <2>3. StoreOK(Forget(o, s.latest))
      BY <1>2, <2>1, ForgetKeeps
  <2>4. /\ Forget(o, s.latest).draft[p] = o.draft[p]
        /\ Forget(o, s.latest).saved[p] = o.saved[p]
      BY <1>1, <1>2, <1>5, <2>1 DEF Forget, StoreOK, Stores
  <2> QED BY <1>3, <2>2, <2>3, <2>4
<1>6. CASE /\ ~(~b /\ s.opened # p)
           /\ ~(s.latest # Nothing /\ s.latest # p /\ s.saved[s.latest] = Nothing)
  <2>1. Autosaved(s, project, b) = o
      BY <1>6 DEF Autosaved
  <2> QED BY <1>2, <1>3, <2>1
<1> QED BY <1>4, <1>5, <1>6

\* A Project that a load would find as it is, or in a newer saved revision.
IsDurable(s, project) == \/ Loadable(s, project.id) = project
                         \/ Loadable(s, project.id).revision > project.revision

\* What is drafted is durable.
LEMMA DraftIsDurable ==
  ASSUME NEW s, NEW project \in WebProject, s.draft[project.id] = project
  PROVE  IsDurable(s, project)
BY Bounds DEF IsDurable, Loadable

\* _persist_draft keeps the store in order, and durable what an autosaving session drafts.
LEMMA PersistedKeeps ==
  ASSUME IInv, NEW session \in WebSession, NEW project \in WebProject, NEW b \in BOOLEAN
  PROVE  /\ StoreOK(Persisted(session, project, b))
         /\ Persisted(session, project, b).saved[project.id] = store.saved[project.id]
         /\ session.persist => Persisted(session, project, b).draft[project.id] = project
<1>1. StoreOK(store)
    BY DEF IInv
<1> QED BY <1>1, AutosavedKeeps DEF Persisted

\* A calculation is recorded under the id of its Project.
LEMMA RecordedKeeps ==
  ASSUME NEW s, StoreOK(s), NEW p \in WebProjects, NEW w \in Working, Paired(w), w.project.id = p
  PROVE  /\ StoreOK([s EXCEPT !.record[p] = w])
         /\ [s EXCEPT !.record[p] = w].draft = s.draft
         /\ [s EXCEPT !.record[p] = w].saved = s.saved
<1> DEFINE v == [s EXCEPT !.record[p] = w]
<1>1. /\ v \in Stores /\ v.draft = s.draft /\ v.saved = s.saved
      /\ \A q \in WebProjects : v.record[q] = IF q = p THEN w ELSE s.record[q]
    BY DEF StoreOK, Stores
<1> HIDE DEF v
<1>2. Filed(v)
    BY <1>1 DEF StoreOK, Filed
<1> QED BY <1>1, <1>2 DEF StoreOK, v

\* The marker of the last opened Project may move to any, or to none.
LEMMA OpenedKeeps ==
  ASSUME NEW s, StoreOK(s), NEW o \in WebProjects \cup {Nothing}
  PROVE  /\ StoreOK([s EXCEPT !.opened = o])
         /\ \A p \in WebProjects : Loadable([s EXCEPT !.opened = o], p) = Loadable(s, p)
<1> DEFINE v == [s EXCEPT !.opened = o]
<1>1. v \in Stores /\ v.draft = s.draft /\ v.saved = s.saved /\ v.record = s.record
    BY DEF StoreOK, Stores
<1> HIDE DEF v
<1>2. Filed(v) /\ \A p \in WebProjects : Loadable(v, p) = Loadable(s, p)
    BY <1>1 DEF StoreOK, Filed, Loadable
<1> QED BY <1>1, <1>2 DEF StoreOK, v

\* A checkpoint is filed under its own id, and a load finds it over an older draft.
LEMMA ReviseKeeps ==
  ASSUME NEW s, StoreOK(s), NEW project \in WebProject
  PROVE  /\ StoreOK(Revise(s, project))
         /\ Revise(s, project).saved[project.id] = project
         /\ Revise(s, project).draft = s.draft
<1> DEFINE p == project.id
           v == Revise(s, project)
<1>1. p \in WebProjects
    BY DEF WebProject
<1>2. /\ v \in Stores /\ v.draft = s.draft /\ v.record = s.record
      /\ \A q \in WebProjects : v.saved[q] = IF q = p THEN project ELSE s.saved[q]
    BY <1>1 DEF StoreOK, Stores, Revise
<1> HIDE DEF v
<1>3. Filed(v)
    BY <1>2 DEF StoreOK, Filed
<1> QED BY <1>1, <1>2, <1>3 DEF StoreOK, v

(* --- the working copy of a session ------------------------------------- *)

\* _present_unlocked changes nothing but the intent, which it may drop.
LEMMA PresentedKeeps ==
  ASSUME NEW s, SessionOK(s)
  PROVE  /\ SessionOK(Presented(s))
         /\ Presented(s).project = s.project /\ Presented(s).persist = s.persist
         /\ Presented(s).rounding = s.rounding
         /\ \/ Presented(s).intent = Nothing
            \/ Presented(s).intent = s.intent /\ RefreshRequested(s, s.rounding)
<1>1. CASE RefreshRequested(s, s.rounding)
    BY <1>1 DEF Presented
<1>2. CASE ~RefreshRequested(s, s.rounding)
    BY <1>2 DEF Presented, SessionOK, WebSession
<1> QED BY <1>1, <1>2

\* A new session, and one with its rounding mode reset, has no intent it did not have.
LEMMA BlankOK ==
  ASSUME NEW b \in BOOLEAN
  PROVE  SessionOK(Blank(b)) /\ Blank(b).intent = Nothing
BY DEF Blank, SessionOK, WebSession, Paired

LEMMA ResetKeeps ==
  ASSUME NEW s, s \in WebSession, Paired(s.last)
  PROVE  /\ SessionOK(ResetRounding(s))
         /\ ResetRounding(s).intent = s.intent /\ ResetRounding(s).project = s.project
         /\ ResetRounding(s).persist = s.persist
BY DEF ResetRounding, SessionOK, WebSession, Paired

\* _restore_project takes what the store has of a Project.
LEMMA RestoredKeeps ==
  ASSUME NEW s, SessionOK(s), NEW st, StoreOK(st), NEW p \in WebProjects
  PROVE  /\ SessionOK(Restored(s, st, p)) /\ Restored(s, st, p).intent = s.intent
         /\ Restored(s, st, p).project = Loadable(st, p)
         /\ Restored(s, st, p).persist = s.persist
<1> DEFINE record == st.record[p]
           q == [s EXCEPT !.project = Loadable(st, p),
                          !.outcome = IF record = Nothing THEN Nothing ELSE record.outcome,
                          !.last = record]
<1>1. Loadable(st, p) \in WebProject \cup {Nothing}
    BY LoadableFiled
<1>2. record \in Working \cup {Nothing} /\ Paired(record)
    BY DEF StoreOK, Stores, Filed
<1>3. (IF record = Nothing THEN Nothing ELSE record.outcome) \in Outcome \cup {Nothing}
    BY <1>2 DEF Working
<1> HIDE DEF record
<1>4. /\ q \in WebSession /\ q.last = record /\ q.intent = s.intent
      /\ q.project = Loadable(st, p) /\ q.persist = s.persist
    BY <1>1, <1>2, <1>3 DEF SessionOK, WebSession
<1>5. Restored(s, st, p) = ResetRounding(q)
    BY DEF Restored, record
<1> HIDE DEF q
<1> QED BY <1>2, <1>4, <1>5, ResetKeeps

\* Changing the Project of a session.
LEMMA ProjectChanged ==
  ASSUME NEW s, SessionOK(s), NEW x \in WebProject \cup {Nothing}
  PROVE  LET r == [s EXCEPT !.project = x]
         IN /\ SessionOK(r) /\ r.project = x /\ r.intent = s.intent
            /\ r.persist = s.persist /\ r.rounding = s.rounding
BY DEF SessionOK, WebSession

\* ... and taking it away, with its outcome.
LEMMA ProjectDropped ==
  ASSUME NEW s, SessionOK(s)
  PROVE  /\ LET r == [s EXCEPT !.project = Nothing, !.outcome = Nothing]
            IN SessionOK(r) /\ r.project = Nothing /\ r.intent = s.intent
         /\ LET r == [s EXCEPT !.project = Nothing, !.outcome = Nothing, !.rounding = FALSE]
            IN SessionOK(r) /\ r.project = Nothing /\ r.intent = s.intent
BY DEF SessionOK, WebSession

\* Changing the intent of a session.
LEMMA IntentChanged ==
  ASSUME NEW s, SessionOK(s), NEW x \in (WebProjects \X Inputs \X BOOLEAN) \cup {Nothing}
  PROVE  LET r == [s EXCEPT !.intent = x]
         IN /\ SessionOK(r) /\ r.project = s.project /\ r.intent = x
            /\ r.persist = s.persist /\ r.rounding = s.rounding
BY DEF SessionOK, WebSession

\* The inputs of an edited Project are inputs, and it is the same Project.
LEMMA UpdatedType ==
  ASSUME NEW project \in WebProject, NEW input \in Inputs
  PROVE  /\ Updated(project, input) \in WebProject
         /\ Updated(project, input).id = project.id
         /\ [project EXCEPT !.input = input] \in WebProject
         /\ [project EXCEPT !.input = input].id = project.id
BY DEF WebProject, Updated, Runs

\* The fingerprint of the inputs of a Project in a rounding mode.
LEMMA FingerprintType ==
  ASSUME NEW project \in WebProject, NEW b \in BOOLEAN
  PROVE  ForecastFingerprint(project, b) \in WebProjects \X Inputs \X BOOLEAN
BY DEF ForecastFingerprint, WebProject
(* --- steps: what they keep, and what they promise ----------------------- *)

\* What DurableFirst and RefreshIsSecondClick say of a step.
DurableStep ==
  \A t \in DOMAIN mem \cap DOMAIN mem' :
    LET project == mem'[t].project
    IN mem'[t].persist /\ project # Nothing /\ project # mem[t].project
         => IsDurable(store', project)
SecondClick ==
  \A t \in DOMAIN running' \ DOMAIN running :
    running'[t].refresh => told'[t] = running'[t].rounding

\* A step that changes neither a session nor what runs promises nothing.
LEMMA NothingPromised ==
  ASSUME UNCHANGED mem, DOMAIN running' \subseteq DOMAIN running
  PROVE  DurableStep /\ SecondClick
BY DEF DurableStep, SecondClick

\* One session changes: the others stay in order.
LEMMA OneSession ==
  ASSUME IInv, NEW t \in DOMAIN mem, NEW s, NEW v, SessionOK(s), IntentOK(s, v),
         mem' = [mem EXCEPT ![t] = s], told' = [told EXCEPT ![t] = v], table' = table,
         s.persist /\ s.project # Nothing /\ s.project # mem[t].project
           => IsDurable(store', s.project)
  PROVE  /\ TokensOK' /\ SessionsOK' /\ DurableStep
         /\ DOMAIN mem' = DOMAIN mem /\ mem'[t] = s
         /\ \A u \in DOMAIN mem \ {t} : mem'[u] = mem[u]
<1>1. TokensOK /\ SessionsOK
    BY DEF IInv
<1>2. /\ DOMAIN mem' = DOMAIN mem /\ mem'[t] = s
      /\ \A u \in DOMAIN mem \ {t} : mem'[u] = mem[u]
    BY <1>1 DEF SessionsOK
<1>3. /\ told' = [u \in DOMAIN mem' |-> told'[u]] /\ told'[t] = v
      /\ mem' = [u \in DOMAIN mem' |-> mem'[u]]
      /\ \A u \in DOMAIN mem \ {t} : told'[u] = told[u]
    BY <1>1, <1>2 DEF SessionsOK
<1>4. TokensOK'
    BY <1>1, <1>2 DEF TokensOK
<1>5. SessionsOK'
    BY <1>1, <1>2, <1>3 DEF SessionsOK
<1>6. DurableStep
    BY <1>2 DEF DurableStep
<1> QED BY <1>2, <1>4, <1>5, <1>6

\* What runs stays in order when it does not change and no Project under way vanishes.
LEMMA StillRunning ==
  ASSUME IInv, DOMAIN mem \subseteq DOMAIN mem', UNCHANGED running,
         \A u \in DOMAIN running : mem'[u].project = mem[u].project
  PROVE  RunningOK' /\ SecondClick
BY DEF IInv, RunningOK, SecondClick

\* A request is of a session in the table, which it makes the last in order.
LEMMA RequestKeeps ==
  ASSUME IInv, NEW t \in Tokens, Request(t), Touched(t), table' = table
  PROVE  /\ t \in DOMAIN mem /\ t \notin DOMAIN running
         /\ OrderOK(table', order') /\ requests' \in 0 .. MaxRequests
<1>1. OrderOK(table, order) /\ table \subseteq DOMAIN mem /\ t \in table /\ t \notin DOMAIN running
    BY DEF IInv, TokensOK, Request
<1> DEFINE r == RemoveFirst(order, t)
<1>2. /\ r \in Seq(Tokens) /\ Distinct(r) /\ Elements(r) = table \ {t} /\ Len(r) = Len(order) - 1
    BY <1>1, RemovedOnce DEF OrderOK
<1> HIDE DEF r
<1>3. /\ Append(r, t) \in Seq(Tokens) /\ Distinct(Append(r, t))
      /\ Elements(Append(r, t)) = Elements(r) \cup {t} /\ Len(Append(r, t)) = Len(r) + 1
    BY <1>2, AppendedOnce
<1>4. order' = Append(r, t)
    BY DEF Touched, r
<1>5. Len(order) \in Nat
    BY <1>1, LenProperties DEF OrderOK
<1>6. OrderOK(table', order')
  <2>1. Elements(order') = table'
      BY <1>1, <1>2, <1>3, <1>4
  <2>2. Len(order') <= MaximumSessions
      BY <1>1, <1>2, <1>3, <1>4, <1>5, Bounds DEF OrderOK
  <2> QED BY <1>3, <1>4, <2>1, <2>2 DEF OrderOK
<1>7. requests' \in 0 .. MaxRequests
    BY Bounds DEF IInv, CountersOK, Request
<1> QED BY <1>1, <1>6, <1>7

\* An announcement is told, or forgotten.
LEMMA DisturbedTold ==
  ASSUME IInv, NEW t \in DOMAIN mem, NEW s, told' = Disturbed(t, s)
  PROVE  \E v : /\ told' = [told EXCEPT ![t] = v]
                /\ \/ v = Nothing
                   \/ v = told[t]
                /\ mem[t].project # Nothing /\ s.project # Nothing
                   /\ ForecastFingerprint(mem[t].project, mem[t].rounding)
                        = ForecastFingerprint(s.project, s.rounding) => v = told[t]
<1>1. told = [u \in DOMAIN mem |-> told[u]]
    BY DEF IInv, SessionsOK
<1>2. told = [told EXCEPT ![t] = told[t]]
    BY <1>1
<1> QED BY <1>2 DEF Disturbed

\* A session that is presented with the intent it had, and in its rounding mode unless it
\* lost its Project, keeps an intent only for the inputs it was announced for.
LEMMA CommitKeeps ==
  ASSUME IInv, NEW t \in DOMAIN mem, NEW s, SessionOK(s), Commit(t, s), table' = table,
         s.intent = mem[t].intent,
         s.project = Nothing \/ s.rounding = mem[t].rounding,
         s.persist /\ s.project # Nothing /\ s.project # mem[t].project
           => IsDurable(store', s.project)
  PROVE  /\ TokensOK' /\ SessionsOK' /\ DurableStep
         /\ DOMAIN mem' = DOMAIN mem /\ mem'[t].project = s.project
         /\ \A u \in DOMAIN mem \ {t} : mem'[u] = mem[u]
<1> DEFINE q == Presented(s)
<1>1. /\ SessionOK(q) /\ q.project = s.project /\ q.persist = s.persist
      /\ q.intent = Nothing \/ (q.intent = s.intent /\ RefreshRequested(s, s.rounding))
    BY PresentedKeeps
<1>2. PICK v : /\ told' = [told EXCEPT ![t] = v]
               /\ mem[t].project # Nothing /\ s.project # Nothing
                  /\ ForecastFingerprint(mem[t].project, mem[t].rounding)
                       = ForecastFingerprint(s.project, s.rounding) => v = told[t]
    BY DisturbedTold DEF Commit
<1>3. mem' = [mem EXCEPT ![t] = q]
    BY DEF Commit
<1> HIDE DEF q
<1>4. IntentOK(mem[t], told[t])
    BY DEF IInv, SessionsOK
<1>5. IntentOK(q, v)
  <2> SUFFICES ASSUME q.intent # Nothing PROVE IntentOK(q, v)
      BY DEF IntentOK
  <2>1. /\ q.intent = mem[t].intent /\ s.project # Nothing
        /\ mem[t].intent = ForecastFingerprint(s.project, s.rounding)
      BY <1>1 DEF RefreshRequested
  <2>2. /\ mem[t].project # Nothing /\ told[t] \in BOOLEAN
        /\ mem[t].intent = ForecastFingerprint(mem[t].project, told[t])
      BY <1>4, <2>1 DEF IntentOK
  <2>3. /\ mem[t].project.id = s.project.id /\ mem[t].project.input = s.project.input
        /\ told[t] = s.rounding /\ s.rounding = mem[t].rounding
      BY <2>1, <2>2 DEF ForecastFingerprint
  <2>4. v = told[t]
      BY <1>2, <2>1, <2>2, <2>3 DEF ForecastFingerprint
  <2> QED BY <1>1, <2>1, <2>2, <2>3, <2>4 DEF IntentOK, ForecastFingerprint
<1>6. q.persist /\ q.project # Nothing /\ q.project # mem[t].project => IsDurable(store', q.project)
    BY <1>1
<1>7. /\ TokensOK' /\ SessionsOK' /\ DurableStep
      /\ DOMAIN mem' = DOMAIN mem /\ mem'[t] = q
      /\ \A u \in DOMAIN mem \ {t} : mem'[u] = mem[u]
    BY <1>1, <1>2, <1>3, <1>5, <1>6, OneSession
<1> QED BY <1>1, <1>7

(* --- the table of sessions --------------------------------------------- *)

\* A new session gets a new token; the least recently used ones make room for it.
LEMMA InstallKeeps ==
  ASSUME IInv, NEW s, SessionOK(s), s.intent = Nothing, Install(s)
  PROVE  IInv' /\ DurableStep /\ SecondClick
<1> DEFINE t == Cardinality(DOMAIN mem) + 1
           kept == Evicted
           q == Presented(s)
<1>1. /\ t \in Tokens /\ order' = Append(kept, t)
      /\ table' = Elements(kept) \cup {t}
      /\ mem' = [u \in DOMAIN mem \cup {t} |-> IF u = t THEN q ELSE mem[u]]
      /\ told' = [u \in DOMAIN mem \cup {t} |-> IF u = t THEN Nothing ELSE told[u]]
      /\ UNCHANGED <<running, store, newest, requests, writeFaults>>
    BY DEF Install, Elements
<1>2. PICK n \in 0 .. MaxTokens : DOMAIN mem = 1 .. n
    BY DEF IInv, TokensOK
<1>3. n \in Nat /\ t = n + 1
  <2>1. n \in Nat
      BY Bounds
  <2>2. Cardinality(1 .. n) = n
      BY <2>1, FS_Interval
  <2> QED BY <1>2, <2>1, <2>2
<1>4. SessionOK(q) /\ q.intent = Nothing
    BY PresentedKeeps
<1> HIDE DEF q
<1>5. /\ DOMAIN mem' = 1 .. n + 1 /\ n + 1 \in 0 .. MaxTokens /\ t \notin DOMAIN mem
    BY <1>1, <1>2, <1>3, Bounds DEF Tokens
<1>6. /\ order \in Seq(Tokens) /\ Distinct(order) /\ table = Elements(order)
      /\ Len(order) <= MaximumSessions /\ table \subseteq DOMAIN mem /\ Len(order) \in Nat
    BY LenProperties DEF IInv, OrderOK, TokensOK
<1>7. /\ kept \in Seq(Tokens) /\ Distinct(kept) /\ Elements(kept) \subseteq Elements(order)
      /\ Len(kept) <= MaximumSessions - 1 /\ Len(kept) \in Nat
  <2>1. CASE Len(order) < MaximumSessions
      BY <1>6, <2>1, Bounds DEF Evicted
  <2>2. CASE ~(Len(order) < MaximumSessions)
    <3>1. /\ Len(order) = MaximumSessions /\ 2 \in 1 .. Len(order) + 1
          /\ kept = SubSeq(order, 2, Len(order))
        BY <1>6, <2>2, Bounds DEF Evicted
    <3>2. /\ SubSeq(order, 2, Len(order)) \in Seq(Tokens)
          /\ Distinct(SubSeq(order, 2, Len(order)))
          /\ Elements(SubSeq(order, 2, Len(order))) \subseteq Elements(order)
          /\ Len(SubSeq(order, 2, Len(order))) = Len(order) - 2 + 1
        BY <1>6, <3>1, SuffixDistinct
    <3> QED BY <1>6, <3>1, <3>2, Bounds
  <2> QED BY <2>1, <2>2
<1> HIDE DEF kept
<1>8. /\ Append(kept, t) \in Seq(Tokens) /\ Distinct(Append(kept, t))
      /\ Elements(Append(kept, t)) = Elements(kept) \cup {t}
      /\ Len(Append(kept, t)) = Len(kept) + 1
  <2>1. t \notin Elements(kept)
      BY <1>5, <1>6, <1>7
  <2> QED BY <1>1, <1>7, <2>1, AppendedOnce
<1>9. OrderOK(table', order')
    BY <1>1, <1>7, <1>8, Bounds DEF OrderOK
<1>10. TokensOK'
  <2>1. table' \subseteq DOMAIN mem'
      BY <1>1, <1>6, <1>7
  <2> QED BY <1>5, <2>1 DEF TokensOK
<1>11. /\ \A u \in DOMAIN mem : mem'[u] = mem[u] /\ told'[u] = told[u]
       /\ mem'[t] = q /\ DOMAIN mem' = DOMAIN mem \cup {t}
    BY <1>1, <1>5
<1> HIDE DEF t
<1>12. SessionsOK'
  <2>1. SessionsOK
      BY DEF IInv
  <2>2. /\ mem' = [u \in DOMAIN mem' |-> mem'[u]]
        /\ told' = [u \in DOMAIN mem' |-> told'[u]]
      BY <1>1, <1>11
  <2>3. IntentOK(q, told'[t])
      BY <1>4 DEF IntentOK
  <2> QED BY <1>4, <1>11, <2>1, <2>2, <2>3 DEF SessionsOK
<1>13. RunningOK' /\ SecondClick
  <2>1. DOMAIN running \subseteq DOMAIN mem
      BY DEF IInv, RunningOK
  <2> QED BY <1>1, <1>11, <2>1, StillRunning
<1>14. DurableStep
    BY <1>11 DEF DurableStep
<1>15. StoreOK(store') /\ CountersOK'
    BY <1>1 DEF IInv, CountersOK
<1> QED BY <1>9, <1>10, <1>12, <1>13, <1>14, <1>15 DEF IInv
\* A session created for a cookie resumes what was opened last, or nothing.
LEMMA CookieKeeps == ASSUME IInv, CreateCookieSession PROVE IInv' /\ DurableStep /\ SecondClick
<1>1. SessionOK(Blank(TRUE)) /\ Blank(TRUE).intent = Nothing
    BY BlankOK
<1>2. CASE store.opened # Nothing /\ Loadable(store, store.opened) # Nothing
  <2>1. store.opened \in WebProjects /\ StoreOK(store)
      BY <1>2 DEF IInv, StoreOK, Stores
  <2>2. /\ SessionOK(Restored(Blank(TRUE), store, store.opened))
        /\ Restored(Blank(TRUE), store, store.opened).intent = Nothing
      BY <1>1, <2>1, RestoredKeeps
  <2>3. Install(Restored(Blank(TRUE), store, store.opened))
      BY <1>2 DEF CreateCookieSession
  <2> QED BY <2>2, <2>3, InstallKeeps
<1>3. CASE ~(store.opened # Nothing /\ Loadable(store, store.opened) # Nothing)
  <2>1. Install(Blank(TRUE))
      BY <1>3 DEF CreateCookieSession
  <2> QED BY <1>1, <2>1, InstallKeeps
<1> QED BY <1>2, <1>3

\* A tab's session is blank, or another one's working copy without its intent.
LEMMA TabKeeps ==
  ASSUME IInv, NEW source, NEW keep \in BOOLEAN, CreateTabSession(source, keep)
  PROVE  IInv' /\ DurableStep /\ SecondClick
<1>1. CASE source \in DOMAIN mem
  <2> DEFINE h == [mem[source] EXCEPT !.intent = Nothing, !.persist = FALSE]
  <2>1. SessionOK(mem[source])
      BY <1>1 DEF IInv, SessionsOK
  <2>2. SessionOK(h) /\ h \in WebSession /\ Paired(h.last) /\ h.intent = Nothing
      BY <2>1 DEF SessionOK, WebSession
  <2>3. Install(IF keep THEN h ELSE ResetRounding(h))
      BY <1>1 DEF CreateTabSession
  <2> HIDE DEF h
  <2>4. SessionOK(ResetRounding(h)) /\ ResetRounding(h).intent = Nothing
      BY <2>2, ResetKeeps
  <2>5. CASE keep
      BY <2>2, <2>3, <2>5, InstallKeeps
  <2>6. CASE ~keep
      BY <2>3, <2>4, <2>6, InstallKeeps
  <2> QED BY <2>5, <2>6
<1>2. CASE source \notin DOMAIN mem
  <2>1. Install(Blank(FALSE))
      BY <1>2 DEF CreateTabSession
  <2> QED BY <2>1, BlankOK, InstallKeeps
<1> QED BY <1>1, <1>2

\* Neither sessions nor announcements change.
LEMMA Unmoved ==
  ASSUME IInv, UNCHANGED <<mem, told>>, table' \subseteq table
  PROVE  /\ TokensOK' /\ SessionsOK' /\ DurableStep
         /\ DOMAIN mem' = DOMAIN mem /\ \A u \in DOMAIN mem : mem'[u] = mem[u]
<1>1. TokensOK'
    BY DEF IInv, TokensOK
<1>2. SessionsOK'
    BY DEF IInv, SessionsOK
<1> QED BY <1>1, <1>2 DEF DurableStep

\* A session leaves the table and the order together.
LEMMA InvalidateKeeps ==
  ASSUME IInv, NEW t \in Tokens, NEW clear \in BOOLEAN, Invalidate(t, clear)
  PROVE  IInv' /\ DurableStep /\ SecondClick
<1>1. /\ t \in table /\ table' = table \ {t} /\ order' = RemoveFirst(order, t)
      /\ store' = IF clear THEN [store EXCEPT !.opened = Nothing] ELSE store
      /\ UNCHANGED <<mem, running, newest, told, requests, writeFaults>>
    BY DEF Invalidate
<1>2. OrderOK(table, order) /\ StoreOK(store) /\ RunningOK /\ CountersOK
    BY DEF IInv
<1>3. /\ RemoveFirst(order, t) \in Seq(Tokens) /\ Distinct(RemoveFirst(order, t))
      /\ Elements(RemoveFirst(order, t)) = table \ {t}
      /\ Len(RemoveFirst(order, t)) = Len(order) - 1
    BY <1>1, <1>2, RemovedOnce DEF OrderOK
<1>4. Len(order) \in Nat
    BY <1>2, LenProperties DEF OrderOK
<1>5. OrderOK(table', order')
    BY <1>1, <1>2, <1>3, <1>4, Bounds DEF OrderOK
<1>6. TokensOK' /\ SessionsOK' /\ DurableStep
    BY <1>1, Unmoved
<1>7. StoreOK(store')
    BY <1>1, <1>2, OpenedKeeps
<1>8. RunningOK' /\ SecondClick /\ CountersOK'
    BY <1>1, <1>2 DEF RunningOK, SecondClick, CountersOK
<1> QED BY <1>5, <1>6, <1>7, <1>8 DEF IInv

\* A restart empties the table, and nothing runs.
LEMMA RestartKeeps == ASSUME IInv, Restart PROVE IInv' /\ DurableStep /\ SecondClick
<1>1. /\ table' = {} /\ order' = <<>> /\ running' = <<>>
      /\ UNCHANGED <<mem, store, newest, told, requests, writeFaults>>
    BY DEF Restart
<1>2. OrderOK(table', order')
  <2>1. order' \in Seq(Tokens) /\ Len(order') = 0
      BY <1>1
  <2> QED BY <1>1, <2>1, Bounds DEF OrderOK, Distinct, Elements
<1>3. TokensOK' /\ SessionsOK' /\ DurableStep
    BY <1>1, Unmoved
<1>4. DOMAIN running' = {}
    BY <1>1
<1>5. RunningOK' /\ SecondClick
    BY <1>4 DEF RunningOK, SecondClick
<1>6. StoreOK(store') /\ CountersOK'
    BY <1>1 DEF IInv, CountersOK
<1> QED BY <1>2, <1>3, <1>5, <1>6 DEF IInv

\* A new forecast arrives.
LEMMA PublishKeeps == ASSUME IInv, PublishRun PROVE IInv' /\ DurableStep /\ SecondClick
<1>1. /\ newest < MaxRun /\ newest' = newest + 1
      /\ UNCHANGED <<table, order, mem, running, store, told, requests, writeFaults>>
    BY DEF PublishRun
<1>2. TokensOK' /\ SessionsOK' /\ DurableStep
    BY <1>1, Unmoved
<1>3. CountersOK'
    BY <1>1, Bounds DEF IInv, CountersOK
<1>4. OrderOK(table', order') /\ RunningOK' /\ SecondClick /\ StoreOK(store')
    BY <1>1 DEF IInv, RunningOK, SecondClick
<1> QED BY <1>2, <1>3, <1>4 DEF IInv

(* --- requests ---------------------------------------------------------- *)

\* A request of session t that leaves what runs alone.
LEMMA RequestDone ==
  ASSUME IInv, NEW t \in Tokens, Request(t), Touched(t), UNCHANGED <<table, running, newest>>,
         StoreOK(store'), writeFaults' \in 0 .. MaxWriteFaults,
         TokensOK', SessionsOK', DurableStep, DOMAIN mem' = DOMAIN mem,
         \A u \in DOMAIN mem \ {t} : mem'[u] = mem[u]
  PROVE  IInv' /\ DurableStep /\ SecondClick
<1>1. t \notin DOMAIN running /\ OrderOK(table', order') /\ requests' \in 0 .. MaxRequests
    BY RequestKeeps
<1>2. DOMAIN running \subseteq DOMAIN mem
    BY DEF IInv, RunningOK
<1>3. RunningOK' /\ SecondClick
  <2>1. \A u \in DOMAIN running : mem'[u].project = mem[u].project
      BY <1>1, <1>2
  <2> QED BY <2>1, StillRunning
<1>4. CountersOK'
    BY <1>1 DEF IInv, CountersOK
<1> QED BY <1>1, <1>3, <1>4 DEF IInv

\* A write fault is counted.
LEMMA FaultCounted ==
  ASSUME IInv, (UNCHANGED writeFaults) \/ WriteFault
  PROVE  writeFaults' \in 0 .. MaxWriteFaults
BY Bounds DEF IInv, CountersOK, WriteFault

\* What the invariant says of a session that makes a request.
LEMMA Requesting ==
  ASSUME IInv, NEW t \in DOMAIN mem
  PROVE  /\ SessionOK(mem[t]) /\ IntentOK(mem[t], told[t]) /\ mem[t] \in WebSession
         /\ mem[t].project # Nothing => mem[t].project \in WebProject
BY DEF IInv, SessionsOK, SessionOK, WebSession

\* An accepted import takes the working Project away.
LEMMA AcceptImportKeeps ==
  ASSUME IInv, NEW t \in Tokens, AcceptImport(t)
  PROVE  IInv' /\ DurableStep /\ SecondClick
<1> DEFINE s == [mem[t] EXCEPT !.project = Nothing, !.outcome = Nothing, !.rounding = FALSE]
<1>1. /\ Request(t) /\ Touched(t) /\ Commit(t, s)
      /\ UNCHANGED <<table, running, store, newest, writeFaults>>
    BY DEF AcceptImport
<1>2. t \in DOMAIN mem
    BY <1>1, RequestKeeps
<1>3. SessionOK(mem[t])
    BY <1>2, Requesting
<1>4. SessionOK(s) /\ s.project = Nothing /\ s.intent = mem[t].intent
    BY <1>3, ProjectDropped
<1> HIDE DEF s
<1>5. /\ TokensOK' /\ SessionsOK' /\ DurableStep /\ DOMAIN mem' = DOMAIN mem
      /\ \A u \in DOMAIN mem \ {t} : mem'[u] = mem[u]
    BY <1>1, <1>2, <1>4, CommitKeeps
<1>6. StoreOK(store') /\ writeFaults' \in 0 .. MaxWriteFaults
    BY <1>1 DEF IInv, CountersOK
<1> QED BY <1>1, <1>5, <1>6, RequestDone

\* A confirmed route is a new Project, written before the session has it.
LEMMA ConfirmRouteKeeps ==
  ASSUME IInv, NEW t \in Tokens, NEW p \in WebProjects, NEW input \in Inputs, ConfirmRoute(t, p, input)
  PROVE  IInv' /\ DurableStep /\ SecondClick
<1> DEFINE project == [id |-> p, input |-> input, run |-> Nothing, revision |-> 0,
                       calculatedAgainst |-> Nothing]
           s == [mem[t] EXCEPT !.project = project, !.outcome = Nothing]
<1>1. /\ Request(t) /\ Touched(t) /\ Commit(t, s) /\ store' = Persisted(mem[t], project, TRUE)
      /\ UNCHANGED <<table, running, newest, writeFaults>>
    BY DEF ConfirmRoute
<1>2. t \in DOMAIN mem
    BY <1>1, RequestKeeps
<1>3. SessionOK(mem[t]) /\ mem[t] \in WebSession
    BY <1>2, Requesting
<1>4. project \in WebProject
    BY Bounds DEF WebProject, Runs, Fingerprints
<1> HIDE DEF project
<1>5. /\ SessionOK(s) /\ s.project = project /\ s.intent = mem[t].intent
      /\ s.persist = mem[t].persist /\ s.rounding = mem[t].rounding
    BY <1>3, <1>4 DEF SessionOK, WebSession
<1> HIDE DEF s
<1>6. StoreOK(store') /\ (s.persist => IsDurable(store', s.project))
    BY <1>1, <1>3, <1>4, <1>5, PersistedKeeps, DraftIsDurable
<1>7. /\ TokensOK' /\ SessionsOK' /\ DurableStep /\ DOMAIN mem' = DOMAIN mem
      /\ \A u \in DOMAIN mem \ {t} : mem'[u] = mem[u]
    BY <1>1, <1>2, <1>5, <1>6, CommitKeeps
<1>8. writeFaults' \in 0 .. MaxWriteFaults
    BY <1>1, FaultCounted
<1> QED BY <1>1, <1>6, <1>7, <1>8, RequestDone

\* An edit is durable before the session has it, or is refused.
LEMMA EditedKeeps ==
  ASSUME IInv, NEW t \in DOMAIN mem, NEW project \in WebProject, Edited(t, project), table' = table
  PROVE  /\ StoreOK(store') /\ writeFaults' \in 0 .. MaxWriteFaults
         /\ TokensOK' /\ SessionsOK' /\ DurableStep /\ DOMAIN mem' = DOMAIN mem
         /\ \A u \in DOMAIN mem \ {t} : mem'[u] = mem[u]
<1> DEFINE s == [mem[t] EXCEPT !.project = project]
<1>1. writeFaults' \in 0 .. MaxWriteFaults
    BY FaultCounted DEF Edited
<1>2. CASE store' = Persisted(mem[t], project, FALSE) /\ Commit(t, s)
  <2>1. SessionOK(mem[t]) /\ mem[t] \in WebSession
      BY Requesting
  <2>2. /\ SessionOK(s) /\ s.project = project /\ s.intent = mem[t].intent
        /\ s.persist = mem[t].persist /\ s.rounding = mem[t].rounding
      BY <2>1, ProjectChanged
  <2> HIDE DEF s
  <2>3. StoreOK(store') /\ (s.persist => IsDurable(store', s.project))
      BY <1>2, <2>1, <2>2, PersistedKeeps, DraftIsDurable
  <2> QED BY <1>1, <1>2, <2>2, <2>3, CommitKeeps
<1>3. CASE UNCHANGED <<store, mem, told>>
  <2>1. StoreOK(store')
      BY <1>3 DEF IInv
  <2> QED BY <1>1, <1>3, <2>1, Unmoved
<1> QED BY <1>2, <1>3 DEF Edited

\* update_project.
LEMMA UpdateKeeps ==
  ASSUME IInv, NEW t \in Tokens, NEW input \in Inputs, Update(t, input)
  PROVE  IInv' /\ DurableStep /\ SecondClick
<1>1. /\ Request(t) /\ Touched(t) /\ mem[t].project # Nothing
      /\ Edited(t, Updated(mem[t].project, input)) /\ UNCHANGED <<table, running, newest>>
    BY DEF Update
<1>2. t \in DOMAIN mem
    BY <1>1, RequestKeeps
<1>3. Updated(mem[t].project, input) \in WebProject
    BY <1>1, <1>2, Requesting, UpdatedType
<1>4. /\ StoreOK(store') /\ writeFaults' \in 0 .. MaxWriteFaults
      /\ TokensOK' /\ SessionsOK' /\ DurableStep /\ DOMAIN mem' = DOMAIN mem
      /\ \A u \in DOMAIN mem \ {t} : mem'[u] = mem[u]
    BY <1>1, <1>2, <1>3, EditedKeeps
<1> QED BY <1>1, <1>4, RequestDone

\* A route that is confirmed again is edited, or shown as it is.
LEMMA EditRouteKeeps ==
  ASSUME IInv, NEW t \in Tokens, NEW input \in Inputs, EditRoute(t, input)
  PROVE  IInv' /\ DurableStep /\ SecondClick
<1> DEFINE project == [mem[t].project EXCEPT !.input = input]
<1>1. /\ Request(t) /\ Touched(t) /\ mem[t].project # Nothing
      /\ UNCHANGED <<table, running, newest>>
      /\ IF input = mem[t].project.input
         THEN Commit(t, mem[t]) /\ UNCHANGED <<store, writeFaults>>
         ELSE Edited(t, project)
    BY DEF EditRoute
<1>2. t \in DOMAIN mem
    BY <1>1, RequestKeeps
<1>3. project \in WebProject /\ SessionOK(mem[t])
    BY <1>1, <1>2, Requesting, UpdatedType
<1> HIDE DEF project
<1>4. CASE input = mem[t].project.input
  <2>1. StoreOK(store') /\ writeFaults' \in 0 .. MaxWriteFaults
      BY <1>1, <1>4 DEF IInv, CountersOK
  <2>2. /\ TokensOK' /\ SessionsOK' /\ DurableStep /\ DOMAIN mem' = DOMAIN mem
        /\ \A u \in DOMAIN mem \ {t} : mem'[u] = mem[u]
      BY <1>1, <1>2, <1>3, <1>4, CommitKeeps
  <2> QED BY <1>1, <2>1, <2>2, RequestDone
<1>5. CASE input # mem[t].project.input
  <2>1. /\ StoreOK(store') /\ writeFaults' \in 0 .. MaxWriteFaults
        /\ TokensOK' /\ SessionsOK' /\ DurableStep /\ DOMAIN mem' = DOMAIN mem
        /\ \A u \in DOMAIN mem \ {t} : mem'[u] = mem[u]
      BY <1>1, <1>2, <1>3, <1>5, EditedKeeps
  <2> QED BY <1>1, <2>1, RequestDone
<1> QED BY <1>4, <1>5
(* --- calculations ------------------------------------------------------ *)

\* A calculation that refreshes is the second click on unchanged inputs: the intent it
\* finds was announced for them, in its rounding mode.
LEMMA StartKeeps ==
  ASSUME IInv, NEW t \in Tokens, NEW kind \in {"calculate", "update"}, NEW rounding \in BOOLEAN,
         NEW session, NEW s, SessionOK(session), StoreOK(s),
         session.intent = mem[t].intent, session.rounding = mem[t].rounding,
         session.persist /\ session.project # mem[t].project => IsDurable(s, session.project),
         StartCalculation(t, kind, rounding, session, s)
  PROVE  IInv' /\ DurableStep /\ SecondClick
<1> DEFINE refresh == RefreshRequested(session, rounding)
           asked == [session EXCEPT !.intent = IF refresh THEN @ ELSE Nothing]
           job == [kind |-> kind, rounding |-> rounding, refresh |-> refresh]
<1>1. /\ Request(t) /\ Touched(t) /\ session.project # Nothing /\ store' = s
      /\ running' = [u \in DOMAIN running \cup {t} |-> IF u = t THEN job ELSE running[u]]
      /\ mem' = [mem EXCEPT ![t] = asked] /\ told' = Disturbed(t, session)
      /\ UNCHANGED <<table, newest, writeFaults>>
    BY DEF StartCalculation
<1>2. /\ t \in DOMAIN mem /\ t \notin DOMAIN running
      /\ OrderOK(table', order') /\ requests' \in 0 .. MaxRequests
    BY <1>1, RequestKeeps
<1>3. refresh \in BOOLEAN /\ job \in Jobs
    BY DEF RefreshRequested, Jobs
<1>4. /\ SessionOK(asked) /\ asked.project = session.project /\ asked.persist = session.persist
      /\ asked.intent = IF refresh THEN session.intent ELSE Nothing
    BY DEF SessionOK, WebSession
<1> HIDE DEF asked
<1>5. PICK v : /\ told' = [told EXCEPT ![t] = v]
               /\ mem[t].project # Nothing /\ session.project # Nothing
                  /\ ForecastFingerprint(mem[t].project, mem[t].rounding)
                       = ForecastFingerprint(session.project, session.rounding) => v = told[t]
    BY <1>1, <1>2, DisturbedTold
<1>6. IntentOK(asked, v) /\ (refresh => v = rounding)
  <2>1. CASE refresh
    <3>1. /\ session.project # Nothing /\ mem[t].intent = ForecastFingerprint(session.project, rounding)
          /\ asked.intent = mem[t].intent
        BY <1>4, <2>1 DEF RefreshRequested
    <3>2. mem[t].intent # Nothing => /\ mem[t].project # Nothing /\ told[t] \in BOOLEAN
                                     /\ mem[t].intent = ForecastFingerprint(mem[t].project, told[t])
        BY <1>2, Requesting DEF IntentOK
    <3>3. mem[t].intent # Nothing
      <4>1. session.project \in WebProject
          BY <3>1 DEF SessionOK, WebSession
      <4> QED BY <3>1, <4>1, FingerprintType, Bounds
    <3>4. /\ mem[t].project.id = session.project.id /\ mem[t].project.input = session.project.input
          /\ told[t] = rounding
        BY <3>1, <3>2, <3>3 DEF ForecastFingerprint
    <3>5. v = told[t]
        BY <1>5, <3>1, <3>2, <3>3, <3>4 DEF ForecastFingerprint
    <3> QED BY <1>4, <3>1, <3>4, <3>5 DEF IntentOK, ForecastFingerprint
  <2>2. CASE ~refresh
      BY <1>4, <2>2 DEF IntentOK
  <2> QED BY <2>1, <2>2
<1> HIDE DEF refresh
<1>7. /\ TokensOK' /\ SessionsOK' /\ DurableStep /\ DOMAIN mem' = DOMAIN mem
      /\ mem'[t] = asked /\ \A u \in DOMAIN mem \ {t} : mem'[u] = mem[u]
    BY <1>1, <1>2, <1>4, <1>5, <1>6, OneSession
<1>8. /\ DOMAIN running' = DOMAIN running \cup {t} /\ running'[t] = job
      /\ \A u \in DOMAIN running : running'[u] = running[u]
    BY <1>1, <1>2
<1>9. told'[t] = v
    BY <1>2, <1>5 DEF IInv, SessionsOK
<1>10. SecondClick
    BY <1>6, <1>8, <1>9 DEF SecondClick
<1>11. RunningOK'
    BY <1>1, <1>2, <1>3, <1>4, <1>7, <1>8 DEF IInv, RunningOK
<1>12. StoreOK(store') /\ CountersOK'
    BY <1>1, <1>2 DEF IInv, CountersOK
<1> QED BY <1>2, <1>7, <1>10, <1>11, <1>12 DEF IInv

\* calculate.
LEMMA CalculateKeeps ==
  ASSUME IInv, NEW t \in Tokens, NEW rounding \in BOOLEAN, Calculate(t, rounding)
  PROVE  IInv' /\ DurableStep /\ SecondClick
<1>1. t \in DOMAIN mem /\ StartCalculation(t, "calculate", rounding, mem[t], store)
    BY DEF Calculate
<1>2. SessionOK(mem[t]) /\ StoreOK(store)
    BY <1>1, Requesting DEF IInv
<1> QED BY <1>1, <1>2, StartKeeps

\* update_and_calculate: the edit first, then the calculation.
LEMMA UpdateAndCalculateKeeps ==
  ASSUME IInv, NEW t \in Tokens, NEW input \in Inputs, UpdateAndCalculate(t, input)
  PROVE  IInv' /\ DurableStep /\ SecondClick
<1> DEFINE project == Updated(mem[t].project, input)
           session == [mem[t] EXCEPT !.project = project]
           s == Persisted(session, project, FALSE)
<1>1. t \in DOMAIN mem /\ mem[t].project # Nothing
    BY DEF UpdateAndCalculate
<1>2. SessionOK(mem[t]) /\ mem[t].project \in WebProject /\ mem[t] \in WebSession
    BY <1>1, Requesting
<1>3. project \in WebProject
    BY <1>2, UpdatedType
<1>4. [mem[t] EXCEPT !.project = Updated(@, input)] = session
    BY <1>2 DEF WebSession
<1>5. session.project = project
    BY <1>2 DEF WebSession
<1>6. StartCalculation(t, "update", session.rounding, session, s)
    BY <1>4, <1>5 DEF UpdateAndCalculate
<1> HIDE DEF project
<1>7. /\ SessionOK(session) /\ session.intent = mem[t].intent
      /\ session.persist = mem[t].persist /\ session.rounding = mem[t].rounding
      /\ session \in WebSession
    BY <1>2, <1>3, ProjectChanged DEF SessionOK
<1>8. session.rounding \in BOOLEAN
    BY <1>7 DEF WebSession
<1> HIDE DEF session
<1>9. StoreOK(s) /\ (session.persist => IsDurable(s, session.project))
    BY <1>3, <1>5, <1>7, PersistedKeeps, DraftIsDurable
<1> HIDE DEF s
<1> QED BY <1>6, <1>7, <1>8, <1>9, StartKeeps

\* What a calculation selects.
LEMMA SelectionType ==
  ASSUME IInv, NEW project \in WebProject, NEW refresh, NEW selection \in Selections(project, refresh)
  PROVE  /\ selection.run \in Runs /\ selection.blocked \in BOOLEAN
<1>1. newest \in Runs /\ project.run \in Runs /\ Nothing \in Runs
    BY DEF IInv, CountersOK, WebProject, Runs
<1> QED BY <1>1 DEF Selections

\* The session of t stops calculating; it has the Project it had, in the mode it was
\* calculated in or its own, and what was announced is told.
LEMMA CalculationDone ==
  ASSUME IInv, NEW t \in DOMAIN running, NEW s, NEW v, SessionOK(s), IntentOK(s, v),
         mem' = [mem EXCEPT ![t] = s], told' = [told EXCEPT ![t] = v], Ends(t),
         UNCHANGED <<table, order, newest, requests>>,
         StoreOK(store'), writeFaults' \in 0 .. MaxWriteFaults,
         s.persist /\ s.project # Nothing /\ s.project # mem[t].project
           => IsDurable(store', s.project)
  PROVE  IInv' /\ DurableStep /\ SecondClick
<1>1. RunningOK /\ t \in DOMAIN mem
    BY DEF IInv, RunningOK
<1>2. /\ TokensOK' /\ SessionsOK' /\ DurableStep /\ DOMAIN mem' = DOMAIN mem
      /\ \A u \in DOMAIN mem \ {t} : mem'[u] = mem[u]
    BY <1>1, OneSession
<1>3. DOMAIN running' = DOMAIN running \ {t} /\ \A u \in DOMAIN running' : running'[u] = running[u]
    BY DEF Ends
<1>4. RunningOK' /\ SecondClick
    BY <1>1, <1>2, <1>3 DEF RunningOK, SecondClick
<1>5. OrderOK(table', order') /\ CountersOK'
    BY DEF IInv, CountersOK
<1> QED BY <1>2, <1>4, <1>5 DEF IInv

\* An exception leaves the session as it was.
LEMMA RaisesKeeps ==
  ASSUME IInv, NEW t \in Tokens, CalculationRaises(t)
  PROVE  IInv' /\ DurableStep /\ SecondClick
<1>1. /\ t \in DOMAIN running /\ Ends(t)
      /\ UNCHANGED <<table, order, mem, store, newest, told, requests, writeFaults>>
    BY DEF CalculationRaises
<1>2. TokensOK' /\ SessionsOK' /\ DurableStep
    BY <1>1, Unmoved
<1>3. DOMAIN running' = DOMAIN running \ {t} /\ \A u \in DOMAIN running' : running'[u] = running[u]
    BY <1>1 DEF Ends
<1>4. RunningOK' /\ SecondClick
    BY <1>1, <1>3 DEF IInv, RunningOK, SecondClick
<1>5. OrderOK(table', order') /\ CountersOK' /\ StoreOK(store')
    BY <1>1 DEF IInv, CountersOK
<1> QED BY <1>2, <1>4, <1>5 DEF IInv

\* The end of a calculation, whichever of its writes fails: its outcome is of the inputs it
\* was computed from, in the mode it was asked for, and only an unblocked one is recorded.
LEMMA FinishKeeps ==
  ASSUME IInv, NEW t \in Tokens, FinishCalculation(t)
  PROVE  IInv' /\ DurableStep /\ SecondClick
<1>1. PICK selection \in Selections(mem[t].project, running[t].refresh) :
       LET job == running[t]
           run == selection.run
           blocked == selection.blocked
           project == [mem[t].project EXCEPT
                         !.run = run, !.calculatedAgainst = <<mem[t].project.input, run>>]
           outcome == [of |-> <<mem[t].project.input, run>>, run |-> run,
                       rounded |-> job.rounding, blocked |-> blocked]
           announced == [mem[t] EXCEPT
                           !.intent = IF selection.update
                                      THEN ForecastFingerprint(project, job.rounding) ELSE Nothing]
           good == Recorded(announced, project, outcome)
           drafted == Persisted(mem[t], project, FALSE)
           done == Presented([good EXCEPT !.project = project, !.outcome = outcome,
                                          !.rounding = job.rounding])
       IN /\ told' = Announcement(t, selection.update)
          /\ \/ /\ mem' = [mem EXCEPT ![t] = announced]
                /\ store' = store /\ (UNCHANGED writeFaults \/ WriteFault)
             \/ /\ mem' = [mem EXCEPT ![t] = done]
                /\ store' = IF blocked \/ ~mem[t].persist THEN drafted
                            ELSE [drafted EXCEPT !.record[project.id] = good.last]
                /\ UNCHANGED writeFaults
             \/ /\ mem' = [mem EXCEPT ![t] = IF job.kind = "calculate" THEN announced ELSE good]
                /\ store' = drafted /\ WriteFault
    BY DEF FinishCalculation
<1>2. /\ t \in DOMAIN running /\ Ends(t) /\ UNCHANGED <<table, order, newest, requests>>
    BY DEF FinishCalculation
<1> DEFINE job == running[t]
           run == selection.run
           blocked == selection.blocked
           project == [mem[t].project EXCEPT
                         !.run = run, !.calculatedAgainst = <<mem[t].project.input, run>>]
           outcome == [of |-> <<mem[t].project.input, run>>, run |-> run,
                       rounded |-> job.rounding, blocked |-> blocked]
           announced == [mem[t] EXCEPT
                           !.intent = IF selection.update
                                      THEN ForecastFingerprint(project, job.rounding) ELSE Nothing]
           good == Recorded(announced, project, outcome)
           drafted == Persisted(mem[t], project, FALSE)
           final == [good EXCEPT !.project = project, !.outcome = outcome, !.rounding = job.rounding]
           v == IF selection.update THEN job.rounding ELSE Nothing
<1>3. /\ t \in DOMAIN mem /\ mem[t].project # Nothing /\ job \in Jobs
    BY <1>2 DEF IInv, RunningOK
<1>4. /\ SessionOK(mem[t]) /\ mem[t].project \in WebProject /\ mem[t] \in WebSession
      /\ StoreOK(store)
    BY <1>3, Requesting DEF IInv
<1>5. run \in Runs /\ blocked \in BOOLEAN /\ job.rounding \in BOOLEAN
    BY <1>3, <1>4, SelectionType DEF Jobs
<1>6. mem[t].project.input \in Inputs
    BY <1>4 DEF WebProject
<1>7. /\ project \in WebProject /\ project.id = mem[t].project.id /\ project.run = run
      /\ project.input = mem[t].project.input /\ project.id \in WebProjects
      /\ project.calculatedAgainst = <<mem[t].project.input, run>>
    BY <1>4, <1>5, <1>6 DEF WebProject, Fingerprints
<1>8. /\ outcome \in Outcome /\ outcome.of = <<project.input, project.run>>
      /\ outcome.rounded = job.rounding /\ outcome.blocked = blocked
    BY <1>5, <1>6, <1>7 DEF Outcome
<1>9. told' = [told EXCEPT ![t] = v]
    BY <1>1 DEF Announcement
<1>10. \/ /\ mem' = [mem EXCEPT ![t] = announced]
          /\ store' = store /\ (UNCHANGED writeFaults \/ WriteFault)
       \/ /\ mem' = [mem EXCEPT ![t] = Presented(final)]
          /\ store' = IF blocked \/ ~mem[t].persist THEN drafted
                      ELSE [drafted EXCEPT !.record[project.id] = good.last]
          /\ UNCHANGED writeFaults
       \/ /\ mem' = [mem EXCEPT ![t] = IF job.kind = "calculate" THEN announced ELSE good]
          /\ store' = drafted /\ WriteFault
    BY <1>1
<1> HIDE DEF job, run, blocked, outcome
<1>11. /\ ForecastFingerprint(project, job.rounding) = ForecastFingerprint(mem[t].project, job.rounding)
       /\ ForecastFingerprint(project, job.rounding) \in WebProjects \X Inputs \X BOOLEAN
    BY <1>5, <1>7, FingerprintType DEF ForecastFingerprint
<1> HIDE DEF project
<1>12. /\ SessionOK(announced) /\ announced.project = mem[t].project
       /\ announced.persist = mem[t].persist /\ announced.rounding = mem[t].rounding
       /\ announced.intent = IF selection.update THEN ForecastFingerprint(project, job.rounding)
                             ELSE Nothing
    BY <1>4, <1>11, IntentChanged
<1> HIDE DEF announced
<1>13. [project |-> project, outcome |-> outcome] \in Working
    BY <1>7, <1>8 DEF Working
<1>14. ~blocked => Paired([project |-> project, outcome |-> outcome])
    BY <1>7, <1>8 DEF Paired, CalculationFingerprint
<1>15. /\ SessionOK(good) /\ good.project = mem[t].project /\ good.persist = mem[t].persist
       /\ good.intent = announced.intent
       /\ ~blocked => good.last = [project |-> project, outcome |-> outcome]
  <2>1. CASE blocked
      BY <1>8, <1>12, <2>1 DEF Recorded
  <2>2. CASE ~blocked
    <3>1. good = [announced EXCEPT !.last = [project |-> project, outcome |-> outcome]]
        BY <1>8, <2>2 DEF Recorded
    <3> QED BY <1>12, <1>13, <1>14, <2>2, <3>1 DEF SessionOK, WebSession
  <2> QED BY <1>5, <2>1, <2>2
<1> HIDE DEF good
<1>16. /\ SessionOK(final) /\ final.project = project /\ final.persist = mem[t].persist
       /\ final.intent = announced.intent
    BY <1>5, <1>7, <1>8, <1>15 DEF SessionOK, WebSession
<1> HIDE DEF final
<1>17. /\ SessionOK(Presented(final)) /\ Presented(final).project = project
       /\ Presented(final).persist = mem[t].persist
       /\ Presented(final).intent \in {Nothing, announced.intent}
    BY <1>16, PresentedKeeps
<1>18. ASSUME NEW s, s.project \in {project, mem[t].project}, s.intent \in {Nothing, announced.intent}
       PROVE  IntentOK(s, v)
  <2>1. project # Nothing
      BY <1>7, Bounds
  <2>2. ForecastFingerprint(s.project, job.rounding) = ForecastFingerprint(project, job.rounding)
      BY <1>11, <1>18
  <2>3. CASE selection.update
      BY <1>3, <1>5, <1>12, <1>18, <2>1, <2>2, <2>3 DEF IntentOK
  <2>4. CASE ~selection.update
      BY <1>12, <1>18, <2>4 DEF IntentOK
  <2> QED BY <2>3, <2>4
<1> HIDE DEF v
<1>19. /\ StoreOK(drafted)
       /\ mem[t].persist => drafted.draft[project.id] = project
    BY <1>4, <1>7, PersistedKeeps
<1> HIDE DEF drafted
<1>20. CASE /\ mem' = [mem EXCEPT ![t] = announced]
            /\ store' = store /\ (UNCHANGED writeFaults \/ WriteFault)
  <2>1. IntentOK(announced, v)
      BY <1>12, <1>18
  <2>2. writeFaults' \in 0 .. MaxWriteFaults /\ StoreOK(store')
      BY <1>4, <1>20, FaultCounted
  <2> QED BY <1>2, <1>9, <1>12, <1>20, <2>1, <2>2, CalculationDone
<1>21. CASE /\ mem' = [mem EXCEPT ![t] = Presented(final)]
            /\ store' = IF blocked \/ ~mem[t].persist THEN drafted
                        ELSE [drafted EXCEPT !.record[project.id] = good.last]
            /\ UNCHANGED writeFaults
  <2>1. IntentOK(Presented(final), v)
      BY <1>17, <1>18
  <2>2. StoreOK(store') /\ (mem[t].persist => store'.draft[project.id] = project)
    <3>1. CASE blocked \/ ~mem[t].persist
        BY <1>19, <1>21, <3>1
    <3>2. CASE ~(blocked \/ ~mem[t].persist)
      <4> DEFINE w == [project |-> project, outcome |-> outcome]
      <4>1. store' = [drafted EXCEPT !.record[project.id] = w] /\ Paired(w)
          BY <1>14, <1>15, <1>21, <3>2
      <4>2. w.project.id = project.id
          OBVIOUS
      <4> HIDE DEF w
      <4>3. StoreOK(store') /\ store'.draft = drafted.draft
          BY <1>7, <1>13, <1>19, <4>1, <4>2, RecordedKeeps DEF w
      <4> QED BY <1>19, <4>3
    <3> QED BY <3>1, <3>2
  <2>3. mem[t].persist => IsDurable(store', project)
      BY <1>7, <2>2, DraftIsDurable
  <2>4. writeFaults' \in 0 .. MaxWriteFaults
      BY <1>21, FaultCounted
  <2> QED BY <1>2, <1>9, <1>17, <1>21, <2>1, <2>2, <2>3, <2>4, CalculationDone
<1>22. CASE /\ mem' = [mem EXCEPT ![t] = IF job.kind = "calculate" THEN announced ELSE good]
            /\ store' = drafted /\ WriteFault
  <2>1. IntentOK(announced, v) /\ IntentOK(good, v)
      BY <1>12, <1>15, <1>18
  <2>2. writeFaults' \in 0 .. MaxWriteFaults /\ StoreOK(store')
      BY <1>19, <1>22, FaultCounted
  <2>3. CASE job.kind = "calculate"
      BY <1>2, <1>9, <1>12, <1>22, <2>1, <2>2, <2>3, CalculationDone
  <2>4. CASE job.kind # "calculate"
      BY <1>2, <1>9, <1>15, <1>22, <2>1, <2>2, <2>4, CalculationDone
  <2> QED BY <2>3, <2>4
<1> QED BY <1>10, <1>20, <1>21, <1>22
(* --- the saved Projects ------------------------------------------------ *)

\* Saving selects the Project, with the last good calculation if it is of that Project.
LEMMA SelectedKeeps ==
  ASSUME NEW s, StoreOK(s), NEW p \in WebProjects, NEW last \in Working \cup {Nothing}, Paired(last)
  PROVE  StoreOK([s EXCEPT !.record[p] = IF last # Nothing /\ last.project.id = p THEN last ELSE @,
                           !.opened = p])
<1> DEFINE r == IF last # Nothing /\ last.project.id = p THEN last ELSE s.record[p]
           v == [s EXCEPT !.record[p] = IF last # Nothing /\ last.project.id = p THEN last ELSE @,
                          !.opened = p]
<1>1. r \in Working \cup {Nothing} /\ Paired(r) /\ (r # Nothing => r.project.id = p)
    BY DEF StoreOK, Stores, Filed
<1>2. v = [s EXCEPT !.record[p] = r, !.opened = p]
    BY DEF StoreOK, Stores
<1> HIDE DEF r
<1>3. /\ v \in Stores /\ v.draft = s.draft /\ v.saved = s.saved
      /\ \A q \in WebProjects : v.record[q] = IF q = p THEN r ELSE s.record[q]
    BY <1>1, <1>2 DEF StoreOK, Stores
<1> HIDE DEF v
<1>4. Filed(v)
    BY <1>1, <1>3 DEF StoreOK, Filed
<1> QED BY <1>3, <1>4 DEF StoreOK, v

\* A save keeps the store in order; the session gets the revision it has written.
LEMMA SaveKeeps ==
  ASSUME IInv, NEW t \in Tokens, SaveProject(t)
  PROVE  IInv' /\ DurableStep /\ SecondClick
<1> DEFINE session == mem[t]
           project == session.project
           drafted == Persisted(session, project, FALSE)
           revised == [project EXCEPT !.revision = @ + 1]
           last == session.last
           recorded(s) == IF session.persist THEN s
                          ELSE [s EXCEPT !.record[project.id] =
                                             IF last # Nothing /\ last.project.id = project.id
                                             THEN last ELSE @,
                                         !.opened = project.id]
           checkpoint == Revise(drafted, revised)
           full == Autosaved(checkpoint, revised, FALSE)
           saved == [session EXCEPT !.project = revised]
<1>1. /\ Request(t) /\ Touched(t) /\ project # Nothing /\ project.revision < MaxSaves
      /\ UNCHANGED <<table, running, newest>>
    BY DEF SaveProject
<1>2. \/ store' = drafted /\ UNCHANGED <<mem, told, writeFaults>>
      \/ /\ store' \in {recorded(full), recorded(checkpoint), full} /\ Commit(t, saved)
         /\ (UNCHANGED writeFaults) \/ WriteFault
    BY DEF SaveProject
<1>3. t \in DOMAIN mem
    BY <1>1, RequestKeeps
<1>4. /\ SessionOK(session) /\ session \in WebSession /\ project \in WebProject
      /\ last \in Working \cup {Nothing} /\ Paired(last)
    BY <1>1, <1>3, Requesting DEF SessionOK, WebSession
<1>5. writeFaults' \in 0 .. MaxWriteFaults
    BY <1>2, FaultCounted
<1>6. StoreOK(drafted) /\ (session.persist => drafted.draft[project.id] = project)
    BY <1>4, PersistedKeeps
<1>7. CASE store' = drafted /\ UNCHANGED <<mem, told, writeFaults>>
  <2>1. /\ TokensOK' /\ SessionsOK' /\ DurableStep
        /\ DOMAIN mem' = DOMAIN mem /\ \A u \in DOMAIN mem : mem'[u] = mem[u]
      BY <1>1, <1>7, Unmoved
  <2> QED BY <1>1, <1>5, <1>6, <1>7, <2>1, RequestDone
<1>8. CASE /\ store' \in {recorded(full), recorded(checkpoint), full} /\ Commit(t, saved)
           /\ (UNCHANGED writeFaults) \/ WriteFault
  <2>1. /\ revised \in WebProject /\ revised.id = project.id /\ project.id \in WebProjects
        /\ revised.revision > project.revision
      BY <1>1, <1>4, Bounds DEF WebProject
  <2>2. /\ SessionOK(saved) /\ saved.project = revised /\ saved.intent = session.intent
        /\ saved.persist = session.persist /\ saved.rounding = session.rounding
      BY <1>4, <2>1, ProjectChanged
  <2> HIDE DEF saved, drafted, revised
  <2>3. /\ StoreOK(checkpoint) /\ checkpoint.saved[project.id] = revised
        /\ checkpoint.draft = drafted.draft
      BY <1>6, <2>1, ReviseKeeps
  <2> HIDE DEF checkpoint
  <2>4. StoreOK(full) /\ full.draft[project.id] = revised
    <3>1. FALSE \in BOOLEAN
        OBVIOUS
    <3>2. /\ StoreOK(Autosaved(checkpoint, revised, FALSE))
          /\ Autosaved(checkpoint, revised, FALSE).draft[revised.id] = revised
        BY <2>1, <2>3, <3>1, AutosavedKeeps
    <3> QED BY <2>1, <3>2
  <2> HIDE DEF full
  <2>5. StoreOK(recorded(full)) /\ StoreOK(recorded(checkpoint))
      BY <1>4, <2>1, <2>3, <2>4, SelectedKeeps
  <2>6. StoreOK(store')
      BY <1>8, <2>4, <2>5
  <2>7. session.persist => IsDurable(store', revised)
    <3> SUFFICES ASSUME session.persist PROVE IsDurable(store', revised)
        OBVIOUS
    <3>1. store' = full \/ store' = checkpoint
        BY <1>8
    <3>2. CASE store' = full
        BY <2>1, <2>4, <3>2, DraftIsDurable
    <3>3. CASE store' = checkpoint
      <4>1. /\ checkpoint.draft[project.id] = project /\ project # Nothing
            /\ checkpoint.saved[project.id] = revised /\ revised # Nothing
          BY <1>1, <1>6, <2>1, <2>3, Bounds
      <4>2. Loadable(checkpoint, project.id) = revised
          BY <2>1, <4>1 DEF Loadable
      <4> QED BY <2>1, <3>3, <4>2 DEF IsDurable
    <3> QED BY <3>1, <3>2, <3>3
  <2>8. /\ TokensOK' /\ SessionsOK' /\ DurableStep /\ DOMAIN mem' = DOMAIN mem
        /\ \A u \in DOMAIN mem \ {t} : mem'[u] = mem[u]
      BY <1>1, <1>3, <1>8, <2>2, <2>7, CommitKeeps
  <2> QED BY <1>1, <1>5, <2>6, <2>8, RequestDone
<1> QED BY <1>2, <1>7, <1>8

\* A load takes over what the store has of a Project, and forgets what was announced.
LEMMA LoadKeeps ==
  ASSUME IInv, NEW t \in Tokens, NEW p \in WebProjects, LoadProject(t, p)
  PROVE  IInv' /\ DurableStep /\ SecondClick
<1> DEFINE restored == Restored(mem[t], store, p)
           s == [restored EXCEPT !.intent = Nothing]
           k == [mem[t] EXCEPT !.last = store.record[p]]
<1>1. /\ Request(t) /\ Touched(t) /\ Loadable(store, p) # Nothing
      /\ UNCHANGED <<table, running, newest>>
      /\ \/ /\ store' = IF mem[t].persist THEN [store EXCEPT !.opened = p] ELSE store
            /\ mem' = [mem EXCEPT ![t] = Presented(s)]
            /\ told' = [told EXCEPT ![t] = Nothing]
            /\ UNCHANGED writeFaults
         \/ /\ WriteFault /\ mem' = [mem EXCEPT ![t].last = store.record[p]]
            /\ UNCHANGED <<store, told>>
    BY DEF LoadProject
<1>2. t \in DOMAIN mem
    BY <1>1, RequestKeeps
<1>3. /\ SessionOK(mem[t]) /\ mem[t] \in WebSession /\ IntentOK(mem[t], told[t])
      /\ StoreOK(store)
    BY <1>2, Requesting DEF IInv
<1>4. writeFaults' \in 0 .. MaxWriteFaults
    BY <1>1, FaultCounted
<1>5. StoreOK(store') /\ Loadable(store', p) = Loadable(store, p)
    BY <1>1, <1>3, OpenedKeeps
<1>6. CASE mem' = [mem EXCEPT ![t] = Presented(s)] /\ told' = [told EXCEPT ![t] = Nothing]
  <2>1. /\ SessionOK(restored) /\ restored.project = Loadable(store, p)
        /\ restored.persist = mem[t].persist
      BY <1>3, RestoredKeeps
  <2> HIDE DEF restored
  <2>2. SessionOK(s) /\ s.project = Loadable(store, p) /\ s.intent = Nothing
      BY <2>1, IntentChanged
  <2> HIDE DEF s
  <2>3. /\ SessionOK(Presented(s)) /\ Presented(s).project = Loadable(store, p)
        /\ Presented(s).intent = Nothing
      BY <2>2, PresentedKeeps
  <2>4. IntentOK(Presented(s), Nothing)
      BY <2>3 DEF IntentOK
  <2>5. IsDurable(store', Presented(s).project)
      BY <1>1, <1>3, <1>5, <2>3, LoadableFiled DEF IsDurable
  <2>6. /\ TokensOK' /\ SessionsOK' /\ DurableStep /\ DOMAIN mem' = DOMAIN mem
        /\ \A u \in DOMAIN mem \ {t} : mem'[u] = mem[u]
      BY <1>1, <1>2, <1>6, <2>3, <2>4, <2>5, OneSession
  <2> QED BY <1>1, <1>4, <1>5, <2>6, RequestDone
<1>7. CASE mem' = [mem EXCEPT ![t].last = store.record[p]] /\ UNCHANGED told
  <2>1. /\ SessionOK(k) /\ k.project = mem[t].project /\ k.intent = mem[t].intent
      BY <1>3 DEF SessionOK, WebSession, StoreOK, Stores, Filed
  <2>2. mem' = [mem EXCEPT ![t] = k]
      BY <1>7
  <2> HIDE DEF k
  <2>3. IntentOK(k, told[t])
      BY <1>3, <2>1 DEF IntentOK
  <2>4. told' = [told EXCEPT ![t] = told[t]]
      BY <1>7 DEF IInv, SessionsOK
  <2>5. /\ TokensOK' /\ SessionsOK' /\ DurableStep /\ DOMAIN mem' = DOMAIN mem
        /\ \A u \in DOMAIN mem \ {t} : mem'[u] = mem[u]
      BY <1>1, <1>2, <2>1, <2>2, <2>3, <2>4, OneSession
  <2> QED BY <1>1, <1>4, <1>5, <2>5, RequestDone
<1> QED BY <1>1, <1>6, <1>7

\* A deletion takes the Project away from the store, and from the session that has it.
LEMMA DeleteKeeps ==
  ASSUME IInv, NEW t \in Tokens, NEW p \in WebProjects, DeleteProject(t, p)
  PROVE  IInv' /\ DurableStep /\ SecondClick
<1> DEFINE s == [mem[t] EXCEPT !.project = Nothing, !.outcome = Nothing]
           f == Forget(store, p)
<1>1. /\ Request(t) /\ Touched(t)
      /\ store' = [f EXCEPT !.opened = IF @ = p THEN Nothing ELSE @,
                            !.latest = IF @ = p THEN Nothing ELSE @]
      /\ Commit(t, s) \/ UNCHANGED <<mem, told>>
      /\ UNCHANGED <<table, running, newest, writeFaults>>
    BY DEF DeleteProject
<1>2. t \in DOMAIN mem
    BY <1>1, RequestKeeps
<1>3. SessionOK(mem[t]) /\ StoreOK(f)
    BY <1>2, Requesting, ForgetKeeps DEF IInv
<1> HIDE DEF f
<1>4. StoreOK(store')
  <2>1. /\ store' \in Stores /\ store'.draft = f.draft /\ store'.saved = f.saved
        /\ store'.record = f.record
      BY <1>1, <1>3 DEF StoreOK, Stores
  <2> QED BY <1>3, <2>1 DEF StoreOK, Filed
<1>5. writeFaults' \in 0 .. MaxWriteFaults
    BY <1>1, FaultCounted
<1>6. /\ TokensOK' /\ SessionsOK' /\ DurableStep /\ DOMAIN mem' = DOMAIN mem
      /\ \A u \in DOMAIN mem \ {t} : mem'[u] = mem[u]
  <2>1. SessionOK(s) /\ s.project = Nothing /\ s.intent = mem[t].intent
      BY <1>3, ProjectDropped
  <2> HIDE DEF s
  <2>2. CASE Commit(t, s)
      BY <1>1, <1>2, <2>1, <2>2, CommitKeeps
  <2>3. CASE UNCHANGED <<mem, told>>
      BY <1>1, <2>3, Unmoved
  <2> QED BY <1>1, <2>2, <2>3
<1> QED BY <1>1, <1>4, <1>5, <1>6, RequestDone

(* --- the theorems ------------------------------------------------------ *)

\* The server starts with an empty table, and with nothing or a calculated draft in the store.
LEMMA InitInv == WebInit => IInv
<1> SUFFICES ASSUME WebInit PROVE IInv
    OBVIOUS
<1>1. /\ table = {} /\ order = <<>> /\ mem = <<>> /\ running = <<>> /\ told = <<>>
      /\ newest = 1 /\ requests = 0 /\ writeFaults = 0
    BY DEF WebInit
<1>2. DOMAIN mem = {} /\ DOMAIN told = {} /\ DOMAIN running = {}
    BY <1>1
<1>3. TokensOK
  <2>1. DOMAIN mem = 1 .. 0 /\ 0 \in 0 .. MaxTokens
      BY <1>2, Bounds
  <2> QED BY <1>1, <2>1 DEF TokensOK
<1>4. OrderOK(table, order)
  <2>1. order \in Seq(Tokens) /\ Len(order) = 0
      BY <1>1
  <2> QED BY <1>1, <2>1, Bounds DEF OrderOK, Distinct, Elements
<1>5. SessionsOK /\ RunningOK
  <2>1. mem = [t \in DOMAIN mem |-> mem[t]] /\ told = [t \in DOMAIN mem |-> told[t]]
      BY <1>1, <1>2
  <2> QED BY <1>2, <2>1 DEF SessionsOK, RunningOK
<1>6. CountersOK
    BY <1>1, Bounds DEF CountersOK
<1>7. NoStore \in Stores /\ StoreOK(NoStore)
    BY DEF NoStore, Stores, StoreOK, Filed, Paired
<1>8. ASSUME NEW p \in WebProjects, NEW input \in Inputs
      PROVE  StoreOK(CalculatedDraft(p, input))
  <2> DEFINE run == IF input \in FtdInputs THEN Nothing ELSE 1
             project == [id |-> p, input |-> input, run |-> run, revision |-> 0,
                         calculatedAgainst |-> <<input, run>>]
             outcome == [of |-> <<input, run>>, run |-> run, rounded |-> FALSE, blocked |-> FALSE]
             w == [project |-> project, outcome |-> outcome]
             s == [NoStore EXCEPT !.draft[p] = project, !.opened = p, !.latest = p, !.record[p] = w]
  <2>1. CalculatedDraft(p, input) = s
      BY DEF CalculatedDraft
  <2>2. run \in Runs
      BY Bounds DEF Runs
  <2> HIDE DEF run
  <2>3. /\ project \in WebProject /\ outcome \in Outcome /\ w \in Working
      BY <2>2, Bounds DEF WebProject, Outcome, Working, Fingerprints
  <2>4. Paired(w) /\ w.project.id = p /\ project.id = p
      BY DEF Paired, CalculationFingerprint
  <2> HIDE DEF project, outcome, w
  <2>5. /\ s \in Stores
        /\ \A q \in WebProjects : /\ s.draft[q] = IF q = p THEN project ELSE Nothing
                                  /\ s.saved[q] = Nothing
                                  /\ s.record[q] = IF q = p THEN w ELSE Nothing
      BY <2>3 DEF NoStore, Stores
  <2> HIDE DEF s
  <2>6. Filed(s)
      BY <2>4, <2>5 DEF Filed, Paired
  <2> QED BY <2>1, <2>5, <2>6 DEF StoreOK
<1>9. StoreOK(store)
    BY <1>7, <1>8 DEF WebInit
<1> QED BY <1>3, <1>4, <1>5, <1>6, <1>9 DEF IInv

\* Every step keeps the invariant, and what DurableFirst and RefreshIsSecondClick promise.
LEMMA NextKeeps == ASSUME IInv, [WebNext]_webVars PROVE IInv' /\ DurableStep /\ SecondClick
<1>1. CASE CreateCookieSession
    BY <1>1, CookieKeeps
<1>2. ASSUME NEW source \in 0 .. MaxTokens, NEW keep \in BOOLEAN, CreateTabSession(source, keep)
      PROVE  IInv' /\ DurableStep /\ SecondClick
    BY <1>2, TabKeeps
<1>3. ASSUME NEW t \in Tokens, NEW clear \in BOOLEAN, Invalidate(t, clear)
      PROVE  IInv' /\ DurableStep /\ SecondClick
    BY <1>3, InvalidateKeeps
<1>4. ASSUME NEW t \in Tokens, AcceptImport(t) \/ SaveProject(t)
      PROVE  IInv' /\ DurableStep /\ SecondClick
    BY <1>4, AcceptImportKeeps, SaveKeeps
<1>5. ASSUME NEW t \in Tokens, NEW p \in WebProjects, NEW input \in Inputs, ConfirmRoute(t, p, input)
      PROVE  IInv' /\ DurableStep /\ SecondClick
    BY <1>5, ConfirmRouteKeeps
<1>6. ASSUME NEW t \in Tokens, NEW input \in Inputs,
             Update(t, input) \/ EditRoute(t, input) \/ UpdateAndCalculate(t, input)
      PROVE  IInv' /\ DurableStep /\ SecondClick
    BY <1>6, UpdateKeeps, EditRouteKeeps, UpdateAndCalculateKeeps
<1>7. ASSUME NEW t \in Tokens, NEW rounding \in BOOLEAN, Calculate(t, rounding)
      PROVE  IInv' /\ DurableStep /\ SecondClick
    BY <1>7, CalculateKeeps
<1>8. ASSUME NEW t \in Tokens, CalculationRaises(t) \/ FinishCalculation(t)
      PROVE  IInv' /\ DurableStep /\ SecondClick
    BY <1>8, RaisesKeeps, FinishKeeps
<1>9. ASSUME NEW t \in Tokens, NEW p \in WebProjects, LoadProject(t, p) \/ DeleteProject(t, p)
      PROVE  IInv' /\ DurableStep /\ SecondClick
    BY <1>9, LoadKeeps, DeleteKeeps
<1>10. CASE Restart
    BY <1>10, RestartKeeps
<1>11. CASE PublishRun
    BY <1>11, PublishKeeps
<1>12. CASE UNCHANGED webVars
  <2>1. UNCHANGED <<table, order, mem, running, store, newest, told, requests, writeFaults>>
      BY <1>12 DEF webVars
  <2>2. TokensOK' /\ SessionsOK' /\ DurableStep
      BY <2>1, Unmoved
  <2>3. RunningOK' /\ SecondClick /\ CountersOK' /\ OrderOK(table', order') /\ StoreOK(store')
      BY <2>1 DEF IInv, RunningOK, SecondClick, CountersOK
  <2> QED BY <2>2, <2>3 DEF IInv
<1> QED BY <1>1, <1>2, <1>3, <1>4, <1>5, <1>6, <1>7, <1>8, <1>9, <1>10, <1>11, <1>12 DEF WebNext

\* The types and the table of sessions follow from the invariant.
LEMMA Consistent == IInv => WebConsistent
<1> SUFFICES ASSUME IInv PROVE WebConsistent
    OBVIOUS
<1>1. TableInOrder
  <2>1. order \in Seq(Tokens) /\ Distinct(order) /\ table = Elements(order) /\ Len(order) <= MaximumSessions
      BY DEF IInv, OrderOK
  <2> QED BY <2>1, CountedOnce DEF TableInOrder, Elements
<1>2. DOMAIN mem \subseteq Tokens
    BY Bounds DEF IInv, TokensOK, Tokens
<1>3. \A t \in DOMAIN mem : SessionOK(mem[t])
    BY DEF IInv, SessionsOK
<1>4. RoundedOnlyInMode /\ \A t \in DOMAIN mem : mem[t] \in WebSession /\ Paired(mem[t].last)
    BY <1>3 DEF RoundedOnlyInMode, SessionOK
<1>5. WebTypeOK
    BY <1>2, <1>4 DEF WebTypeOK, IInv, TokensOK, OrderOK, RunningOK, StoreOK, Stores, CountersOK
<1>6. \A p \in WebProjects : /\ Paired(store.record[p])
                             /\ store.record[p] # Nothing => store.record[p].project.id = p
    BY DEF IInv, StoreOK, Filed
<1> QED BY <1>1, <1>4, <1>5, <1>6 DEF WebConsistent

\* The inductive invariant of the sessions and the store, for any Projects, inputs, sessions
\* and number of faults.
THEOREM SessionsInductive == WebSpec => []IInv
BY InitInv, NextKeeps, PTL DEF WebSpec

\* What is kept of calculations, in memory or in the store, is what it says it is, and the
\* table of sessions and their order of use never part.
THEOREM WorkIsConsistent == WebSpec => []WebConsistent
BY SessionsInductive, Consistent, PTL

\* A calculation replaces the pinned forecast only on the second click in the same rounding
\* mode, on inputs that nobody changed since the newer one was announced.
THEOREM RefreshOnSecondClick == WebSpec => RefreshIsSecondClick
<1> DEFINE A == \A t \in DOMAIN running' \ DOMAIN running :
                  running'[t].refresh => told'[t] = running'[t].rounding
<1>1. ASSUME IInv, [WebNext]_webVars PROVE [A]_webVars
    BY <1>1, NextKeeps DEF SecondClick
<1> QED BY <1>1, SessionsInductive, PTL DEF WebSpec, RefreshIsSecondClick

\* A reload in place of an autosaving session would find the Project the session has just
\* committed, or a newer revision of it.
THEOREM WorkDurableFirst == WebSpec => DurableFirst
<1> DEFINE A == \A t \in DOMAIN mem \cap DOMAIN mem' :
                  LET project == mem'[t].project
                  IN mem'[t].persist /\ project # Nothing /\ project # mem[t].project
                       => \/ Loadable(store', project.id) = project
                          \/ Loadable(store', project.id).revision > project.revision
<1>1. ASSUME IInv, [WebNext]_webVars PROVE [A]_webVars
    BY <1>1, NextKeeps DEF DurableStep, IsDurable
<1> QED BY <1>1, SessionsInductive, PTL DEF WebSpec, DurableFirst
=============================================================================
