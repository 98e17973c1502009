---------------------------- MODULE ContentProofs ----------------------------
(***************************************************************************)
(* Proofs about ContentStore: no request removes a template that stays in   *)
(* use, and no upload is orphaned unless a crash or a failed removal did    *)
(* it.  Both rest on who may refer to an upload: at any time it belongs to  *)
(* the request that saved it, or to one entry id, never to both.            *)
(***************************************************************************)
EXTENDS ContentStore, FiniteSetTheorems, TLAPS

Maybe(S) == S \union {None}
Places == {"idle", "uploaded", "change", "stat", "write", "delete", "remove"}
Local == [pc : Places, id : Maybe(Ids), entry : Maybe(Entry), upload : Maybe(Files)]

\* Which locals a request holds at each place.
LocalsFit(a) ==
  LET w == work[a] IN
  /\ w.pc = "idle" => w = Idle
  /\ w.pc \in {"uploaded", "remove"} => w.entry = None /\ w.upload # None
  /\ w.pc \in {"change", "stat", "write"} => w.entry # None /\ w.id # None
  /\ w.pc = "stat" => w.entry.upload # None
  /\ w.pc \in {"change", "delete"} => w.upload = None
  /\ w.pc = "delete" => w.entry = None /\ w.id # None
  /\ w.entry # None /\ w.upload # None => w.entry.upload = w.upload

\* Entry i refers to file f: in the store, or in an update under way.
Claims(a, i, f) ==
  work[a].entry # None /\ work[a].id = i /\ work[a].entry.upload = f
Holds(i, f) == entries[i] # None /\ entries[i].upload = f

\* One upload, one entry id.
OneEntry ==
  \A f \in Files : \A i, j \in Ids :
    /\ Holds(i, f) /\ Holds(j, f) => i = j
    /\ \A a \in Admins : Holds(i, f) /\ Claims(a, j, f) => i = j
    /\ \A a, b \in Admins : Claims(a, i, f) /\ Claims(b, j, f) => i = j

\* An upload still owned by the request that saved it is referred to by no entry
\* and no other request.
Owned ==
  \A a \in Admins : \A f \in Files : work[a].upload = f =>
    /\ \A i \in Ids : ~Holds(i, f)
    /\ \A b \in Admins \ {a} :
         work[b].upload # f /\ \A i \in Ids : ~Claims(b, i, f)

\* Names that have not been handed out are not in use.
Fresh ==
  /\ \A f \in Files \ issued :
       /\ \A i \in Ids : ~Holds(i, f)
       /\ \A a \in Admins : work[a].upload # f /\ \A i \in Ids : ~Claims(a, i, f)
  /\ \A i \in Ids \ issued : entries[i] = None /\ \A a \in Admins : work[a].id # i

UploadInv ==
  /\ TypeOK /\ (\A a \in Admins : LocalsFit(a)) /\ OneEntry /\ Owned /\ Fresh
  /\ NoOrphan

-----------------------------------------------------------------------------
\* A request that gives up keeps only its own upload.
LEMMA GiveUpTyped ==
  ASSUME UploadInv, NEW a \in Admins
  PROVE  GiveUp(a) \in [Admins -> Local]
<1>1. work \in [Admins -> Local]
  BY DEF UploadInv, TypeOK, Local, Maybe, Places
<1>2. Idle \in Local
  BY DEF Idle, Local, Maybe, Places
<1>3. CASE work[a].upload = None
  BY <1>1, <1>2, <1>3 DEF GiveUp
<1>4. CASE work[a].upload # None
  <2>1. [Idle EXCEPT !.pc = "remove", !.upload = work[a].upload] \in Local
    BY <1>1 DEF Idle, Local, Maybe, Places
  <2> QED BY <1>1, <1>4, <2>1 DEF GiveUp
<1> QED BY <1>3, <1>4

\* Put's checks leave a valid entry with the request, or end it.
LEMMA BeginPutTyped ==
  ASSUME UploadInv, NEW a \in Admins, NEW i \in Ids, NEW e \in Entry,
         BeginPut(a, i, e)
  PROVE  work' \in [Admins -> Local]
<1>1. work \in [Admins -> Local]
  BY DEF UploadInv, TypeOK, Local, Maybe, Places
<1>2. CASE e.groups = {}
  BY <1>2, GiveUpTyped DEF BeginPut
<1>3. CASE e.groups # {}
  BY <1>1, <1>3 DEF BeginPut, Local, Maybe, Places
<1> QED BY <1>2, <1>3

\* The locals fit afterwards if the entry has the upload that the request owns.
LEMMA BeginPutFits ==
  ASSUME UploadInv, NEW a \in Admins, NEW i \in Ids, NEW e \in Entry,
         work[a].upload \in {None, e.upload}, BeginPut(a, i, e)
  PROVE  \A b \in Admins : LocalsFit(b)'
<1>1. CASE e.groups = {}
  BY <1>1 DEF UploadInv, TypeOK, LocalsFit, Idle, BeginPut, GiveUp
<1>2. CASE e.groups # {}
  <2>1. e # None /\ i # None
    BY ContentAssumption
  <2> QED BY <1>2, <2>1 DEF UploadInv, TypeOK, LocalsFit, BeginPut
<1> QED BY <1>1, <1>2

\* A new upload is owned by the request that saved it.
LEMMA SaveUploadKeeps ==
  ASSUME UploadInv, NEW a \in Admins, NEW f \in Files, NEW size \in Sizes,
      SaveUpload(a, f, size)
  PROVE  UploadInv'
<1>1. TypeOK'
  BY ContentAssumption DEF UploadInv, TypeOK, LocalsFit, Idle, SaveUpload, At
<1>2. \A b \in Admins : LocalsFit(b)'
  BY ContentAssumption DEF UploadInv, TypeOK, LocalsFit, Idle, SaveUpload, At
<1>3. OneEntry'
  BY DEF UploadInv, TypeOK, OneEntry, Holds, Claims, SaveUpload, At
<1>4. Owned'
  BY DEF UploadInv, TypeOK, Fresh, SaveUpload, At
<1>5. Fresh'
  BY DEF UploadInv, TypeOK, Fresh, SaveUpload, At
<1>6. NoOrphan'
  BY DEF UploadInv, TypeOK, NoOrphan, Stored, Uses, SaveUpload, At
<1> QED BY <1>1, <1>2, <1>3, <1>4, <1>5, <1>6 DEF UploadInv

\* A new entry has an id of its own, and the upload of its request.
LEMMA CreateKeeps ==
  ASSUME UploadInv, NEW a \in Admins, NEW i \in Ids, NEW groups \in SUBSET Groups,
      Create(a, i, groups)
  PROVE  UploadInv'
<1>e. [upload |-> work[a].upload, groups |-> groups, enabled |-> TRUE] \in Entry
  BY DEF UploadInv, TypeOK, Entry
<1>1. TypeOK'
  BY <1>e, BeginPutTyped DEF UploadInv, TypeOK, Create, Local, Maybe, Places
<1>2. \A b \in Admins : LocalsFit(b)'
  BY <1>e, BeginPutFits DEF UploadInv, TypeOK, Create
<1>3. OneEntry'
  BY ContentAssumption DEF UploadInv, OneEntry, Owned, Holds, Claims, Idle, Entry,
      Create, BeginPut, GiveUp
<1>4. Owned'
  BY DEF UploadInv, Owned, Holds, Claims, Idle, Create, BeginPut, GiveUp
<1>5. Fresh'
  BY ContentAssumption DEF UploadInv, Fresh, Holds, Claims, Idle, Create, BeginPut, GiveUp
<1>6. NoOrphan'
  BY DEF UploadInv, LocalsFit, NoOrphan, Stored, Uses, Create, BeginPut, GiveUp
<1> QED BY <1>1, <1>2, <1>3, <1>4, <1>5, <1>6 DEF UploadInv

\* An update takes a copy of an entry: a claim for the same id.
LEMMA GetKeeps ==
  ASSUME UploadInv, NEW a \in Admins, NEW i \in Ids, NEW next \in {"change", "delete"},
      Get(a, i, next)
  PROVE  UploadInv'
<1>1. TypeOK'
  BY DEF UploadInv, TypeOK, Get, At
<1>2. \A b \in Admins : LocalsFit(b)'
  BY ContentAssumption DEF UploadInv, LocalsFit, Get, At
<1>3. OneEntry'
  BY DEF UploadInv, OneEntry, Holds, Claims, Get, At
<1>4. Owned'
  BY DEF UploadInv, LocalsFit, Owned, Holds, Claims, Idle, Get, At
<1>5. Fresh'
  BY DEF UploadInv, LocalsFit, Fresh, Holds, Claims, Idle, Get, At
<1>6. NoOrphan'
  BY DEF UploadInv, LocalsFit, NoOrphan, Stored, Uses, Idle, Get, At
<1> QED BY <1>1, <1>2, <1>3, <1>4, <1>5, <1>6 DEF UploadInv

\* It changes groups and flag, never the upload.
LEMMA UpdateKeeps ==
  ASSUME UploadInv, NEW a \in Admins, NEW groups \in (SUBSET Groups) \union {None},
      NEW enabled \in BOOLEAN \union {None}, Update(a, groups, enabled)
  PROVE  UploadInv'
<1>e. /\ Changed(work[a].entry, groups, enabled) \in Entry /\ work[a].id \in Ids
      /\ work[a].upload = None
  <2>1. work[a].entry \in Entry /\ work[a].id \in Ids /\ work[a].upload = None
    BY DEF UploadInv, TypeOK, LocalsFit, Update, At
  <2> QED BY <2>1 DEF Changed, Entry
<1>1. TypeOK'
  BY <1>e, BeginPutTyped DEF UploadInv, TypeOK, Update, Local, Maybe, Places
<1>2. \A b \in Admins : LocalsFit(b)'
  BY <1>e, BeginPutFits DEF Update
<1>3. OneEntry'
  BY DEF UploadInv, LocalsFit, OneEntry, Holds, Claims, Idle, Update, At, BeginPut,
      GiveUp, Changed
<1>4. Owned'
  BY DEF UploadInv, LocalsFit, Owned, Holds, Claims, Idle, Update, At, BeginPut, GiveUp,
      Changed
<1>5. Fresh'
  BY ContentAssumption DEF UploadInv, LocalsFit, Fresh, Holds, Claims, Idle, Update, At,
      BeginPut, GiveUp, Changed
<1>6. NoOrphan'
  BY DEF UploadInv, NoOrphan, Stored, Uses, Idle, Update, At, BeginPut, GiveUp, Changed
<1> QED BY <1>1, <1>2, <1>3, <1>4, <1>5, <1>6 DEF UploadInv

\* The check of the template only decides how the request goes on.
LEMMA StatKeeps ==
  ASSUME UploadInv, NEW a \in Admins, Stat(a)
  PROVE  UploadInv'
<1>1. TypeOK'
  <2>1. work \in [Admins -> Local]
    BY DEF UploadInv, TypeOK, Local, Maybe, Places
  <2>2. work' \in [Admins -> Local]
    BY <2>1, GiveUpTyped DEF Stat, At, Local, Places
  <2> QED BY <2>2 DEF UploadInv, TypeOK, Stat, Local, Maybe, Places
<1>2. \A b \in Admins : LocalsFit(b)'
  BY DEF UploadInv, LocalsFit, Idle, Stat, At, GiveUp
<1>3. OneEntry'
  BY DEF UploadInv, OneEntry, Holds, Claims, Idle, Stat, At, GiveUp
<1>4. Owned'
  BY ContentAssumption DEF UploadInv, Owned, Holds, Claims, Idle, Stat, At, GiveUp
<1>5. Fresh'
  BY ContentAssumption DEF UploadInv, Fresh, Holds, Claims, Idle, Stat, At, GiveUp
<1>6. NoOrphan'
  BY DEF UploadInv, NoOrphan, Stored, Uses, Idle, Stat, At, GiveUp
<1> QED BY <1>1, <1>2, <1>3, <1>4, <1>5, <1>6 DEF UploadInv

\* What the request owned now belongs to the entry; a replaced upload is discarded.
LEMMA PutKeeps ==
  ASSUME UploadInv, NEW a \in Admins, Put(a)
  PROVE  UploadInv'
<1>1. TypeOK'
  BY DEF UploadInv, TypeOK, LocalsFit, Idle, Entry, Put, At, Discard
<1>2. \A b \in Admins : LocalsFit(b)'
  BY DEF UploadInv, LocalsFit, Idle, Put, At
<1>3. OneEntry'
  BY DEF UploadInv, OneEntry, Holds, Claims, Idle, Put, At
<1>4. Owned'
  BY ContentAssumption DEF UploadInv, TypeOK, Owned, Holds, Claims, Idle, Put, At
<1>5. Fresh'
  BY ContentAssumption DEF UploadInv, Fresh, Holds, Claims, Idle, Put, At
<1>6. NoOrphan'
  BY DEF UploadInv, TypeOK, LocalsFit, NoOrphan, Stored, Uses, Idle, Put, At, Discard
<1> QED BY <1>1, <1>2, <1>3, <1>4, <1>5, <1>6 DEF UploadInv

\* A deleted entry gives up its upload.
LEMMA DeleteKeeps ==
  ASSUME UploadInv, NEW a \in Admins, Delete(a)
  PROVE  UploadInv'
<1>1. TypeOK'
  BY DEF UploadInv, TypeOK, LocalsFit, Idle, Entry, Delete, At, Discard
<1>2. \A b \in Admins : LocalsFit(b)'
  BY DEF UploadInv, LocalsFit, Idle, Delete, At
<1>3. OneEntry'
  BY DEF UploadInv, OneEntry, Holds, Claims, Idle, Delete, At
<1>4. Owned'
  BY DEF UploadInv, LocalsFit, Owned, Holds, Claims, Idle, Delete, At
<1>5. Fresh'
  BY ContentAssumption DEF UploadInv, Fresh, Holds, Claims, Idle, Delete, At
<1>6. NoOrphan'
  BY DEF UploadInv, TypeOK, LocalsFit, NoOrphan, Stored, Uses, Idle, Delete, At, Discard
<1> QED BY <1>1, <1>2, <1>3, <1>4, <1>5, <1>6 DEF UploadInv

\* A failed request keeps the upload it must remove.
LEMMA FailKeeps ==
  ASSUME UploadInv, NEW a \in Admins, Fail(a)
  PROVE  UploadInv'
<1>1. TypeOK'
  BY DEF UploadInv, TypeOK, Idle, Fail, GiveUp
<1>2. \A b \in Admins : LocalsFit(b)'
  BY DEF UploadInv, LocalsFit, Idle, Fail, GiveUp
<1>3. OneEntry'
  BY DEF UploadInv, OneEntry, Holds, Claims, Idle, Fail, GiveUp
<1>4. Owned'
  BY DEF UploadInv, Owned, Holds, Claims, Idle, Fail, GiveUp
<1>5. Fresh'
  BY ContentAssumption DEF UploadInv, Fresh, Holds, Claims, Idle, Fail, GiveUp
<1>6. NoOrphan'
  BY DEF UploadInv, NoOrphan, Stored, Uses, Idle, Fail, GiveUp
<1> QED BY <1>1, <1>2, <1>3, <1>4, <1>5, <1>6 DEF UploadInv

\* It then removes it, or leaves it behind.
LEMMA RemoveUploadKeeps ==
  ASSUME UploadInv, NEW a \in Admins, RemoveUpload(a)
  PROVE  UploadInv'
<1>1. TypeOK'
  BY DEF UploadInv, TypeOK, LocalsFit, Idle, RemoveUpload, At, Discard
<1>2. \A b \in Admins : LocalsFit(b)'
  BY DEF UploadInv, LocalsFit, Idle, RemoveUpload, At
<1>3. OneEntry'
  BY DEF UploadInv, OneEntry, Holds, Claims, Idle, RemoveUpload, At
<1>4. Owned'
  BY ContentAssumption DEF UploadInv, Owned, Holds, Claims, Idle, RemoveUpload, At
<1>5. Fresh'
  BY ContentAssumption DEF UploadInv, Fresh, Holds, Claims, Idle, RemoveUpload, At
<1>6. NoOrphan'
  BY DEF UploadInv, TypeOK, NoOrphan, Stored, Uses, RemoveUpload, At, Discard
<1> QED BY <1>1, <1>2, <1>3, <1>4, <1>5, <1>6 DEF UploadInv

\* A crash leaves behind what the requests had uploaded.
LEMMA CrashKeeps ==
  ASSUME UploadInv, Crash
  PROVE  UploadInv'
<1>1. TypeOK'
  BY DEF UploadInv, TypeOK, Crash, Idle
<1>2. \A b \in Admins : LocalsFit(b)'
  BY DEF Crash, LocalsFit, Idle
<1>3. OneEntry' /\ Owned' /\ Fresh'
  BY ContentAssumption
  DEF UploadInv, TypeOK, OneEntry, Owned, Fresh, Holds, Claims, Idle, Crash
<1>4. NoOrphan'
  BY ContentAssumption DEF UploadInv, TypeOK, NoOrphan, Stored, Uses, Crash
<1> QED BY <1>1, <1>2, <1>3, <1>4 DEF UploadInv

\* Every step keeps UploadInv: one case per action of Next.
LEMMA NextKeeps ==
  ASSUME UploadInv, [Next]_vars
  PROVE  UploadInv'
<1>1. CASE UNCHANGED vars
  BY <1>1 DEF vars, UploadInv, TypeOK, LocalsFit, OneEntry, Owned, Fresh, Holds, Claims,
              NoOrphan, Stored, Uses
<1>2. CASE Crash
  BY <1>2, CrashKeeps
<1>3. ASSUME NEW a \in Admins, Handle(a)
      PROVE  UploadInv'
  BY <1>3, SaveUploadKeeps, CreateKeeps, GetKeeps, UpdateKeeps, StatKeeps, PutKeeps,
     DeleteKeeps, FailKeeps, RemoveUploadKeeps DEF Handle
<1> QED BY <1>1, <1>2, <1>3 DEF Next

\* The store starts empty.
LEMMA InitUploads == Init => UploadInv
  BY ContentAssumption
  DEF Init, Idle, UploadInv, TypeOK, LocalsFit, OneEntry, Owned, Fresh, Holds, Claims,
      NoOrphan, Stored

\* Who refers to an upload, in every reachable state.
LEMMA UploadInvariant == Spec => []UploadInv
  BY InitUploads, NextKeeps, PTL DEF Spec

-----------------------------------------------------------------------------
\* With any number of admin requests, ids and uploads, entries and uploads keep
\* their types.
THEOREM ContentTypeCorrect == Spec => []TypeOK
  BY UploadInvariant, PTL DEF UploadInv

\* Whatever requests run at once and wherever they fail, an upload outlives its
\* request only in an entry, unless a crash or a failed removal left it behind.
THEOREM NoUploadOrphaned == Spec => []NoOrphan
  BY UploadInvariant, PTL DEF UploadInv

\* No step removes a file that an entry uses before and after it.
LEMMA StepKeepsUploads ==
  ASSUME UploadInv, [Next]_vars, NEW f \in Files, files[f] # None, Uses(f), Uses(f)'
  PROVE  files'[f] # None
<1>1. ASSUME NEW a \in Admins, Put(a)
      PROVE  files'[f] # None
  BY <1>1 DEF UploadInv, TypeOK, LocalsFit, OneEntry, Holds, Uses, Put, At, Discard
<1>2. ASSUME NEW a \in Admins, Delete(a)
      PROVE  files'[f] # None
  BY <1>2 DEF UploadInv, TypeOK, LocalsFit, OneEntry, Holds, Uses, Delete, At, Discard
<1>3. ASSUME NEW a \in Admins, RemoveUpload(a)
      PROVE  files'[f] # None
  BY <1>3 DEF UploadInv, TypeOK, LocalsFit, Owned, Holds, Uses, RemoveUpload, At, Discard
<1>4. ASSUME NEW a \in Admins, NEW g \in Files, NEW size \in Sizes, SaveUpload(a, g, size)
      PROVE  files'[f] # None
  BY <1>4, ContentAssumption DEF UploadInv, TypeOK, SaveUpload
<1>5. CASE UNCHANGED files
  BY <1>5
<1> QED BY <1>1, <1>2, <1>3, <1>4, <1>5
    DEF Next, Handle, Create, Get, Update, Stat, Fail, Crash, vars

\* No request removes the template of an entry that stays: not the clean-up of
\* a failed request, nor the update or deletion of another entry.
THEOREM UsedUploadsKept == Spec => KeepsUploads
<1>1. UploadInv /\ [Next]_vars
        => [\A f \in Files : files[f] # None /\ Uses(f) /\ Uses(f)' => files'[f] # None]_vars
  BY StepKeepsUploads
<1> QED BY <1>1, UploadInvariant, PTL DEF Spec, KeepsUploads

-----------------------------------------------------------------------------
(* Totals: what enforceFileQuota adds up                                    *)

\* The element that MapThenSumSet takes from a set next.
Pick(s) == CHOOSE x \in s : TRUE

\* g[s] is the sum of v over s, for the subsets s of S, taken in that order.
Sums(v, S, g) ==
  g = [s \in SUBSET S |-> IF s = {} THEN 0 ELSE v[Pick(s)] + g[s \ {Pick(s)}]]

Total(v, S) == MapThenSumSet(LAMBDA f : v[f], S)

\* A non-empty collection of finite sets has a smallest one: the induction below
\* takes the smallest set for which a claim fails.
LEMMA SmallestSet ==
  ASSUME NEW S, NEW T, T \subseteq FiniteSubsetsOf(S), T # {}
  PROVE  \E m \in T : \A s \in T : s \subseteq m => s = m
<1>1. IsWellFoundedOn(StrictSubsetOrdering(S), FiniteSubsetsOf(S))
  BY FS_StrictSubsetOrderingWellFounded
<1>2. \E x \in T : \A y \in T : ~ (<<y, x>> \in StrictSubsetOrdering(S))
  BY <1>1, WFMin
<1> QED BY <1>2 DEF StrictSubsetOrdering, FiniteSubsetsOf

\* Taking an element leaves a smaller finite set.
LEMMA PickIn ==
  ASSUME NEW S, IsFiniteSet(S), NEW s \in SUBSET S, s # {}
  PROVE  /\ Pick(s) \in s /\ s \ {Pick(s)} \in SUBSET S /\ s \ {Pick(s)} # s
         /\ s \in FiniteSubsetsOf(S) /\ s \ {Pick(s)} \in FiniteSubsetsOf(S)
<1>1. Pick(s) \in s BY DEF Pick
<1> QED BY <1>1, FS_Subset DEF FiniteSubsetsOf

\* Two such sums of the same values are the same.
LEMMA SumsAgree ==
  ASSUME NEW v, NEW w, NEW S, NEW T, NEW g, NEW h, Sums(v, S, g), Sums(w, T, h),
         NEW u, IsFiniteSet(u), u \subseteq S, u \subseteq T, \A x \in u : v[x] = w[x]
  PROVE  g[u] = h[u]
<1> DEFINE bad == {s \in FiniteSubsetsOf(u) : g[s] # h[s]}
<1> SUFFICES ASSUME g[u] # h[u] PROVE FALSE OBVIOUS
<1>1. u \in bad BY FS_Subset DEF FiniteSubsetsOf
<1>2. PICK m \in bad : \A s \in bad : s \subseteq m => s = m
  <2>1. bad \subseteq FiniteSubsetsOf(u) /\ bad # {} BY <1>1
  <2> HIDE DEF bad
  <2> QED BY <2>1, SmallestSet
<1>3. m # {} BY <1>2 DEF Sums, FiniteSubsetsOf
<1>4. m \in SUBSET u BY DEF FiniteSubsetsOf
<1>5. Pick(m) \in m /\ m \ {Pick(m)} \notin bad BY <1>2, <1>3, <1>4, PickIn
<1>6. g[m \ {Pick(m)}] = h[m \ {Pick(m)}] BY <1>3, <1>4, <1>5, PickIn
<1>7. g[m] = v[Pick(m)] + g[m \ {Pick(m)}] BY <1>3, <1>4 DEF Sums
<1>8. h[m] = w[Pick(m)] + h[m \ {Pick(m)}] BY <1>3, <1>4 DEF Sums
<1> QED BY <1>2, <1>4, <1>5, <1>6, <1>7, <1>8
\* So there is one for every finite set: its equation determines it.
LEMMA SumsExist ==
  ASSUME NEW v, NEW S, IsFiniteSet(S)
  PROVE  \E g : Sums(v, S, g)
<1> DEFINE The(s) == CHOOSE g : Sums(v, s, g)
           bad == {s \in FiniteSubsetsOf(S) : ~\E g : Sums(v, s, g)}
<1> SUFFICES ASSUME ~\E g : Sums(v, S, g) PROVE FALSE OBVIOUS
<1>1. S \in bad BY FS_Subset DEF FiniteSubsetsOf
<1>2. PICK m \in bad : \A s \in bad : s \subseteq m => s = m
  <2>1. bad \subseteq FiniteSubsetsOf(S) /\ bad # {} BY <1>1
  <2> HIDE DEF bad
  <2> QED BY <2>1, SmallestSet
<1>3. m \in SUBSET S /\ IsFiniteSet(m) BY FS_Subset DEF FiniteSubsetsOf
<1>4. \A s \in SUBSET m : s # m => Sums(v, s, The(s))
  <2> SUFFICES ASSUME NEW s \in SUBSET m, s # m PROVE Sums(v, s, The(s)) OBVIOUS
  <2>1. s \in FiniteSubsetsOf(S) BY <1>3, FS_Subset DEF FiniteSubsetsOf
  <2>2. \E g : Sums(v, s, g) BY <1>2, <2>1
  <2> HIDE DEF Sums
  <2> QED BY <2>2
<1> DEFINE Rest(t) == t \ {Pick(t)}
           G == [t \in SUBSET m |-> IF t = {} THEN 0 ELSE v[Pick(t)] + The(Rest(t))[Rest(t)]]
<1>5. \A t \in SUBSET m : t # {} => G[Rest(t)] = The(Rest(t))[Rest(t)]
  <2> SUFFICES ASSUME NEW t \in SUBSET m, t # {} PROVE G[Rest(t)] = The(Rest(t))[Rest(t)]
    OBVIOUS
  <2> DEFINE u == Rest(t)  w == Rest(u)
  <2>1. u \in SUBSET m /\ u # m /\ IsFiniteSet(u)
    BY <1>3, PickIn, FS_Subset
  <2>2. Sums(v, u, The(u)) BY <1>4, <2>1
  <2>3. CASE u = {}
    BY <2>1, <2>2, <2>3 DEF Sums
  <2>4. CASE u # {}
    <3>1. w \in SUBSET u /\ w # m /\ IsFiniteSet(w) /\ w \in SUBSET m
      BY <2>1, <2>4, PickIn, FS_Subset
    <3>2. Sums(v, w, The(w)) BY <1>4, <3>1
    <3>3. The(u)[w] = The(w)[w] BY <2>2, <3>1, <3>2, SumsAgree
    <3>4. The(u)[u] = v[Pick(u)] + The(u)[w] BY <2>2, <2>4 DEF Sums
    <3>5. G[u] = v[Pick(u)] + The(w)[w] BY <2>1, <2>4
    <3> QED BY <3>3, <3>4, <3>5
  <2> QED BY <2>3, <2>4
<1>6. Sums(v, m, G)
  <2>1. G[{}] = 0 OBVIOUS
  <2>2. ASSUME NEW t \in SUBSET m, t # {} PROVE G[t] = v[Pick(t)] + G[Rest(t)]
    <3>1. G[t] = v[Pick(t)] + The(Rest(t))[Rest(t)] BY <2>2
    <3>2. G[Rest(t)] = The(Rest(t))[Rest(t)] BY <1>5, <2>2
    <3> HIDE DEF G, The, Rest
    <3> QED BY <3>1, <3>2
  <2>3. G = [t \in SUBSET m |-> G[t]] OBVIOUS
  <2> HIDE DEF G, The
  <2> QED BY <2>1, <2>2, <2>3 DEF Sums
<1> QED BY <1>2, <1>6
\* MapThenSumSet is such a sum,
LEMMA TotalSums ==
  ASSUME NEW v, NEW S, IsFiniteSet(S)
  PROVE  \E g : Sums(v, S, g) /\ Total(v, S) = g[S]
<1>1. PICK g : Sums(v, S, g) BY SumsExist
<1> QED BY <1>1 DEF Total, Sums, Pick, MapThenSumSet, MapThenFoldSet

\* which depends on the values of the elements alone,
LEMMA TotalAgrees ==
  ASSUME NEW v, NEW w, NEW S, IsFiniteSet(S), \A x \in S : v[x] = w[x]
  PROVE  Total(v, S) = Total(w, S)
BY TotalSums, SumsAgree

\* is a natural number if they are,
LEMMA SumsNat ==
  ASSUME NEW v, NEW S, NEW g, Sums(v, S, g), IsFiniteSet(S), \A x \in S : v[x] \in Nat,
         NEW u \in SUBSET S
  PROVE  g[u] \in Nat
<1> DEFINE bad == {s \in FiniteSubsetsOf(S) : g[s] \notin Nat}
<1> SUFFICES ASSUME g[u] \notin Nat PROVE FALSE OBVIOUS
<1>1. u \in bad BY FS_Subset DEF FiniteSubsetsOf
<1>2. PICK m \in bad : \A s \in bad : s \subseteq m => s = m
  <2>1. bad \subseteq FiniteSubsetsOf(S) /\ bad # {} BY <1>1
  <2> HIDE DEF bad
  <2> QED BY <2>1, SmallestSet
<1>3. m \in SUBSET S /\ m # {} BY <1>2 DEF Sums, FiniteSubsetsOf
<1>4. Pick(m) \in m /\ m \ {Pick(m)} \notin bad BY <1>2, <1>3, PickIn
<1>5. g[m \ {Pick(m)}] \in Nat BY <1>3, <1>4, PickIn
<1>6. g[m] = v[Pick(m)] + g[m \ {Pick(m)}] BY <1>3 DEF Sums
<1> QED BY <1>2, <1>3, <1>4, <1>5, <1>6

\* and does not depend on the order: any element may be taken last.
LEMMA SumsAdd ==
  ASSUME NEW v, NEW S, NEW g, Sums(v, S, g), IsFiniteSet(S), \A x \in S : v[x] \in Nat,
         NEW u \in SUBSET S, NEW x \in S \ u
  PROVE  g[u \union {x}] = v[x] + g[u]
<1> DEFINE bad == {s \in FiniteSubsetsOf(S) :
                     \E y \in S \ s : g[s \union {y}] # v[y] + g[s]}
<1> SUFFICES ASSUME g[u \union {x}] # v[x] + g[u] PROVE FALSE OBVIOUS
<1>1. u \in bad BY FS_Subset DEF FiniteSubsetsOf
<1>2. PICK m \in bad : \A s \in bad : s \subseteq m => s = m
  <2>1. bad \subseteq FiniteSubsetsOf(S) /\ bad # {} BY <1>1
  <2> HIDE DEF bad
  <2> QED BY <2>1, SmallestSet
<1>3. PICK y \in S \ m : g[m \union {y}] # v[y] + g[m] BY <1>2
<1>4. m \in SUBSET S BY DEF FiniteSubsetsOf
<1> DEFINE my == m \union {y}  p == Pick(my)  k == m \ {p}
<1>5. my \in SUBSET S /\ my # {} /\ p \in my
  <2>1. my \in SUBSET S /\ my # {} BY <1>4
  <2> HIDE DEF my
  <2> QED BY <2>1, PickIn
<1>6. g[my] = v[p] + g[my \ {p}] BY <1>5 DEF Sums
<1>7. p # y
  <2> SUFFICES ASSUME p = y PROVE FALSE OBVIOUS
  <2>1. my \ {p} = m OBVIOUS
  <2> QED BY <1>3, <1>6, <2>1
<1>8. p \in m /\ k \in SUBSET S /\ k \subseteq m /\ k # m /\ k \in FiniteSubsetsOf(S)
  BY <1>4, <1>5, <1>7, FS_Subset DEF FiniteSubsetsOf
<1>9. k \notin bad BY <1>2, <1>8
<1>10. g[k \union {y}] = v[y] + g[k] /\ g[k \union {p}] = v[p] + g[k]
  BY <1>4, <1>8, <1>9
<1>11. my \ {p} = k \union {y} /\ k \union {p} = m BY <1>7, <1>8
<1>12. v[p] \in Nat /\ v[y] \in Nat /\ g[k] \in Nat BY <1>4, <1>8, SumsNat
<1>13. g[my] = v[p] + (v[y] + g[k]) /\ g[m] = v[p] + g[k] BY <1>6, <1>10, <1>11
<1>14. g[my] # v[y] + g[m] BY <1>3
<1> HIDE DEF p, k, my, bad
<1> QED BY <1>12, <1>13, <1>14

\* The total of nothing, of sizes, and of a set with one more element.
LEMMA TotalEmpty == \A v : Total(v, {}) = 0
<1> SUFFICES ASSUME NEW v PROVE Total(v, {}) = 0 OBVIOUS
<1>1. PICK g : Sums(v, {}, g) /\ Total(v, {}) = g[{}] BY TotalSums, FS_EmptySet
<1> QED BY <1>1 DEF Sums

LEMMA TotalNat ==
  ASSUME NEW v, NEW S, IsFiniteSet(S), \A x \in S : v[x] \in Nat
  PROVE  Total(v, S) \in Nat
BY TotalSums, SumsNat

LEMMA TotalAdd ==
  ASSUME NEW v, NEW S, IsFiniteSet(S), NEW x, x \notin S, \A y \in S \union {x} : v[y] \in Nat
  PROVE  Total(v, S \union {x}) = v[x] + Total(v, S)
<1> DEFINE T == S \union {x}
<1>1. IsFiniteSet(T) BY FS_AddElement
<1>2. PICK g : Sums(v, T, g) /\ Total(v, T) = g[T] BY <1>1, TotalSums
<1>3. PICK h : Sums(v, S, h) /\ Total(v, S) = h[S] BY TotalSums
<1>4. g[S] = h[S] BY <1>2, <1>3, SumsAgree
<1>5. g[S \union {x}] = v[x] + g[S]
  <2>1. S \in SUBSET T /\ x \in T \ S OBVIOUS
  <2> HIDE DEF T
  <2> QED BY <1>1, <1>2, <2>1, SumsAdd DEF T
<1> QED BY <1>2, <1>3, <1>4, <1>5

-----------------------------------------------------------------------------
(* The quotas                                                               *)

\* Only files whose name was handed out exist, and they are within the quotas.
QuotaInv == IsFiniteSet(Stored) /\ Stored \subseteq issued /\ WithinQuota

LEMMA StoredTotal == StoredBytes = Total(files, Stored) /\ StoredBytes' = Total(files', Stored')
BY DEF StoredBytes, Total, MapThenSumSet, MapThenFoldSet

\* What enforceFileQuota lets in is one file more, of the size it asked about.
LEMMA SaveKeepsQuota ==
  ASSUME UploadInv, QuotaInv, NEW a \in Admins, NEW f \in Files, NEW size \in Sizes,
         SaveUpload(a, f, size)
  PROVE  QuotaInv'
<1>1. /\ f \notin Stored /\ Stored' = Stored \union {f} /\ Stored' \subseteq issued'
      /\ files'[f] = size /\ \A g \in Stored : files'[g] = files[g]
  BY ContentAssumption DEF UploadInv, TypeOK, QuotaInv, SaveUpload, Stored
<1>2. /\ IsFiniteSet(Stored') /\ Cardinality(Stored) \in Nat
      /\ Cardinality(Stored') = Cardinality(Stored) + 1
  BY <1>1, FS_AddElement, FS_CardinalityType DEF QuotaInv
<1>3. /\ \A g \in Stored : files[g] \in Nat
      /\ \A g \in Stored \union {f} : files'[g] \in Nat
  BY <1>1, ContentAssumption DEF UploadInv, TypeOK, Stored
<1>4. StoredBytes \in Nat BY <1>3, TotalNat, StoredTotal DEF QuotaInv
<1>5. Total(files', Stored) = StoredBytes BY <1>1, TotalAgrees, StoredTotal DEF QuotaInv
<1>6. StoredBytes' = size + StoredBytes
  <2>1. Total(files', Stored \union {f}) = files'[f] + Total(files', Stored)
    BY <1>1, <1>3, TotalAdd DEF QuotaInv
  <2> QED BY <1>1, <1>5, <2>1, StoredTotal
<1>7. WithinQuota'
  BY <1>2, <1>4, <1>6, ContentAssumption DEF SaveUpload, FitsQuota, WithinQuota
<1> QED BY <1>1, <1>2, <1>7 DEF QuotaInv

\* Removing a file, or failing to, makes the directory no larger.
LEMMA DiscardKeepsQuota ==
  ASSUME UploadInv, QuotaInv, NEW f \in Files, Discard(f), UNCHANGED issued
  PROVE  QuotaInv'
<1>0. \A g \in Stored : files[g] \in Nat
  BY ContentAssumption DEF UploadInv, TypeOK, Stored
<1>1. CASE files' = files
  BY <1>1, StoredTotal DEF QuotaInv, WithinQuota, Stored
<1>2. CASE files' = [files EXCEPT ![f] = None]
  <2>1. /\ Stored' = Stored \ {f} /\ Stored' \subseteq Stored
        /\ \A g \in Stored' : files'[g] = files[g]
    BY <1>2 DEF UploadInv, TypeOK, Stored
  <2>2. /\ IsFiniteSet(Stored') /\ Cardinality(Stored) \in Nat /\ Cardinality(Stored') \in Nat
        /\ Cardinality(Stored') <= Cardinality(Stored)
    BY <2>1, FS_Subset, FS_CardinalityType DEF QuotaInv
  <2>3. Total(files', Stored') = Total(files, Stored') BY <2>1, <2>2, TotalAgrees
  <2>4. Total(files, Stored') \in Nat /\ StoredBytes \in Nat
    BY <1>0, <2>1, <2>2, TotalNat, StoredTotal DEF QuotaInv
  <2>5. StoredBytes' <= StoredBytes
    <3>1. CASE f \in Stored
      <4>1. Stored = Stored' \union {f} /\ f \notin Stored' BY <2>1, <3>1
      <4>2. Total(files, Stored' \union {f}) = files[f] + Total(files, Stored')
        BY <1>0, <2>2, <4>1, TotalAdd
      <4> QED BY <1>0, <2>3, <2>4, <3>1, <4>1, <4>2, StoredTotal
    <3>2. CASE f \notin Stored
      BY <2>1, <2>3, <2>4, <3>2, StoredTotal
    <3> QED BY <3>1, <3>2
  <2>6. WithinQuota'
    BY <2>2, <2>3, <2>4, <2>5, StoredTotal, ContentAssumption DEF QuotaInv, WithinQuota
  <2> QED BY <2>1, <2>2, <2>6 DEF QuotaInv
<1> QED BY <1>1, <1>2 DEF Discard

\* No other step touches the directory.
LEMMA NextKeepsQuota ==
  ASSUME UploadInv, QuotaInv, [Next]_vars
  PROVE  QuotaInv'
<1>1. ASSUME NEW a \in Admins, NEW f \in Files, NEW size \in Sizes, SaveUpload(a, f, size)
      PROVE  QuotaInv'
  BY <1>1, SaveKeepsQuota
<1>2. CASE UNCHANGED files /\ issued \subseteq issued'
  BY <1>2, StoredTotal DEF QuotaInv, WithinQuota, Stored
<1>3. ASSUME NEW f \in Files, Discard(f), UNCHANGED issued PROVE QuotaInv'
  BY <1>3, DiscardKeepsQuota
<1>4. ASSUME NEW a \in Admins, Put(a) \/ Delete(a) \/ RemoveUpload(a) PROVE QuotaInv'
  <2>1. \/ UNCHANGED <<files, issued>>
        \/ \E f \in Files : Discard(f) /\ UNCHANGED issued
    BY <1>4 DEF Put, Delete, RemoveUpload, UploadInv, TypeOK, LocalsFit, At, Entry
  <2> QED BY <1>2, <1>3, <2>1
<1> QED BY <1>1, <1>2, <1>4 DEF Next, Handle, Create, Get, Update, Stat, Fail, Crash, vars

LEMMA InitQuota == Init => QuotaInv
<1> SUFFICES ASSUME Init PROVE QuotaInv OBVIOUS
<1>1. Stored = {} BY DEF Init, Stored
<1> QED BY <1>1, FS_EmptySet, TotalEmpty, StoredTotal, ContentAssumption
        DEF QuotaInv, WithinQuota

\* enforceFileQuota and the write under one mutex: with any number of requests at
\* once, any sizes and any quotas, failures and crashes included, the upload
\* directory never holds more files or more bytes than it may.
THEOREM StaysWithinQuota == Spec => []WithinQuota
<1>1. UploadInv /\ QuotaInv /\ [Next]_vars => QuotaInv' BY NextKeepsQuota
<1>2. QuotaInv => WithinQuota BY DEF QuotaInv
<1> QED BY <1>1, <1>2, InitQuota, UploadInvariant, PTL DEF Spec

=============================================================================
