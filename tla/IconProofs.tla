----------------------------- MODULE IconProofs -----------------------------
(***************************************************************************)
(* IconStore keeps one icon active and implements Branding, for any number  *)
(* of icons and of concurrent requests.                                     *)
(*                                                                          *)
(* The flag of a deleted icon passes to icons[0], which is another icon only *)
(* because no id is listed twice; that and what a request inside the mutex  *)
(* holds are what the invariant adds to the properties.                     *)
(***************************************************************************)
EXTENDS Dashboard, TLAPS

NoDuplicates == \A m, n \in 1..Len(icons) : icons[m] = icons[n] => m = n

\* Only listed icons are active, and ids are new when they are handed out.
KnownIds ==
  /\ active \subseteq Listed
  /\ iconFiles \subseteq named

\* A request between its two writes has the mutex to itself.
InsideMutex ==
  \A a \in Admins :
    /\ job[a].pc \in {"list", "remove"} => mutex = a /\ job[a].id \in IconIds \ Listed
    /\ job[a].pc = "list" => job[a].id \in iconFiles

IconInv ==
  /\ IconTypeOK /\ NoDuplicates /\ KnownIds /\ InsideMutex
  /\ OneActive /\ ListedHasFile /\ NoOrphanIcon

-----------------------------------------------------------------------------
LEMMA AppendListed ==
  ASSUME IconTypeOK, NEW i \in IconIds, icons' = Append(icons, i)
  PROVE  /\ icons' \in Seq(IconIds) /\ icons' # <<>> /\ Listed' = Listed \union {i}
         /\ NoDuplicates /\ i \notin Listed => NoDuplicates'
  <1>1. /\ icons \in Seq(IconIds) /\ Len(icons) \in Nat /\ Len(icons') = Len(icons) + 1
        /\ icons' \in Seq(IconIds)
        /\ \A n \in 1..Len(icons) : icons'[n] = icons[n]
        /\ icons'[Len(icons')] = i
    BY DEF IconTypeOK
  <1>2. Listed' = Listed \union {i}
    BY <1>1 DEF Listed
  <1>3. ASSUME NoDuplicates, i \notin Listed,
               NEW m \in 1..Len(icons'), NEW n \in 1..Len(icons'), icons'[m] = icons'[n]
        PROVE  m = n
    BY <1>1, <1>3 DEF Listed, NoDuplicates
  <1> QED
    BY <1>1, <1>2, <1>3 DEF NoDuplicates

\* DeleteIcon's append(icons[:index], icons[index+1:]...).
LEMMA WithoutListed ==
  ASSUME IconTypeOK, NoDuplicates, NEW n \in 1..Len(icons), icons' = Without(n)
  PROVE  /\ icons' \in Seq(IconIds) /\ Listed' = Listed \ {icons[n]}
         /\ NoDuplicates' /\ icons[n] \in IconIds /\ icons[n] \in Listed
         /\ icons' # <<>> => icons'[1] \in Listed'
         /\ icons' = <<>> => Listed' = {}
  <1>1. /\ icons \in Seq(IconIds) /\ Len(icons) \in Nat /\ Len(icons) - 1 \in Nat
        /\ \A m \in 1..Len(icons) : icons[m] \in IconIds
    BY DEF IconTypeOK
  <1>2. \A m \in 1..(Len(icons) - 1) :
          /\ icons'[m] = IF m < n THEN icons[m] ELSE icons[m + 1]
          /\ m \in 1..Len(icons) /\ m + 1 \in 1..Len(icons)
    BY <1>1 DEF Without
  <1>3. icons' \in [1..(Len(icons) - 1) -> IconIds]
    BY <1>1, <1>2 DEF Without
  <1>4. icons' \in Seq(IconIds) /\ Len(icons') = Len(icons) - 1
    BY <1>1, <1>3
  <1>5. Listed' \subseteq Listed \ {icons[n]}
    <2> SUFFICES ASSUME NEW m \in 1..Len(icons') PROVE icons'[m] \in Listed /\ icons'[m] # icons[n]
      BY DEF Listed
    <2> QED
      BY <1>1, <1>2, <1>4 DEF Listed, NoDuplicates
  <1>6. Listed \ {icons[n]} \subseteq Listed'
    <2> SUFFICES ASSUME NEW m \in 1..Len(icons), icons[m] # icons[n]
                 PROVE  \E k \in 1..Len(icons') : icons'[k] = icons[m]
      BY DEF Listed
    <2>1. CASE m < n
      <3>1. m \in 1..Len(icons') /\ icons'[m] = icons[m]
        BY <2>1, <1>1, <1>2, <1>4
      <3> QED
        BY <3>1
    <2>2. CASE ~(m < n)
      <3>1. m - 1 \in 1..Len(icons') /\ ~(m - 1 < n) /\ m - 1 + 1 = m
        BY <2>2, <1>1, <1>4
      <3>2. icons'[m - 1] = icons[m]
        BY <3>1, <1>2, <1>4
      <3> QED
        BY <3>1, <3>2
    <2> QED
      BY <2>1, <2>2
  <1>7. NoDuplicates'
    <2> SUFFICES ASSUME NEW m \in 1..Len(icons'), NEW k \in 1..Len(icons'), icons'[m] = icons'[k]
                 PROVE  m = k
      BY DEF NoDuplicates
    <2>1. CASE m < n /\ k < n
      BY <2>1, <1>2, <1>4 DEF NoDuplicates
    <2>2. CASE m < n /\ ~(k < n)
      <3>1. m = k + 1
        BY <2>2, <1>2, <1>4 DEF NoDuplicates
      <3> QED
        BY <3>1, <2>2, <1>1, <1>4
    <2>3. CASE ~(m < n) /\ k < n
      <3>1. m + 1 = k
        BY <2>3, <1>2, <1>4 DEF NoDuplicates
      <3> QED
        BY <3>1, <2>3, <1>1, <1>4
    <2>4. CASE ~(m < n) /\ ~(k < n)
      <3>1. m + 1 = k + 1
        BY <2>4, <1>2, <1>4 DEF NoDuplicates
      <3> QED
        BY <3>1, <1>1, <1>4
    <2> QED
      BY <2>1, <2>2, <2>3, <2>4
  <1>8. icons' # <<>> => icons'[1] \in Listed'
    BY <1>4 DEF Listed
  <1>9. icons' = <<>> => Listed' = {}
    BY DEF Listed
  <1> QED
    BY <1>1, <1>4, <1>5, <1>6, <1>7, <1>8, <1>9 DEF Listed

LEMMA EmptyListed == ASSUME IconTypeOK, Listed # {} PROVE icons # <<>>
  BY DEF IconTypeOK, Listed

-----------------------------------------------------------------------------
LEMMA IconInitInv == IconInit => IconInv
  BY IconAssumption DEF IconInit, IconInv, IconTypeOK, NoDuplicates, KnownIds, InsideMutex,
     OneActive, ListedHasFile, NoOrphanIcon, Listed, NoJob

\* Steps that leave icons.json, the directory and the mutex alone.
LEMMA JobOnlyInv ==
  ASSUME IconInv, NEW a \in Admins, job[a].pc \notin {"list", "remove"},
         NEW pc \in {"idle", "activate", "answer", "stat"}, NEW i \in IconIds \union {None},
         job' = [job EXCEPT ![a] = [pc |-> pc, id |-> i]],
         UNCHANGED <<icons, iconFiles, named, mutex, lost>>,
         active' \subseteq Listed, OneActive'
  PROVE  IconInv'
  <1>1. Listed' = Listed
    BY DEF Listed
  <1>2. /\ job'[a].pc = pc /\ \A b \in Admins \ {a} : job'[b] = job[b]
        /\ job' \in [Admins -> [pc : {"idle", "list", "activate", "answer", "remove", "stat"},
                                id : IconIds \union {None}]]
    BY DEF IconInv, IconTypeOK
  <1>3. IconTypeOK'
    BY <1>1, <1>2 DEF IconInv, IconTypeOK, Listed
  <1>4. InsideMutex'
    BY <1>1, <1>2 DEF IconInv, InsideMutex
  <1>5. NoOrphanIcon'
    BY <1>1, <1>2 DEF IconInv, NoOrphanIcon
  <1> QED
    BY <1>1, <1>3, <1>4, <1>5 DEF IconInv, NoDuplicates, KnownIds, ListedHasFile

LEMMA UnlinkInv ==
  ASSUME IconInv, NEW a \in Admins, job[a].pc \in {"list", "remove"},
         Unlink(job[a].id), mutex' = None, Done(a), UNCHANGED <<icons, active, named>>
  PROVE  IconInv'
  <1> DEFINE i == job[a].id
  <1>1. mutex = a /\ i \in IconIds \ Listed
    BY DEF IconInv, InsideMutex
  <1>2. Listed' = Listed /\ OneActive'
    BY DEF IconInv, Listed, OneActive
  <1>3. /\ job'[a] = NoJob /\ \A b \in Admins \ {a} : job'[b] = job[b]
        /\ job' \in [Admins -> [pc : {"idle", "list", "activate", "answer", "remove", "stat"},
                                id : IconIds \union {None}]]
    BY DEF IconInv, IconTypeOK, Done, NoJob
  <1>4. /\ iconFiles' \subseteq iconFiles /\ iconFiles \ {i} \subseteq iconFiles'
        /\ lost \subseteq lost' /\ (i \in iconFiles' => i \in lost')
        /\ lost' \subseteq lost \union {i}
    BY DEF Unlink
  <1>5. IconTypeOK'
    BY <1>1, <1>3, <1>4 DEF IconInv, IconTypeOK
  <1>6. InsideMutex'
    BY <1>1, <1>2, <1>3 DEF IconInv, InsideMutex, NoJob
  <1>7. NoOrphanIcon'
    BY <1>1, <1>2, <1>3, <1>4 DEF IconInv, NoOrphanIcon
  <1> QED
    BY <1>1, <1>2, <1>4, <1>5, <1>6, <1>7 DEF IconInv, NoDuplicates, KnownIds, ListedHasFile

LEMMA IconNextInv == IconInv /\ [IconNext]_iconVars => IconInv'
  <1> SUFFICES ASSUME IconInv, [IconNext]_iconVars PROVE IconInv'
    OBVIOUS
  <1> USE DEF IconInv
  <1> DEFINE Jobs == [pc : {"idle", "list", "activate", "answer", "remove", "stat"},
                      id : IconIds \union {None}]
  <1>1. ASSUME NEW a \in Admins, NEW i \in IconIds, SaveIcon(a, i) PROVE IconInv'
    <2>1. Listed' = Listed /\ OneActive' /\ i \notin iconFiles /\ i \notin Listed
      BY <1>1 DEF SaveIcon, Listed, OneActive, KnownIds, ListedHasFile
    <2>2. /\ job'[a] = [pc |-> "list", id |-> i] /\ \A b \in Admins \ {a} : job'[b] = job[b]
          /\ job' \in [Admins -> Jobs] /\ mutex = None /\ mutex' = a
      BY <1>1 DEF SaveIcon, Doing, IconTypeOK
    <2>3. IconTypeOK'
      BY <1>1, <2>2 DEF SaveIcon, IconTypeOK
    <2>4. InsideMutex'
      BY <1>1, <2>1, <2>2, IconAssumption DEF SaveIcon, InsideMutex
    <2>5. NoOrphanIcon'
      BY <1>1, <2>1, <2>2, IconAssumption DEF SaveIcon, NoOrphanIcon
    <2> QED
      BY <1>1, <2>1, <2>3, <2>4, <2>5 DEF SaveIcon, NoDuplicates, KnownIds, ListedHasFile
  <1>2. ASSUME NEW a \in Admins, NEW i \in IconIds, WriteIconFails(a, i) PROVE IconInv'
    <2>1. Listed' = Listed /\ OneActive'
      BY <1>2 DEF WriteIconFails, Listed, OneActive
    <2>2. IconTypeOK' /\ InsideMutex'
      BY <1>2, <2>1 DEF WriteIconFails, IconTypeOK, InsideMutex
    <2>3. NoOrphanIcon'
      BY <1>2, <2>1 DEF WriteIconFails, NoOrphanIcon
    <2> QED
      BY <1>2, <2>1, <2>2, <2>3 DEF WriteIconFails, NoDuplicates, KnownIds, ListedHasFile
  <1>3. ASSUME NEW a \in Admins, ListIcon(a) PROVE IconInv'
    <2> DEFINE i == job[a].id
    <2>1. mutex = a /\ i \in IconIds \ Listed /\ i \in iconFiles
      BY <1>3 DEF ListIcon, InsideMutex
    <2>2. icons' = Append(icons, i)
      BY <1>3 DEF ListIcon
    <2>3. icons' \in Seq(IconIds) /\ icons' # <<>> /\ Listed' = Listed \union {i} /\ NoDuplicates'
      BY <2>1, <2>2, AppendListed
    <2>4. /\ job'[a] = [pc |-> "activate", id |-> i] /\ \A b \in Admins \ {a} : job'[b] = job[b]
          /\ job' \in [Admins -> Jobs] /\ mutex' = None
      BY <1>3, <2>1 DEF ListIcon, Doing, IconTypeOK
    <2>5. OneActive' /\ active' \subseteq Listed'
      <3>1. CASE icons = <<>>
        BY <1>3, <3>1, <2>3 DEF ListIcon, OneActive
      <3>2. CASE icons # <<>>
        BY <1>3, <3>2, <2>3 DEF ListIcon, OneActive, KnownIds
      <3> QED
        BY <3>1, <3>2
    <2>6. IconTypeOK'
      BY <1>3, <2>1, <2>3, <2>4, <2>5 DEF ListIcon, IconTypeOK
    <2>7. InsideMutex'
      BY <1>3, <2>1, <2>3, <2>4 DEF ListIcon, InsideMutex
    <2>8. NoOrphanIcon'
      BY <1>3, <2>1, <2>3, <2>4 DEF ListIcon, NoOrphanIcon
    <2> QED
      BY <1>3, <2>1, <2>3, <2>5, <2>6, <2>7, <2>8 DEF ListIcon, KnownIds, ListedHasFile
  <1>4. ASSUME NEW a \in Admins, ListIconFails(a) \/ RemoveIconFile(a) PROVE IconInv'
    BY <1>4, UnlinkInv DEF ListIconFails, RemoveIconFile
  <1>5. ASSUME NEW i \in IconIds \union {None}, SetActiveIcon(i), UNCHANGED icons
        PROVE  OneActive' /\ active' \subseteq Listed
    BY <1>5 DEF SetActiveIcon, OneActive, Listed, KnownIds
  <1>6. ASSUME NEW a \in Admins,
               Activate(a) \/ ActivateFails(a) \/ AnswerSelection(a) \/ StatIcon(a)
        PROVE  IconInv'
    <2>1. /\ job[a].pc \notin {"list", "remove"} /\ job[a].id \in IconIds \union {None}
          /\ job' = [job EXCEPT ![a] = [pc |-> "idle", id |-> None]]
          /\ UNCHANGED <<icons, iconFiles, named, mutex, lost>>
      BY <1>6 DEF Activate, ActivateFails, AnswerSelection, StatIcon, Done, NoJob, IconTypeOK
    <2>2. OneActive' /\ active' \subseteq Listed
      <3>1. CASE Activate(a)
        BY <3>1, <2>1, <1>5 DEF Activate
      <3>2. CASE ~Activate(a)
        BY <1>6, <3>2 DEF ActivateFails, AnswerSelection, StatIcon, OneActive, KnownIds, Listed
      <3> QED
        BY <3>1, <3>2
    <2> QED
      BY <2>1, <2>2, JobOnlyInv
  <1>7. ASSUME NEW a \in Admins, NEW i \in IconIds, SelectIcon(a, i) \/ ServeIcon(a, i)
        PROVE  IconInv'
    <2>1. /\ job[a] = NoJob /\ UNCHANGED <<icons, iconFiles, named, mutex, lost>>
          /\ job[a].pc \notin {"list", "remove"}
      BY <1>7 DEF SelectIcon, ServeIcon, NoJob
    <2>2. \E pc \in {"idle", "answer", "stat"}, c \in IconIds \union {None} :
            job' = [job EXCEPT ![a] = [pc |-> pc, id |-> c]]
      <3>1. CASE job' = job
        <4>1. job' = [job EXCEPT ![a] = [pc |-> "idle", id |-> None]]
          BY <2>1, <3>1 DEF NoJob, IconTypeOK
        <4> QED
          BY <4>1
      <3>2. CASE job' # job
        BY <1>7, <3>2 DEF SelectIcon, ServeIcon, Doing
      <3> QED
        BY <3>1, <3>2
    <2>3. OneActive' /\ active' \subseteq Listed
      <3>1. CASE SelectIcon(a, i)
        BY <3>1, <2>1, <1>5 DEF SelectIcon
      <3>2. CASE ServeIcon(a, i)
        BY <3>2 DEF ServeIcon, OneActive, KnownIds, Listed
      <3> QED
        BY <1>7, <3>1, <3>2
    <2> QED
      BY <2>1, <2>2, <2>3, JobOnlyInv
  <1>8. ASSUME NEW a \in Admins, NEW n \in 1..Len(icons), DeleteIcon(a, n) PROVE IconInv'
    <2> DEFINE i == icons[n]
    <2>1. /\ icons' \in Seq(IconIds) /\ Listed' = Listed \ {i} /\ NoDuplicates'
          /\ i \in IconIds /\ i \in Listed
          /\ (icons' # <<>> => icons'[1] \in Listed') /\ (icons' = <<>> => Listed' = {})
      BY <1>8, WithoutListed DEF DeleteIcon
    <2>2. /\ job'[a] = [pc |-> "remove", id |-> i] /\ \A b \in Admins \ {a} : job'[b] = job[b]
          /\ job' \in [Admins -> Jobs] /\ mutex = None /\ mutex' = a
      BY <1>8, <2>1 DEF DeleteIcon, Doing, IconTypeOK
    <2>3. PICK c \in Listed : active = {c}
      BY <2>1, EmptyListed DEF OneActive
    <2>4. OneActive' /\ active' \subseteq Listed'
      <3>1. CASE i = c
        BY <1>8, <3>1, <2>1, <2>3 DEF DeleteIcon, OneActive
      <3>2. CASE i # c
        BY <1>8, <3>2, <2>1, <2>3 DEF DeleteIcon, OneActive
      <3> QED
        BY <3>1, <3>2
    <2>5. IconTypeOK'
      <3>1. Listed' \subseteq IconIds
        BY <2>1 DEF Listed, IconTypeOK
      <3> QED
        BY <1>8, <2>1, <2>2, <2>4, <3>1 DEF DeleteIcon, IconTypeOK
    <2>6. InsideMutex'
      BY <1>8, <2>1, <2>2, IconAssumption DEF DeleteIcon, InsideMutex
    <2>7. NoOrphanIcon'
      BY <1>8, <2>1, <2>2, IconAssumption DEF DeleteIcon, NoOrphanIcon
    <2> QED
      BY <1>8, <2>1, <2>4, <2>5, <2>6, <2>7 DEF DeleteIcon, KnownIds, ListedHasFile
  <1>9. CASE IconCrash
    <2>1. Listed' = Listed /\ OneActive'
      BY <1>9 DEF IconCrash, Listed, OneActive
    <2>2. job' = [a \in Admins |-> NoJob] /\ mutex' = None
      BY <1>9 DEF IconCrash
    <2>3. \A a \in Admins : job[a].pc \in {"list", "remove"} => job[a].id \in IconIds /\ job[a].id \in lost'
      BY <1>9 DEF IconCrash, InsideMutex
    <2>4. lost' \subseteq IconIds /\ lost \subseteq lost'
      BY <1>9 DEF IconCrash, InsideMutex, IconTypeOK
    <2>5. IconTypeOK'
      BY <1>9, <2>2, <2>4 DEF IconCrash, IconTypeOK, NoJob
    <2>6. InsideMutex'
      BY <2>2 DEF InsideMutex, NoJob
    <2>7. NoOrphanIcon'
      BY <1>9, <2>1, <2>3, <2>4 DEF IconCrash, NoOrphanIcon
    <2> QED
      BY <1>9, <2>1, <2>5, <2>6, <2>7 DEF IconCrash, NoDuplicates, KnownIds, ListedHasFile
  <1>10. CASE UNCHANGED iconVars
    <2>1. Listed' = Listed
      BY <1>10 DEF iconVars, Listed
    <2>2. IconTypeOK' /\ NoDuplicates' /\ KnownIds' /\ InsideMutex'
      BY <1>10, <2>1 DEF iconVars, IconTypeOK, NoDuplicates, KnownIds, InsideMutex
    <2>3. OneActive' /\ ListedHasFile' /\ NoOrphanIcon'
      BY <1>10, <2>1 DEF iconVars, OneActive, ListedHasFile, NoOrphanIcon
    <2> QED
      BY <2>2, <2>3
  <1>11. ASSUME NEW a \in Admins, HandleIcon(a) PROVE IconInv'
    <2>1. CASE \E i \in IconIds :
                 SaveIcon(a, i) \/ WriteIconFails(a, i) \/ SelectIcon(a, i) \/ ServeIcon(a, i)
      BY <2>1, <1>1, <1>2, <1>7
    <2>2. CASE \E n \in 1..Len(icons) : DeleteIcon(a, n)
      BY <2>2, <1>8
    <2> QED
      BY <1>11, <2>1, <2>2, <1>3, <1>4, <1>6 DEF HandleIcon
  <1> QED
    BY <1>9, <1>10, <1>11 DEF IconNext

-----------------------------------------------------------------------------
LEMMA IconInvAlways == IconSpec => []IconInv
  BY IconInitInv, IconNextInv, PTL DEF IconSpec

\* The type invariant of the icon store, for any number of icons and requests.
THEOREM IconTypeCorrect == IconSpec => []IconTypeOK
  <1>1. IconInv => IconTypeOK
    BY DEF IconInv
  <1> QED
    BY <1>1, IconInvAlways, PTL

\* SaveIcon, SetActiveIcon and DeleteIcon keep exactly one icon active, although
\* an upload saves and activates its icon in two operations.
THEOREM OneIconActive == IconSpec => []OneActive
  <1>1. IconInv => OneActive
    BY DEF IconInv
  <1> QED
    BY <1>1, IconInvAlways, PTL

\* SaveIcon writes the file before icons.json and DeleteIcon removes it after, so
\* that a listed icon has its file at every moment.
THEOREM ListedIconHasFile == IconSpec => []ListedHasFile
  <1>1. IconInv => ListedHasFile
    BY DEF IconInv
  <1> QED
    BY <1>1, IconInvAlways, PTL

\* A file that is not listed is in the hands of a request inside the mutex or was
\* left by a crash or a failure.
THEOREM NoIconOrphaned == IconSpec => []NoOrphanIcon
  <1>1. IconInv => NoOrphanIcon
    BY DEF IconInv
  <1> QED
    BY <1>1, IconInvAlways, PTL

\* ActiveIcon returns the icon that is active.
ShownIcon ==
  /\ \A c \in Listed : active = {c} => ActiveIcon = c
  /\ Listed = {} => ActiveIcon = None
  /\ Listed # {} => \E c \in Listed : active = {c}

LEMMA ActiveIconIs == IconInv => ShownIcon
  <1> SUFFICES ASSUME IconInv PROVE ShownIcon
    OBVIOUS
  <1> DEFINE flagged == {n \in 1..Len(icons) : icons[n] \in active}
  <1>1. ASSUME NEW c \in Listed, active = {c} PROVE ActiveIcon = c
    <2>1. PICK n \in 1..Len(icons) : icons[n] = c
      BY DEF Listed
    <2>2. flagged = {n}
      BY <1>1, <2>1 DEF IconInv, NoDuplicates
    <2>3. n <= n
      BY DEF IconInv, IconTypeOK
    <2>4. (CHOOSE k \in flagged : \A m \in flagged : k <= m) = n
      BY <2>2, <2>3
    <2> QED
      BY <2>1, <2>2, <2>4 DEF ActiveIcon
  <1>2. ASSUME Listed = {} PROVE ActiveIcon = None
    <2>1. flagged = {}
      BY <1>2 DEF IconInv, KnownIds
    <2> QED
      BY <2>1 DEF ActiveIcon
  <1>3. ASSUME Listed # {} PROVE \E c \in Listed : active = {c}
    BY <1>3, EmptyListed DEF IconInv, OneActive
  <1> QED
    BY <1>1, <1>2, <1>3 DEF ShownIcon

\* Every step of the icon store is a step of Branding or leaves the icons and the
\* shown one alone.
THEOREM ImplementsBranding == IconSpec => ShowsChosenIcon
  <1>1. IconInit => Brand!Init
    <2> SUFFICES ASSUME IconInit PROVE Brand!Init
      OBVIOUS
    <2>1. Listed = {}
      BY DEF IconInit, Listed
    <2> QED
      BY <2>1, IconInitInv, ActiveIconIs DEF Brand!Init, ShownIcon
  <1>2. IconInv /\ IconInv' /\ [IconNext]_iconVars => [Brand!Next]_Brand!vars
    <2> SUFFICES ASSUME IconInv, IconInv', [IconNext]_iconVars PROVE [Brand!Next]_Brand!vars
      OBVIOUS
    <2>0. ShownIcon /\ ShownIcon'
      BY ActiveIconIs, PTL
    <2>s. ASSUME UNCHANGED <<icons, active>> PROVE UNCHANGED Brand!vars
      BY <2>s DEF Brand!vars, Listed, ActiveIcon
    <2>1. ASSUME NEW a \in Admins, ListIcon(a) PROVE Brand!Next
      <3> DEFINE i == job[a].id
      <3>1. i \in IconIds /\ i \notin Listed /\ icons' = Append(icons, i)
        BY <2>1 DEF ListIcon, IconInv, InsideMutex
      <3>2. Listed' = Listed \union {i}
        BY <3>1, AppendListed DEF IconInv
      <3>3. ActiveIcon' = IF Listed = {} THEN i ELSE ActiveIcon
        <4>1. CASE icons = <<>>
          BY <4>1, <2>1, <2>0, <3>2 DEF ListIcon, Listed, ShownIcon
        <4>2. CASE icons # <<>>
          <5>1. PICK c \in Listed : active = {c}
            BY <4>2 DEF IconInv, OneActive
          <5> QED
            BY <5>1, <4>2, <2>1, <2>0, <3>2 DEF ListIcon, ShownIcon
        <4> QED
          BY <4>1, <4>2
      <3> QED
        BY <3>1, <3>2, <3>3 DEF Brand!Next, Brand!Add
    <2>2. ASSUME NEW i \in IconIds \union {None}, SetActiveIcon(i), UNCHANGED icons
          PROVE  [Brand!Next]_Brand!vars
      <3>1. CASE i \in Listed
        <4>1. Listed' = Listed /\ active' = {i} /\ i \in IconIds
          BY <2>2, <3>1 DEF SetActiveIcon, Listed, IconInv, IconTypeOK
        <4>2. ActiveIcon' = i
          BY <4>1, <3>1, <2>0 DEF ShownIcon
        <4> QED
          BY <4>1, <4>2, <3>1 DEF Brand!Next, Brand!Choose
      <3>2. CASE i \notin Listed
        BY <2>2, <3>2, <2>s DEF SetActiveIcon
      <3> QED
        BY <3>1, <3>2
    <2>3. ASSUME NEW a \in Admins, NEW n \in 1..Len(icons), DeleteIcon(a, n) PROVE Brand!Next
      <3> DEFINE i == icons[n]
      <3>1. /\ Listed' = Listed \ {i} /\ i \in IconIds /\ i \in Listed
            /\ (icons' # <<>> => icons'[1] \in Listed') /\ (icons' = <<>> => Listed' = {})
        BY <2>3, WithoutListed DEF DeleteIcon, IconInv
      <3>2. PICK c \in Listed : active = {c}
        BY <3>1, <2>0 DEF ShownIcon
      <3>3. ActiveIcon = c
        BY <3>2, <2>0 DEF ShownIcon
      <3>4. ActiveIcon' \in IF i # ActiveIcon THEN {ActiveIcon}
                           ELSE IF Listed = {i} THEN {None} ELSE Listed \ {i}
        <4>1. CASE i # c
          <5>1. active' = {c} /\ c \in Listed'
            BY <4>1, <2>3, <3>1, <3>2 DEF DeleteIcon
          <5> QED
            BY <5>1, <4>1, <3>3, <2>0 DEF ShownIcon
        <4>2. CASE i = c /\ icons' = <<>>
          BY <4>2, <3>1, <3>3, <2>0 DEF ShownIcon
        <4>3. CASE i = c /\ icons' # <<>>
          <5>1. active' = {icons'[1]} /\ icons'[1] \in Listed'
            BY <4>3, <2>3, <3>1, <3>2 DEF DeleteIcon
          <5>2. ActiveIcon' \in Listed'
            BY <5>1, <2>0 DEF ShownIcon
          <5> QED
            BY <5>2, <4>3, <3>1, <3>3
        <4> QED
          BY <4>1, <4>2, <4>3
      <3> QED
        BY <3>1, <3>4 DEF Brand!Next, Brand!Drop
    <2>4. ASSUME NEW a \in Admins, HandleIcon(a) PROVE [Brand!Next]_Brand!vars
      <3>1. CASE \E i \in IconIds : SelectIcon(a, i)
        BY <3>1, <2>2 DEF SelectIcon
      <3>2. CASE Activate(a)
        <4>1. job[a].id \in IconIds \union {None}
          BY DEF IconInv, IconTypeOK
        <4> QED
          BY <3>2, <4>1, <2>2 DEF Activate
      <3>3. CASE \E n \in 1..Len(icons) : DeleteIcon(a, n)
        BY <3>3, <2>3
      <3>4. CASE ListIcon(a)
        BY <3>4, <2>1
      <3>5. CASE \/ \E i \in IconIds : SaveIcon(a, i) \/ WriteIconFails(a, i) \/ ServeIcon(a, i)
                 \/ ListIconFails(a) \/ AnswerSelection(a) \/ RemoveIconFile(a)
                 \/ StatIcon(a) \/ ActivateFails(a)
        BY <3>5, <2>s DEF SaveIcon, WriteIconFails, ServeIcon, ListIconFails, AnswerSelection,
           RemoveIconFile, StatIcon, ActivateFails
      <3> QED
        BY <2>4, <3>1, <3>2, <3>3, <3>4, <3>5 DEF HandleIcon
    <2>5. CASE IconCrash \/ UNCHANGED iconVars
      BY <2>5, <2>s DEF IconCrash, iconVars
    <2> QED
      BY <2>4, <2>5 DEF IconNext
  <1> QED
    BY <1>1, <1>2, IconInvAlways, PTL DEF IconSpec, ShowsChosenIcon, Brand!Spec

\* Behind the admin API each store takes its own steps or rests, and a crash of
\* the server is one of each: what is proved of a store alone holds of both.
THEOREM DashboardImplementsStores == DashboardSpec => Spec /\ IconSpec
  <1>1. DashboardInit => Init /\ IconInit
    BY DEF DashboardInit
  <1>2. [DashboardNext]_<<vars, iconVars>> => [Next]_vars
    BY DEF DashboardNext, ContentRequest, IconRequest, ServerCrash, Next
  <1>3. [DashboardNext]_<<vars, iconVars>> => [IconNext]_iconVars
    BY DEF DashboardNext, ContentRequest, IconRequest, ServerCrash, IconNext
  <1> QED
    BY <1>1, <1>2, <1>3, PTL DEF DashboardSpec, Spec, IconSpec

=============================================================================
