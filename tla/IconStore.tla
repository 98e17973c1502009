------------------------------ MODULE IconStore ------------------------------
(***************************************************************************)
(* The app icons of the dashboard: icons.json with the directory of icon    *)
(* files (dashboard/icon_store.go), and the requests that upload, select,   *)
(* delete and show icons (web/admin_icon_handlers.go).                      *)
(*                                                                          *)
(* Every operation of the store holds its mutex.  Between the two files an  *)
(* operation changes, though, the process may die, and pages look at the    *)
(* icon files without the mutex, so these operations have two steps.        *)
(* icons.json itself is replaced by a rename.                               *)
(***************************************************************************)
EXTENDS AdminApi, Integers, FiniteSets, Sequences

CONSTANTS
  IconIds,     \* ids that newIconID may return
  MaxIcons     \* quota of icon files, 0 for none

ASSUME IconAssumption ==
  /\ IsFiniteSet(IconIds) /\ None \notin IconIds /\ None \notin Admins
  /\ MaxIcons \in Nat

VARIABLES
  icons,       \* icons.json: the ids in order
  active,      \* icons.json: the ids whose Active flag is set
  iconFiles,   \* the ids whose file is in the icon directory
  named,       \* the random ids handed out so far
  mutex,       \* the request inside the store, or None
  job,         \* what each request is doing
  lost         \* history: files that a crash or a failed write or removal left

iconVars == <<icons, active, iconFiles, named, mutex, job, lost>>

NoJob == [pc |-> "idle", id |-> None]

\* icons.json, the directory and the requests keep the type of their declaration.
IconTypeOK ==
  /\ icons \in Seq(IconIds)
  /\ active \subseteq IconIds /\ iconFiles \subseteq IconIds
  /\ named \subseteq IconIds /\ lost \subseteq IconIds
  /\ mutex \in Admins \union {None}
  /\ job \in [Admins -> [pc : {"idle", "list", "activate", "answer", "remove", "stat"},
                         id : IconIds \union {None}]]

IconInit ==
  /\ icons = <<>> /\ active = {} /\ iconFiles = {} /\ named = {} /\ lost = {}
  /\ mutex = None /\ job = [a \in Admins |-> NoJob]

Listed == {icons[n] : n \in 1..Len(icons)}

Doing(a, pc, i) == job' = [job EXCEPT ![a] = [pc |-> pc, id |-> i]]

Done(a) == job' = [job EXCEPT ![a] = NoJob]

-----------------------------------------------------------------------------
(* SaveIcon                                                                 *)

\* enforceFileQuota on the icon directory, by number of files.  The limit in bytes is
\* left out: it refuses more uploads, and a refusal changes nothing.
IconFits == MaxIcons > 0 => Cardinality(iconFiles) < MaxIcons

\* Mutant: the error of newIconID is ignored and the icon has an empty id.
SaveIconNameless(a, i) ==
  /\ job[a] = NoJob /\ mutex = None /\ i \notin named /\ IconFits
  /\ named' = named \union {i} /\ iconFiles' = iconFiles \union {None}
  /\ mutex' = a /\ Doing(a, "list", None)
  /\ UNCHANGED <<icons, active, lost>>

\* A file with a name and content that validate is written under a new id.
SaveIcon(a, i) ==
  /\ job[a] = NoJob /\ mutex = None /\ i \notin named /\ IconFits
  /\ named' = named \union {i} /\ iconFiles' = iconFiles \union {i}
  /\ mutex' = a /\ Doing(a, "list", i)
  /\ UNCHANGED <<icons, active, lost>>

\* os.WriteFile fails half way: what it wrote stays.
WriteIconFails(a, i) ==
  /\ job[a] = NoJob /\ mutex = None /\ i \notin named /\ IconFits
  /\ named' = named \union {i} /\ iconFiles' = iconFiles \union {i}
  /\ lost' = lost \union {i}
  /\ UNCHANGED <<icons, active, mutex, job>>

\* The first icon is active at once; the handler then activates any other.
ListIcon(a) ==
  /\ job[a].pc = "list"
  /\ icons' = Append(icons, job[a].id)
  /\ active' = IF icons = <<>> THEN {job[a].id} ELSE active
  /\ mutex' = None /\ Doing(a, "activate", job[a].id)
  /\ UNCHANGED <<iconFiles, named, lost>>

\* removeUploadFile and os.Remove, whose errors are ignored.
Unlink(i) ==
  \/ iconFiles' = iconFiles \ {i} /\ UNCHANGED lost
  \/ i \in iconFiles /\ lost' = lost \union {i} /\ UNCHANGED iconFiles

\* Mutant: icons.json was replaced after all when the file is removed.
ListIconFailsLate(a) ==
  /\ job[a].pc = "list"
  /\ icons' = Append(icons, job[a].id)
  /\ active' = IF icons = <<>> THEN {job[a].id} ELSE active
  /\ Unlink(job[a].id)
  /\ mutex' = None /\ Done(a)
  /\ UNCHANGED named

\* Mutant: the file stays when icons.json cannot be written.
ListIconFailsKeepsFile(a) ==
  /\ job[a].pc = "list"
  /\ mutex' = None /\ Done(a)
  /\ UNCHANGED <<icons, active, iconFiles, named, lost>>

ListIconFails(a) ==
  /\ job[a].pc = "list"
  /\ Unlink(job[a].id)
  /\ mutex' = None /\ Done(a)
  /\ UNCHANGED <<icons, active, named>>

-----------------------------------------------------------------------------
(* SetActiveIcon, for an upload and for a selection                         *)

\* Mutant: the flags are written although the icon was not found.
SetActiveUnchecked(i) ==
  /\ mutex = None
  /\ active' = {i} \intersect Listed

\* An icon that is gone is a 404 and nothing is written.
SetActiveIcon(i) ==
  /\ mutex = None
  /\ active' = IF i \in Listed THEN {i} ELSE active

Activate(a) ==
  /\ job[a].pc = "activate" /\ SetActiveIcon(job[a].id)
  /\ Done(a)
  /\ UNCHANGED <<icons, iconFiles, named, mutex, lost>>

\* icons.json cannot be read or written: an upload stays listed, but inactive.
ActivateFails(a) ==
  /\ job[a].pc = "activate" /\ mutex = None
  /\ Done(a)
  /\ UNCHANGED <<icons, active, iconFiles, named, mutex, lost>>

\* The answer is what ActiveIcon then returns.
SelectIcon(a, i) ==
  /\ job[a] = NoJob /\ SetActiveIcon(i)
  /\ IF i \in Listed THEN Doing(a, "answer", i) ELSE UNCHANGED job
  /\ UNCHANGED <<icons, iconFiles, named, mutex, lost>>

AnswerSelection(a) ==
  /\ job[a].pc = "answer" /\ mutex = None
  /\ Done(a)
  /\ UNCHANGED <<icons, active, iconFiles, named, mutex, lost>>

-----------------------------------------------------------------------------
(* DeleteIcon                                                               *)

Without(n) ==
  [m \in 1..(Len(icons) - 1) |-> IF m < n THEN icons[m] ELSE icons[m + 1]]

\* Mutant: no other icon takes over when the active one is deleted.
DeleteForgetsActive(a, n) ==
  /\ job[a] = NoJob /\ mutex = None
  /\ icons' = Without(n) /\ active' = active \ {icons[n]}
  /\ mutex' = a /\ Doing(a, "remove", icons[n])
  /\ UNCHANGED <<iconFiles, named, lost>>

\* The icon at place n; the first of the others takes over from an active one.
DeleteIcon(a, n) ==
  /\ job[a] = NoJob /\ mutex = None
  /\ icons' = Without(n)
  /\ active' = (active \ {icons[n]}) \union
       (IF icons[n] \in active /\ icons' # <<>> THEN {icons'[1]} ELSE {})
  /\ mutex' = a /\ Doing(a, "remove", icons[n])
  /\ UNCHANGED <<iconFiles, named, lost>>

\* icons.json no longer lists the icon, whose file goes last.
RemoveIconFile(a) ==
  /\ job[a].pc = "remove"
  /\ Unlink(job[a].id)
  /\ mutex' = None /\ Done(a)
  /\ UNCHANGED <<icons, active, named>>

-----------------------------------------------------------------------------
(* ServeAppIcon and ServeUploadedIcon: the store, then the file             *)

ServeIcon(a, i) ==
  /\ job[a] = NoJob /\ mutex = None /\ i \in Listed
  /\ Doing(a, "stat", i)
  /\ UNCHANGED <<icons, active, iconFiles, named, mutex, lost>>

\* A file that is gone is replaced by the built-in icon.
StatIcon(a) ==
  /\ job[a].pc = "stat"
  /\ Done(a)
  /\ UNCHANGED <<icons, active, iconFiles, named, mutex, lost>>

IconCrash ==
  /\ job' = [a \in Admins |-> NoJob] /\ mutex' = None
  /\ lost' = lost \union
       {job[a].id : a \in {b \in Admins : job[b].pc \in {"list", "remove"}}}
  /\ UNCHANGED <<icons, active, iconFiles, named>>

-----------------------------------------------------------------------------
HandleIcon(a) ==
  \/ \E i \in IconIds :
        SaveIcon(a, i) \/ WriteIconFails(a, i) \/ SelectIcon(a, i) \/ ServeIcon(a, i)
  \/ ListIcon(a) \/ ListIconFails(a) \/ Activate(a) \/ AnswerSelection(a)
  \/ \E n \in 1..Len(icons) : DeleteIcon(a, n)
  \/ RemoveIconFile(a) \/ StatIcon(a) \/ ActivateFails(a)

IconNext == (\E a \in Admins : HandleIcon(a)) \/ IconCrash

IconSpec == IconInit /\ [][IconNext]_iconVars

-----------------------------------------------------------------------------
(* Properties                                                               *)

\* Whenever there are icons, exactly one of them is active, whatever uploads,
\* selections, deletions, failures and crashes interleave: between SaveIcon and
\* the handler's SetActiveIcon any of the other requests may run.
OneActive == icons # <<>> => \E i \in Listed : active = {i}

\* Every icon in icons.json has its file, even for a page that looks without the
\* mutex while an upload or a deletion is under way or after a crash.
ListedHasFile == Listed \subseteq iconFiles

\* An icon file that icons.json does not list is about to be listed or removed,
\* or a crash, a failed write or a failed removal left it: no other path lets the
\* quota fill up with icons that nobody can delete.
NoOrphanIcon ==
  \A i \in (iconFiles \ Listed) \ lost : \E a \in Admins :
    mutex = a /\ job[a].id = i /\ job[a].pc \in {"list", "remove"}

\* ActiveIcon: the first icon whose flag is set.
ActiveIcon ==
  LET flagged == {n \in 1..Len(icons) : icons[n] \in active} IN
  IF flagged = {} THEN None
  ELSE icons[CHOOSE n \in flagged : \A m \in flagged : n <= m]

Brand == INSTANCE Branding WITH available <- Listed, shown <- ActiveIcon

\* The icon store does what Branding promises: the shown icon changes only by a
\* choice or by its deletion, and there is one as long as there are icons.
ShowsChosenIcon == Brand!Spec

=============================================================================
