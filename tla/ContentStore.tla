---------------------------- MODULE ContentStore ----------------------------
(***************************************************************************)
(* The dashboard's entries (entries.json) and the .rdp templates uploaded   *)
(* for them, under the admin requests that create, update and delete        *)
(* entries.  FileStore has a mutex, held by each of Get, SaveUpload and     *)
(* Delete and by the second half of Put: the template of an entry is        *)
(* looked for before the mutex is taken, and a failed request removes its   *)
(* upload without it.                                                       *)
(***************************************************************************)
EXTENDS AdminApi, Integers, FiniteSetsExt

CONSTANTS
  Ids,              \* entry ids that newEntryID may return
  Files,            \* file names that SaveUpload may generate
  Sizes,            \* sizes of uploads
  Groups,
  MaxUploads,       \* quota of files, 0 for none
  MaxStorageBytes   \* quota of bytes, 0 for none

\* An entry without an upload is a host entry.
Entry ==
  [upload : Files \union {None}, groups : SUBSET Groups, enabled : BOOLEAN]

ASSUME ContentAssumption ==
  /\ None \notin Ids /\ None \notin Files /\ None \notin Sizes /\ None \notin Entry
  /\ Sizes \subseteq Nat /\ MaxUploads \in Nat /\ MaxStorageBytes \in Nat

VARIABLES
  entries,     \* entries.json: id -> entry, or None
  files,       \* the upload directory: name -> size, or None
  issued,      \* the random ids and file names handed out so far
  work,        \* what each request is doing, with its local variables
  leaked       \* history: uploads that a crash or a failed removal left behind

vars == <<entries, files, issued, work, leaked>>

\* upload is the file this request saved, which it removes if it fails.
Idle == [pc |-> "idle", id |-> None, entry |-> None, upload |-> None]

\* Files and local variables keep the type of their declaration.
TypeOK ==
  /\ entries \in [Ids -> Entry \union {None}]
  /\ files \in [Files -> Sizes \union {None}]
  /\ issued \subseteq Ids \union Files /\ leaked \subseteq Files
  /\ work \in [Admins ->
       [pc : {"idle", "uploaded", "change", "stat", "write", "delete", "remove"},
        id : Ids \union {None}, entry : Entry \union {None},
        upload : Files \union {None}]]

Init ==
  /\ entries = [i \in Ids |-> None]
  /\ files = [f \in Files |-> None]
  /\ issued = {} /\ leaked = {}
  /\ work = [a \in Admins |-> Idle]

At(a, where) == work[a].pc = where

-----------------------------------------------------------------------------
(* store.go                                                                 *)

Stored == {f \in Files : files[f] # None}
StoredBytes == MapThenSumSet(LAMBDA f : files[f], Stored)

\* Mutant: one file more than the quota is let in.
FitsQuotaPlusOne(size) ==
  /\ MaxUploads > 0 => Cardinality(Stored) <= MaxUploads
  /\ MaxStorageBytes > 0 => size <= MaxStorageBytes - StoredBytes

\* enforceFileQuota
FitsQuota(size) ==
  /\ MaxUploads > 0 => Cardinality(Stored) < MaxUploads
  /\ MaxStorageBytes > 0 => size <= MaxStorageBytes - StoredBytes

\* The name is random and must not exist yet.
SaveUpload(a, f, size) ==
  /\ At(a, "idle") /\ f \notin issued /\ FitsQuota(size)
  /\ files' = [files EXCEPT ![f] = size]
  /\ issued' = issued \union {f}
  /\ work' = [work EXCEPT ![a].pc = "uploaded", ![a].upload = f]
  /\ UNCHANGED <<entries, leaked>>

\* removeUploadFile, whose error is ignored.
Discard(f) ==
  \/ files' = [files EXCEPT ![f] = None] /\ UNCHANGED leaked
  \/ files[f] # None /\ leaked' = leaked \union {f} /\ UNCHANGED files

\* Mutant: a request that fails removes the template of its entry.
GiveUpWithEntry(a) ==
  LET e == work[a].entry IN
  [work EXCEPT ![a] = IF e = None \/ e.upload = None THEN Idle
                      ELSE [Idle EXCEPT !.pc = "remove", !.upload = e.upload]]

\* The request is answered with an error; its own upload is removed first.
GiveUp(a) ==
  LET f == work[a].upload IN
  [work EXCEPT ![a] = IF f = None THEN Idle
                      ELSE [Idle EXCEPT !.pc = "remove", !.upload = f]]

\* Put, up to the mutex: an entry needs a group, and a template its file.
BeginPut(a, i, e) ==
  work' = IF e.groups = {} THEN GiveUp(a)
          ELSE [work EXCEPT ![a] =
                  [pc |-> IF e.upload = None THEN "write" ELSE "stat",
                   id |-> i, entry |-> e, upload |-> work[a].upload]]

Stat(a) ==
  /\ At(a, "stat")
  /\ work' = IF files[work[a].entry.upload] = None THEN GiveUp(a)
             ELSE [work EXCEPT ![a].pc = "write"]
  /\ UNCHANGED <<entries, files, issued, leaked>>

\* Put, under the mutex: an entry that was deleted meanwhile is added again.
Put(a) ==
  /\ At(a, "write")
  /\ LET i == work[a].id  old == entries[i]  new == work[a].entry IN
     /\ entries' = [entries EXCEPT ![i] = new]
     /\ IF old # None /\ old.upload \notin {None, new.upload}
        THEN Discard(old.upload) ELSE UNCHANGED <<files, leaked>>
  /\ work' = [work EXCEPT ![a] = Idle]
  /\ UNCHANGED issued

\* Mutant: the template of a deleted entry stays.
DeleteKeepsUpload(a) ==
  /\ At(a, "delete")
  /\ entries' = [entries EXCEPT ![work[a].id] = None]
  /\ work' = [work EXCEPT ![a] = Idle]
  /\ UNCHANGED <<files, issued, leaked>>

Delete(a) ==
  /\ At(a, "delete")
  /\ LET i == work[a].id  old == entries[i] IN
     /\ entries' = [entries EXCEPT ![i] = None]
     /\ IF old # None /\ old.upload # None
        THEN Discard(old.upload) ELSE UNCHANGED <<files, leaked>>
  /\ work' = [work EXCEPT ![a] = Idle]
  /\ UNCHANGED issued

-----------------------------------------------------------------------------
(* admin_handlers.go                                                        *)

\* A host entry is put at once, a template entry after SaveUpload.
Create(a, i, groups) ==
  /\ work[a].pc \in {"idle", "uploaded"} /\ i \notin issued
  /\ issued' = issued \union {i}
  /\ BeginPut(a, i, [upload |-> work[a].upload, groups |-> groups, enabled |-> TRUE])
  /\ UNCHANGED <<entries, files, leaked>>

\* An unknown id is a 404.
Get(a, i, next) ==
  /\ At(a, "idle") /\ entries[i] # None
  /\ work' = [work EXCEPT ![a] = [pc |-> next, id |-> i, upload |-> None,
                entry |-> IF next = "change" THEN entries[i] ELSE None]]
  /\ UNCHANGED <<entries, files, issued, leaked>>

\* Mutant: the enabled flag of the request is stored even when it is nil.
ChangedBlindly(e, groups, enabled) ==
  [e EXCEPT !.groups = IF groups = None THEN @ ELSE groups, !.enabled = enabled]

\* A nil field of the request keeps the old value.
Changed(e, groups, enabled) ==
  [e EXCEPT !.groups = IF groups = None THEN @ ELSE groups,
            !.enabled = IF enabled = None THEN @ ELSE enabled]

Update(a, groups, enabled) ==
  /\ At(a, "change")
  /\ BeginPut(a, work[a].id, Changed(work[a].entry, groups, enabled))
  /\ UNCHANGED <<entries, files, issued, leaked>>

\* A body that does not parse, an unknown icon, or a file that cannot be read
\* or written.
Fail(a) ==
  /\ work[a].pc \in {"uploaded", "change", "stat", "write", "delete"}
  /\ work' = GiveUp(a)
  /\ UNCHANGED <<entries, files, issued, leaked>>

RemoveUpload(a) ==
  /\ At(a, "remove")
  /\ Discard(work[a].upload)
  /\ work' = [work EXCEPT ![a] = Idle]
  /\ UNCHANGED <<entries, issued>>

\* The server dies and starts again; what was uploaded stays.
Crash ==
  /\ \E a \in Admins : ~At(a, "idle")
  /\ leaked' = leaked \union ({work[a].upload : a \in Admins} \ {None})
  /\ work' = [a \in Admins |-> Idle]
  /\ UNCHANGED <<entries, files, issued>>

-----------------------------------------------------------------------------
Handle(a) ==
  \/ \E f \in Files, size \in Sizes : SaveUpload(a, f, size)
  \/ \E i \in Ids, groups \in SUBSET Groups : Create(a, i, groups)
  \/ \E i \in Ids, next \in {"change", "delete"} : Get(a, i, next)
  \/ \E groups \in (SUBSET Groups) \union {None}, enabled \in BOOLEAN \union {None} :
        Update(a, groups, enabled)
  \/ Stat(a) \/ Put(a) \/ Delete(a) \/ Fail(a) \/ RemoveUpload(a)

Next == (\E a \in Admins : Handle(a)) \/ Crash

Spec == Init /\ [][Next]_vars

-----------------------------------------------------------------------------
(* Properties                                                               *)

Uses(f) == \E i \in Ids : entries[i] # None /\ entries[i].upload = f

\* Concurrent uploads, failures and crashes never take the upload directory
\* over either quota, because enforceFileQuota and the write share the mutex.
WithinQuota ==
  /\ MaxUploads > 0 => Cardinality(Stored) <= MaxUploads
  /\ MaxStorageBytes > 0 => StoredBytes <= MaxStorageBytes

\* An upload that no entry uses and no request is about to use is one that a
\* crash or a failed removal left behind: no error path forgets its upload, so
\* the quota is not eaten up by requests that failed.
NoOrphan ==
  \A f \in Stored \ leaked : Uses(f) \/ \E a \in Admins : work[a].upload = f

\* No request removes a template that an entry uses before and after the step,
\* whatever other requests do between its Get, its check and its Put.
KeepsUploads ==
  [][\A f \in Files : files[f] # None /\ Uses(f) /\ Uses(f)' => files'[f] # None]_vars

\* The template of every stored entry exists.
TemplateHasFile ==
  \A i \in Ids : entries[i] # None /\ entries[i].upload # None
    => files[entries[i].upload] # None

=============================================================================
