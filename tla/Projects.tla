------------------------------- MODULE Projects -------------------------------
(***************************************************************************)
(* Projects, their files, copies, templates, imports and quotas.           *)
(* CreateProject is a transaction, and so is the creation of one file;     *)
(* what is built from them, a copy, an import, a publication, is not.      *)
(* Who may do what is in Access; here everybody may edit every project.    *)
(***************************************************************************)
EXTENDS Naturals, FiniteSets, Functions

CONSTANTS
  Users,
  Exempt,              \* exempt from quotas
  Paths, MainTyp,      \* MainTyp is the default main_path
  Calls,               \* requests handled concurrently
  Zips,                \* what is uploaded for import: sets of entries
  Manifests,           \* what a version holds: sets of entries, one for each path
  ProjectMenus,        \* bound: the operations of one behaviour, and its projects
  MaxProjectsPerUser,
  MaxAssetsPerUser,    \* MaxAssetBytesPerUser, every asset of one size
  MaxProjects,         \* bound: projects of any behaviour
  MaxFiles             \* bound: files ever created

\* An entry of a list of files, or of a ZIP archive or a version (no id).
Entry == [id : 0 .. MaxFiles, path : Paths, asset : BOOLEAN]

ASSUME ProjectConstants ==
  /\ MainTyp \in Paths /\ Exempt \subseteq Users /\ Users # {}
  /\ IsFiniteSet(Calls) /\ Calls # {} /\ \A list \in Zips \cup Manifests : list \subseteq Entry
  /\ \A list \in Manifests : \A d, e \in list : d.path = e.path => d = e
  /\ MaxProjectsPerUser \in Nat \ {0} /\ MaxAssetsPerUser \in Nat \ {0}
  /\ MaxProjects \in Nat \ {0} /\ MaxFiles \in Nat \ {0}
  /\ \A m \in ProjectMenus : m.projects \in 0 .. MaxProjects

VARIABLES
  projects,     \* the rows, by id
  lastProject,
  files,        \* the rows, by id
  lastFile,
  projectMenu,
  call          \* what each request is about to do

projectsVars == <<projects, lastProject, files, lastFile, projectMenu, call>>

Pids == 1 .. MaxProjects
\* checked says that the row came through the quota and was never in the trash.
Project == [owner : Users, main : Paths, template : BOOLEAN, deleted : BOOLEAN, checked : BOOLEAN]
File    == [project : Pids, path : Paths, asset : BOOLEAN, checked : BOOLEAN]
Call    == [op : {"idle", "create", "duplicate", "use", "publish", "import", "upload", "delete",
                  "version"},
            step : {"none", "source", "insert", "main", "list", "copy", "publish", "entries",
                    "asset", "delete", "current", "restore", "replace"},
            user : Users, source : 0 .. MaxProjects, target : 0 .. MaxProjects,
            main : Paths, file : 0 .. MaxFiles, list : SUBSET Entry, done : SUBSET Entry,
            current : SUBSET Entry, flag : BOOLEAN]

SomeUser == CHOOSE u \in Users : TRUE
NoCall == [op |-> "idle", step |-> "none", user |-> SomeUser, source |-> 0, target |-> 0,
           main |-> MainTyp, file |-> 0, list |-> {}, done |-> {}, current |-> {},
           flag |-> FALSE]

\* Nothing, or a project with its main file, as handleCreateProject has left it.
ProjectsInit ==
  /\ \/ /\ projects = [p \in {} |-> 0] /\ lastProject = 0
        /\ files = [f \in {} |-> 0] /\ lastFile = 0
     \/ /\ \E u \in Users \ Exempt :
             projects = [p \in {1} |-> [owner |-> u, main |-> MainTyp, template |-> FALSE,
                                       deleted |-> FALSE, checked |-> TRUE]]
        /\ files = [f \in {1} |-> [project |-> 1, path |-> MainTyp, asset |-> FALSE, checked |-> FALSE]]
        /\ lastProject = 1 /\ lastFile = 1
  /\ projectMenu \in ProjectMenus /\ call = [r \in Calls |-> NoCall]

Live      == {p \in DOMAIN projects : ~projects[p].deleted}
FilesOf(p) == {f \in DOMAIN files : files[f].project = p}
PathsOf(p) == {files[f].path : f \in FilesOf(p)}
Listing(p) == {[id |-> f, path |-> files[f].path, asset |-> files[f].asset] : f \in FilesOf(p)}
Owned(u)  == {p \in Live : projects[p].owner = u}

Admit(r, asked) ==
  /\ asked.op \in projectMenu.ops /\ call[r] = NoCall
  /\ call' = [call EXCEPT ![r] = asked]
Doing(r, step) == call[r].step = step
Return(r)      == call' = [call EXCEPT ![r] = NoCall]

\* The flag of a creation says that it came through the quota.  That of a publication, a
\* deletion or the restoration of a version is history: its project has been changed since
\* it was read, in a way that matters to it.
Noted(p, ops) ==
  [r \in Calls |-> IF call[r].op \in ops /\ call[r].target = p
                     THEN [call[r] EXCEPT !.flag = TRUE] ELSE call[r]]

\* SoftDeleteProject; what comes out of the trash counts as unchecked.
SoftDelete(p) ==
  /\ projects' = [projects EXCEPT ![p].deleted = TRUE, ![p].checked = FALSE]
  /\ files' = [f \in DOMAIN files |-> [files[f] EXCEPT !.checked = @ /\ files[f].project # p]]

\* A statement fails or the client leaves: what was written before stays.
Abandoned(r) ==
  /\ call[r] # NoCall /\ call[r].op # "import"
  /\ Return(r)
  /\ UNCHANGED <<projects, lastProject, files, lastFile>>

-----------------------------------------------------------------------------
(* Quotas: a count, and the creation in a later statement.                  *)

\* Mutant: the limit itself is still admitted.
OneMore(u) ==
  u \in Exempt \/ Cardinality({p \in Owned(u) : ~projects[p].template}) <= MaxProjectsPerUser

checkProjectQuota(u) ==
  u \in Exempt \/ Cardinality({p \in Owned(u) : ~projects[p].template}) < MaxProjectsPerUser

\* The assets are those of the owner of the project, whoever uploads.
AssetsOwnedBy(u) == {f \in DOMAIN files : files[f].asset /\ files[f].project \in Owned(u)}
checkAssetQuota(u, owner) == u \in Exempt \/ Cardinality(AssetsOwnedBy(owner)) + 1 <= MaxAssetsPerUser

-----------------------------------------------------------------------------
(* Rows.                                                                    *)

WithRow(table, id, row) == [i \in DOMAIN table \cup {id} |-> IF i = id THEN row ELSE table[i]]

NewProject(r, main, checked) ==
  LET p == lastProject + 1 IN
  /\ lastProject < projectMenu.projects
  /\ lastProject' = p
  /\ projects' = WithRow(projects, p, [owner |-> call[r].user, main |-> main, template |-> FALSE,
                                       deleted |-> FALSE, checked |-> checked])

\* (project_id, path) is unique; the project may have been deleted for good.
CanInsert(p, path) == p \in DOMAIN projects /\ path \notin PathsOf(p)
NewFile(p, path, asset, checked) ==
  LET f == lastFile + 1 IN
  /\ lastFile < MaxFiles
  /\ lastFile' = f
  /\ files' = WithRow(files, f, [project |-> p, path |-> path, asset |-> asset, checked |-> checked])

-----------------------------------------------------------------------------
(* Creating a project, empty or as a copy.                                  *)

handleCreateProject(r, u) ==
  /\ checkProjectQuota(u)
  /\ Admit(r, [NoCall EXCEPT !.op = "create", !.step = "insert",
                             !.user = u, !.flag = u \notin Exempt])
  /\ UNCHANGED <<projects, lastProject, files, lastFile>>

\* Then the main file, in a transaction of its own.
CreateProject(r) ==
  /\ Doing(r, "insert") /\ call[r].op \in {"create", "import"}
  /\ NewProject(r, MainTyp, call[r].flag)
  /\ call' = [call EXCEPT ![r].target = lastProject',
                        ![r].step = IF call[r].op = "import" THEN "entries" ELSE "main"]
  /\ UNCHANGED <<files, lastFile>>

CreateTextFile(r) ==
  /\ Doing(r, "main") /\ Return(r)
  /\ IF CanInsert(call[r].target, MainTyp) THEN NewFile(call[r].target, MainTyp, FALSE, FALSE)
     ELSE UNCHANGED <<files, lastFile>>
  /\ UNCHANGED <<projects, lastProject>>

handleDuplicateProject(r, u, p) ==
  /\ checkProjectQuota(u)
  /\ Admit(r, [NoCall EXCEPT !.op = "duplicate", !.step = "source",
                             !.user = u, !.source = p, !.flag = u \notin Exempt])
  /\ UNCHANGED <<projects, lastProject, files, lastFile>>

handleUseTemplate(r, u, p) ==
  /\ checkProjectQuota(u)
  /\ Admit(r, [NoCall EXCEPT !.op = "use", !.step = "source",
                             !.user = u, !.source = p, !.flag = u \notin Exempt])
  /\ UNCHANGED <<projects, lastProject, files, lastFile>>

\* No quota: what is published shall not count.
handlePublishTemplate(r, p) ==
  /\ Admit(r, [NoCall EXCEPT !.op = "publish", !.step = "source",
                             !.user = projects[p].owner, !.source = p])
  /\ UNCHANGED <<projects, lastProject, files, lastFile>>

\* ProjectByID.
copyProject(r) ==
  LET p == call[r].source IN
  /\ Doing(r, "source")
  /\ IF p \in Live /\ (call[r].op = "use" => projects[p].template)
     THEN call' = [call EXCEPT ![r].step = "insert", ![r].main = projects[p].main]
     ELSE Return(r)
  /\ UNCHANGED <<projects, lastProject, files, lastFile>>

\* CreateProject, and UpdateProject where the main file is another one.
CopyRow(r) ==
  /\ Doing(r, "insert") /\ call[r].op \notin {"create", "import"}
  /\ \/ /\ NewProject(r, call[r].main, call[r].flag)
        /\ call' = [call EXCEPT ![r].step = "list", ![r].target = lastProject']
     \/ /\ call[r].main # MainTyp
        /\ NewProject(r, MainTyp, call[r].flag) /\ Return(r)
  /\ UNCHANGED <<files, lastFile>>

ListFiles(r) ==
  /\ Doing(r, "list")
  /\ call' = [call EXCEPT ![r].step = "copy", ![r].list = Listing(call[r].source)]
  /\ UNCHANGED <<projects, lastProject, files, lastFile>>

\* Mutant: a file that cannot be copied is passed over.
CopyWhatWorks(r) ==
  \E e \in call[r].list \ call[r].done :
    /\ Doing(r, "copy")
    /\ IF CanInsert(call[r].target, e.path) /\ (e.asset \/ e.id \in DOMAIN files)
       THEN NewFile(call[r].target, e.path, e.asset, FALSE)
       ELSE UNCHANGED <<files, lastFile>>
    /\ call' = [call EXCEPT ![r].done = @ \cup {e}]
    /\ UNCHANGED <<projects, lastProject>>

\* FileContent of a text (it may be gone), UpsertBlob of an asset, and the insertion.
CopyFile(r) ==
  \E e \in call[r].list \ call[r].done :
    /\ Doing(r, "copy")
    /\ IF CanInsert(call[r].target, e.path) /\ (e.asset \/ e.id \in DOMAIN files)
       THEN /\ NewFile(call[r].target, e.path, e.asset, FALSE)
            /\ call' = [call EXCEPT ![r].done = @ \cup {e}]
       ELSE Return(r) /\ UNCHANGED <<files, lastFile>>
    /\ UNCHANGED <<projects, lastProject>>

Copied(r) ==
  /\ Doing(r, "copy") /\ call[r].list = call[r].done
  /\ IF call[r].op = "publish" THEN call' = [call EXCEPT ![r].step = "publish"] ELSE Return(r)
  /\ UNCHANGED <<projects, lastProject, files, lastFile>>

SetProjectTemplate(r) ==
  LET p == call[r].target IN
  /\ Doing(r, "publish") /\ Return(r)
  /\ projects' = IF p \in DOMAIN projects
                 THEN [projects EXCEPT ![p].template = TRUE, ![p].checked = FALSE]
                 ELSE projects
  /\ UNCHANGED <<lastProject, files, lastFile>>

-----------------------------------------------------------------------------
(* Import.                                                                  *)

handleImportZip(r, u, zip) ==
  /\ checkProjectQuota(u)
  /\ Admit(r, [NoCall EXCEPT !.op = "import", !.step = "insert",
                             !.user = u, !.list = zip, !.flag = u \notin Exempt])
  /\ UNCHANGED <<projects, lastProject, files, lastFile>>

\* Errors are passed over; that of an asset even counts as a file that was added, and so
\* does its entry.  A text that failed is left out of what was added.
ImportEntry(r) ==
  \E e \in call[r].list \ call[r].done :
    /\ Doing(r, "entries")
    /\ \/ /\ CanInsert(call[r].target, e.path)
          /\ NewFile(call[r].target, e.path, e.asset, FALSE)
          /\ call' = [call EXCEPT ![r].done = @ \cup {e}]
       \/ /\ call' = IF e.asset THEN [call EXCEPT ![r].done = @ \cup {e}]
                    ELSE [call EXCEPT ![r].list = @ \ {e}]
          /\ UNCHANGED <<files, lastFile>>
    /\ UNCHANGED <<projects, lastProject>>

\* Nothing added: to the trash.  No main.typ: the first text is the main file.
Imported(r) ==
  LET p     == call[r].target
      texts == {e.path : e \in {d \in call[r].done : ~d.asset}}
  IN
  /\ Doing(r, "entries") /\ call[r].list = call[r].done
  /\ \/ /\ p \in DOMAIN projects /\ call[r].done = {}
        /\ SoftDelete(p) /\ Return(r)
     \/ /\ p \in DOMAIN projects /\ MainTyp \notin texts
        /\ \E path \in texts : projects' = [projects EXCEPT ![p].main = path]
        /\ UNCHANGED files
        /\ call' = [Noted(p, {"delete"}) EXCEPT ![r] = NoCall]
     \/ UNCHANGED <<projects, files>> /\ Return(r)
  /\ UNCHANGED <<lastProject, lastFile>>

-----------------------------------------------------------------------------
(* Files, one by one.                                                       *)

handleCreateFile(p, path) ==
  /\ "file" \in projectMenu.ops /\ CanInsert(p, path) /\ NewFile(p, path, FALSE, FALSE)
  /\ call' = Noted(p, {"publish"})
  /\ UNCHANGED <<projects, lastProject>>

handleUploadAsset(r, u, p, path) ==
  /\ checkAssetQuota(u, projects[p].owner)
  /\ Admit(r, [NoCall EXCEPT !.op = "upload", !.step = "asset", !.user = u,
                             !.target = p, !.main = path, !.flag = u \notin Exempt])
  /\ UNCHANGED <<projects, lastProject, files, lastFile>>

\* Blob.Put and UpsertBlob before it show nowhere but in a reference count nobody reads.
CreateAssetFile(r) ==
  LET p == call[r].target IN
  /\ Doing(r, "asset")
  /\ CanInsert(p, call[r].main)
  /\ NewFile(p, call[r].main, TRUE, call[r].flag /\ p \in Live)
  /\ call' = [Noted(p, {"publish"}) EXCEPT ![r] = NoCall]
  /\ UNCHANGED <<projects, lastProject>>

handleRenameFile(f, path) ==
  LET p == files[f].project IN
  /\ "rename" \in projectMenu.ops /\ CanInsert(p, path)
  /\ files' = [files EXCEPT ![f].path = path]
  /\ call' = Noted(p, {"publish", "delete", "version"})
  /\ UNCHANGED <<projects, lastProject, lastFile>>

\* mainPath may be any string.
handleUpdateProject(p, path) ==
  /\ "rename" \in projectMenu.ops
  /\ projects' = [projects EXCEPT ![p].main = path]
  /\ call' = Noted(p, {"delete"})
  /\ UNCHANGED <<lastProject, files, lastFile>>

\* Mutant: the main file may be deleted.
DeleteAnyFile(r, f) ==
  /\ Admit(r, [NoCall EXCEPT !.op = "delete", !.step = "delete",
                             !.target = files[f].project, !.file = f])
  /\ UNCHANGED <<projects, lastProject, files, lastFile>>

handleDeleteFile(r, f) ==
  /\ files[f].path # projects[files[f].project].main
  /\ Admit(r, [NoCall EXCEPT !.op = "delete", !.step = "delete",
                             !.target = files[f].project, !.file = f])
  /\ UNCHANGED <<projects, lastProject, files, lastFile>>

DeleteFile(r) ==
  /\ Doing(r, "delete")
  /\ files' = Restrict(files, DOMAIN files \ {call[r].file})
  /\ call' = [Noted(call[r].target, {"publish"}) EXCEPT ![r] = NoCall]
  /\ UNCHANGED <<projects, lastProject, lastFile>>

-----------------------------------------------------------------------------
(* Restoring a version: file by file, and without a look at the main path.  *)
(* What the texts become is in Versions.                                    *)

\* The snapshot taken first, and what the version holds, change no row that matters here.
handleRestoreVersion(r, p, manifest) ==
  /\ Admit(r, [NoCall EXCEPT !.op = "version", !.step = "current", !.target = p, !.list = manifest])
  /\ UNCHANGED <<projects, lastProject, files, lastFile>>

\* currentByPath, from which what the version holds is taken out as it is restored.
ListCurrent(r) ==
  /\ Doing(r, "current")
  /\ call' = [call EXCEPT ![r].step = "restore", ![r].current = Listing(call[r].target),
                         ![r].flag = FALSE]
  /\ UNCHANGED <<projects, lastProject, files, lastFile>>

Removes(r, id, next) ==
  /\ files' = Restrict(files, DOMAIN files \ {id})
  /\ call' = [Noted(call[r].target, {"publish"}) EXCEPT ![r] = next]
  /\ UNCHANGED <<projects, lastProject, lastFile>>

\* CreateTextFile, UpsertBlob and CreateAssetFile; no quota.
PutBack(r, e) ==
  /\ IF CanInsert(call[r].target, e.path)
     THEN /\ NewFile(call[r].target, e.path, e.asset, FALSE)
          /\ call' = [Noted(call[r].target, {"publish"}) EXCEPT
                       ![r] = [call[r] EXCEPT !.step = "restore", !.done = @ \cup {e}]]
     ELSE Return(r) /\ UNCHANGED <<files, lastFile>>
  /\ UNCHANGED <<projects, lastProject>>

RestoreMissing(r) ==
  \E e \in call[r].list \ call[r].done :
    /\ Doing(r, "restore") /\ \A c \in call[r].current : c.path # e.path
    /\ PutBack(r, e)

\* Collab.SetContent, or an asset that is the same.
RestoreContent(r) ==
  \E e \in call[r].list \ call[r].done, c \in call[r].current :
    /\ Doing(r, "restore") /\ c.path = e.path /\ c.asset = e.asset
    /\ call' = [call EXCEPT ![r].done = @ \cup {e}]
    /\ UNCHANGED <<projects, lastProject, files, lastFile>>

\* Of another kind, or another asset: deleted first, created in the next statement.
RestoreReplaced(r) ==
  \E e \in call[r].list \ call[r].done, c \in call[r].current :
    /\ Doing(r, "restore") /\ c.path = e.path /\ (c.asset \/ e.asset)
    /\ Removes(r, c.id, [call[r] EXCEPT !.step = "replace", !.main = e.path])

Replace(r) ==
  \E e \in call[r].list \ call[r].done :
    Doing(r, "replace") /\ e.path = call[r].main /\ PutBack(r, e)

\* Anything left does not exist in the version.
RestoreLeft(r) ==
  \E c \in call[r].current :
    /\ Doing(r, "restore") /\ call[r].list = call[r].done
    /\ \A e \in call[r].list : e.path # c.path
    /\ Removes(r, c.id, [call[r] EXCEPT !.current = @ \ {c}])

Restored(r) ==
  /\ Doing(r, "restore") /\ call[r].list = call[r].done
  /\ \A c \in call[r].current : \E e \in call[r].list : e.path = c.path
  /\ Return(r)
  /\ UNCHANGED <<projects, lastProject, files, lastFile>>

Restore(r) ==
  \/ ListCurrent(r) \/ RestoreMissing(r) \/ RestoreContent(r) \/ RestoreReplaced(r) \/ Replace(r)
  \/ RestoreLeft(r) \/ Restored(r)

-----------------------------------------------------------------------------
(* The trash, for projects and, at the hands of their owner or an           *)
(* administrator, templates.                                                *)

handleDeleteProject(p) ==
  /\ "trash" \in projectMenu.ops
  /\ SoftDelete(p)
  /\ UNCHANGED <<lastProject, lastFile, call>>

\* No quota.
handleRestoreProject(p) ==
  /\ projects[p].deleted
  /\ projects' = [projects EXCEPT ![p].deleted = FALSE]
  /\ UNCHANGED <<lastProject, files, lastFile, call>>

handlePermanentDeleteProject(p) ==
  /\ projects[p].deleted
  /\ projects' = Restrict(projects, DOMAIN projects \ {p})
  /\ files' = Restrict(files, DOMAIN files \ FilesOf(p))
  /\ UNCHANGED <<lastProject, lastFile, call>>

-----------------------------------------------------------------------------

Asked(r) ==
  \/ \E u \in Users :
       \/ handleCreateProject(r, u)
       \/ \E zip \in Zips : handleImportZip(r, u, zip)
       \/ \E p \in Live : \/ handleDuplicateProject(r, u, p) \/ handleUseTemplate(r, u, p)
                          \/ \E path \in Paths : handleUploadAsset(r, u, p, path)
  \/ \E p \in Live : handlePublishTemplate(r, p)
                    \/ \E manifest \in Manifests : handleRestoreVersion(r, p, manifest)
  \/ \E f \in DOMAIN files : files[f].project \in Live /\ handleDeleteFile(r, f)

Continued(r) ==
  \/ CreateProject(r) \/ CreateTextFile(r)
  \/ copyProject(r) \/ CopyRow(r) \/ ListFiles(r) \/ CopyFile(r) \/ Copied(r)
  \/ SetProjectTemplate(r)
  \/ ImportEntry(r) \/ Imported(r)
  \/ CreateAssetFile(r) \/ DeleteFile(r)
  \/ Restore(r)

ProjectsNext ==
  /\ \/ \E r \in Calls : Asked(r) \/ Continued(r) \/ Abandoned(r)
     \/ \E p \in Live : \/ handleDeleteProject(p)
                        \/ \E path \in Paths : handleCreateFile(p, path) \/ handleUpdateProject(p, path)
     \/ \E f \in DOMAIN files, path \in Paths :
          files[f].project \in Live /\ handleRenameFile(f, path)
     \/ \E p \in DOMAIN projects : handleRestoreProject(p) \/ handlePermanentDeleteProject(p)
  /\ UNCHANGED projectMenu

ProjectsSpec == ProjectsInit /\ [][ProjectsNext]_projectsVars

-----------------------------------------------------------------------------
(* Properties.                                                              *)

\* Rows have their types, files belong to projects that exist, and no project has two
\* files of one path (migrations/0001_init.sql).
ProjectsTypeOK ==
  /\ lastProject \in 0 .. MaxProjects /\ DOMAIN projects \subseteq 1 .. lastProject
  /\ projects \in [DOMAIN projects -> Project]
  /\ lastFile \in 0 .. MaxFiles /\ DOMAIN files \subseteq 1 .. lastFile
  /\ files \in [DOMAIN files -> File]
  /\ \A f \in DOMAIN files : files[f].project \in DOMAIN projects
  /\ \A f, g \in DOMAIN files :
       files[f].project = files[g].project /\ files[f].path = files[g].path => f = g
  /\ projectMenu \in ProjectMenus
  /\ call \in [Calls -> Call]

\* roleauth.go:19, :38: a quota is exceeded by no more than the other requests of the same
\* moment.  Not counted are rows that meet no quota: published, copied or imported, those
\* that come out of the trash or a version, and those of administrators.
Counted(u)       == {p \in Owned(u) : projects[p].checked}
CountedAssets(u) == {f \in AssetsOwnedBy(u) : files[f].checked}
QuotaOverrunBounded ==
  \A u \in Users :
    /\ Cardinality(Counted(u)) < MaxProjectsPerUser + Cardinality(Calls)
    /\ Cardinality(CountedAssets(u)) < MaxAssetsPerUser + Cardinality(Calls)

\* projects_handlers.go:330: "Publishing copies the project": what becomes a template holds
\* every file of the list that was read, unless its files have been changed one by one since.
TemplateComplete ==
  [][\A p \in DOMAIN projects \cap DOMAIN projects' :
       projects'[p].template /\ ~projects[p].template
       => \E r \in Calls :
            /\ call[r].target = p
            /\ call[r].flag \/ PathsOf(p) = {e.path : e \in call[r].list}]_projectsVars

\* files_handlers.go:227 "cannot delete the main file": a request to delete a file takes the
\* main file only if it has overlapped with a renaming or a change of the main path.  Other
\* than that the main file goes where a version is restored: one that holds nothing at the
\* main path, or something in place of which it is not left standing (an asset on either
\* side), or one whose restoration has overlapped with a renaming.
MainFileKept ==
  [][\A f \in DOMAIN files \ DOMAIN files' :
       LET main == projects[files[f].project].main IN
       files[f].project \in DOMAIN projects' /\ files[f].path = main
       => \E r \in Calls :
            /\ call'[r] # call[r]
            /\ \/ call[r].op = "delete" /\ call[r].file = f /\ call[r].flag
               \/ /\ call[r].op = "version" /\ call[r].target = files[f].project
                  /\ \/ call[r].flag
                     \/ \A e \in call[r].list : e.path = main => e.asset \/ files[f].asset]_projectsVars
=============================================================================
