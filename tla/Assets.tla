------------------------------- MODULE Assets -------------------------------
(***************************************************************************)
(* Templates and campaigns and the files they show: writing them, starting *)
(* a campaign, clones into another workspace, and what happens to them     *)
(* when a member leaves or hands a template over.                          *)
(*                                                                         *)
(* The files of a body are those it names or that are attached with it;    *)
(* `media` are the stored associations. A file may be shown that was       *)
(* deleted; it has then no association.                                    *)
(***************************************************************************)
EXTENDS MediaFiles

CONSTANT None

VARIABLES
    templates,  \* the rows by their id; kind is "campaign" or "visual"
    campaigns,  \* the rows by their id
    copied      \* history: what templates and campaigns that were copied, and not edited
                \* since, show, and the files they leave to their template

vars == <<folderVars, left, storeVars, born, templates, campaigns, copied>>

\* Rows, when n ids were given out, over the files F and the templates T.
TemplateRow(n, F) ==
    [org : BOOLEAN, owner : Users \cup {Nobody}, vis : Visibilities, pending : BOOLEAN,
     kind : {"campaign", "visual"}, refs : SUBSET (1..n), media : SUBSET F, default : BOOLEAN]
CampaignRow(n, F, T) ==
    [org : BOOLEAN, owner : Users \cup {Nobody}, pending : BOOLEAN, refs : SUBSET (1..n),
     media : SUBSET F, template : T \cup {None}, visual : BOOLEAN,
     status : {"draft", "running", "paused"}]

\* At the start the files a template shows are associated with it, and an owner has one default.
ASSUME AssetsAssumption ==
    \A b \in Bounds :
        /\ DOMAIN b.templates \cup DOMAIN b.campaigns \subseteq 1..b.born
        /\ DOMAIN b.templates \cap DOMAIN b.campaigns = {}
        /\ \A t \in DOMAIN b.templates :
              /\ b.templates[t] \in TemplateRow(b.born, DOMAIN b.files)
              /\ b.templates[t].owner \in Users /\ ~b.templates[t].pending
              /\ b.templates[t].refs \cap DOMAIN b.files \subseteq b.templates[t].media
              /\ \A s \in DOMAIN b.templates :
                    /\ b.templates[s].default /\ b.templates[t].default
                    /\ b.templates[s].owner = b.templates[t].owner
                    /\ b.templates[s].org = b.templates[t].org
                    => s = t
        /\ \A c \in DOMAIN b.campaigns :
              /\ b.campaigns[c] \in CampaignRow(b.born, DOMAIN b.files, DOMAIN b.templates)
              /\ b.campaigns[c].owner \in Users /\ ~b.campaigns[c].pending

AssetsTypeOK ==
    /\ FoldersTypeOK /\ FilesTypeOK
    /\ \A t \in DOMAIN templates : templates[t] \in TemplateRow(born, DOMAIN files)
    /\ \A c \in DOMAIN campaigns :
          campaigns[c] \in CampaignRow(born, DOMAIN files, DOMAIN templates)
    /\ DOMAIN copied \subseteq DOMAIN templates \cup DOMAIN campaigns

Init ==
    /\ FoldersInit /\ FilesInit
    /\ templates = left.templates
    /\ campaigns = left.campaigns
    /\ copied = <<>>

-----------------------------------------------------------------------------
(* Who may send what. *)

OwnerOf(r) == [user |-> r.owner, org |-> r.org]

\* CanUseResource: a row with a visibility, by a session.
Usable(a, r, vis) ==
    /\ ~r.pending
    /\ \/ vis = "global"
       \/ r.org = a.org /\ (r.owner = a.user \/ (a.org /\ vis = "organization"))

\* By its own visibility, wherever it is filed; and by that of its folder.
UsableFile(a, i) == Usable(a, files[i], files[i].vis)
UsableFiled(a, i) ==
    Usable(a, files[i], IF files[i].folder = Root THEN files[i].vis ELSE folders[files[i].folder].vis)

FolderOpen(a, i) == files[i].folder # Root => Readable(a, files[i].folder)

\* Files that a session may attach.
Attachable(a, i) ==
    IF files[i].folder = Root THEN UsableFile(a, i) ELSE ~files[i].pending /\ FolderOpen(a, i)

\* The files of a template that travel with it: those of its author, or shared ones.
Travels(t, i) ==
    /\ ~files[i].pending
    /\ files[i].org = templates[t].org
    /\ files[i].vis = "organization" \/ files[i].owner = templates[t].owner

TemplateMedia(t) == IF t = None THEN {} ELSE {i \in templates[t].media : Travels(t, i)}

\* Files a body needs associations for: the selected ones, and those it does not
\* have from its template.
Needed(refs, selected, t) == selected \cup (refs \ TemplateMedia(t))

\* reconcileBodyMediaTx, for the owner of the body.
Reconciles(o, refs, selected, t) ==
    /\ refs \cup selected \subseteq DOMAIN files
    /\ \A i \in refs \cup selected :
          \/ i \in TemplateMedia(t)
          \/ UsableFiled(o, i) /\ FolderOpen(o, i)
    /\ \A i \in Needed(refs, selected, t) : Attachable(o, i)

-----------------------------------------------------------------------------
(* Copies of what a body shows. *)

Rewrite(refs, copy) == {IF i \in DOMAIN copy THEN copy[i] ELSE i : i \in refs}

Contents(refs) == {files[i].content : i \in refs \cap DOMAIN files}

\* A body that was copied: what it shows, and the files it leaves to a template.
Shown(refs, kept) == [shows |-> Contents(refs), kept |-> refs \cap kept]

\* The step of a transaction that writes assets and gives their files copies.
Snapshot(S, owner, org) == files' = Joined(files, Copied(S, owner, org))

Associated(r) == r.media \cap DOMAIN files

\* Associations a clone may carry: those of its author, or shared ones, by the file's own
\* visibility.
ValidFor(o, S) == \A i \in S : UsableFile(o, i)
OpenFor(a, S) == \A i \in S : FolderOpen(a, i)

-----------------------------------------------------------------------------
(* Templates. *)

\* Bound: a body names at most one file.
Authored == {refs \in SUBSET DOMAIN files : Cardinality(refs) <= 1}

Defaults(owner, org) ==
    {t \in DOMAIN templates : templates[t].default /\ templates[t].owner = owner /\ templates[t].org = org}

CreateTemplate(a, kind, vis, refs) ==
    /\ Spend("template")
    /\ Works(a) /\ Allowed(a, vis)
    /\ Reconciles(a, refs, {}, None)
    /\ born' = born + 1
    /\ templates' = With(templates, born',
          [org |-> a.org, owner |-> a.user, vis |-> vis, pending |-> FALSE, kind |-> kind,
           refs |-> refs, media |-> refs, default |-> FALSE])
    /\ UNCHANGED <<folderVars, storeVars, campaigns, copied>>

UpdateTemplate(a, t, vis, refs) ==
    /\ Spend("edit")
    /\ Manages(a, templates[t]) /\ Allowed(a, vis)
    /\ Reconciles(a, refs, {}, None)
    /\ templates' = [templates EXCEPT ![t].vis = vis, ![t].refs = refs, ![t].media = refs]
    /\ copied' = Without(copied, {t})
    /\ UNCHANGED <<folderVars, storeVars, born, campaigns>>

SetDefault(a, t) ==
    /\ Spend("default")
    /\ Manages(a, templates[t]) /\ templates[t].kind = "campaign"
    /\ templates' = [s \in DOMAIN templates |->
          IF s = t \/ s \in Defaults(a.user, a.org) THEN [templates[s] EXCEPT !.default = (s = t)]
          ELSE templates[s]]
    /\ UNCHANGED <<folderVars, storeVars, born, campaigns, copied>>

Least(S) == IF S = {} THEN None ELSE CHOOSE t \in S : \A s \in S : t <= s

\* The default a campaign gets: its owner's own, else a global one.
DefaultFor(owner, org) ==
    LET own == Defaults(owner, org)
        global == {t \in DOMAIN templates :
                      templates[t].default /\ templates[t].vis = "global" /\ ~templates[t].pending}
    IN  IF own # {} /\ owner # Nobody THEN Least(own) ELSE Least(global)

\* Where the campaigns of a deleted template go.
Fallback(owner, org) == DefaultFor(owner, org)

DeleteTemplate(a, t) ==
    /\ Spend("drop")
    /\ Manages(a, templates[t]) /\ ~templates[t].default
    /\ templates' = Without(templates, {t})
    /\ campaigns' = [c \in DOMAIN campaigns |->
          IF campaigns[c].template = t
          THEN [campaigns[c] EXCEPT !.template = Fallback(campaigns[c].owner, campaigns[c].org)]
          ELSE campaigns[c]]
    /\ copied' = Without(copied, {t} \cup {c \in DOMAIN campaigns : campaigns[c].template = t})
    /\ UNCHANGED <<folderVars, storeVars, born>>

\* A copy of a template into a workspace, with every file it has.
CloneTemplate(a, b, t) ==
    LET source == templates[t]
        S == Associated(source)
        copy == CopyOf(S)
        id == born + Cardinality(S) + 1
    IN  /\ Spend("clone")
        /\ Works(a) /\ Works(b) /\ a.user = b.user
        /\ Usable(a, source, source.vis)
        /\ ValidFor(OwnerOf(source), S) /\ OpenFor(a, S)
        /\ Snapshot(S, b.user, b.org)
        /\ templates' = With(templates, id,
              [source EXCEPT !.owner = b.user, !.org = b.org, !.vis = "private", !.default = FALSE,
                             !.refs = Rewrite(source.refs, copy), !.media = Rewrite(S, copy)])
        /\ copied' = With(copied, id, Shown(source.refs, {}))
        /\ born' = id
        /\ UNCHANGED <<folderVars, store, uploads, removals, links, issuing, issued, contested, campaigns>>

-----------------------------------------------------------------------------
(* Campaigns. *)

MayUse(a, t) == t # None => Usable(a, templates[t], templates[t].vis)

Draft(a) == [org |-> a.org, owner |-> a.user, pending |-> FALSE, refs |-> {}, media |-> {},
             template |-> None, visual |-> FALSE, status |-> "draft"]

\* A body is written for a campaign row with the files it has already. The statement
\* adds those its owner may use by their own visibility.
Write(r, refs, t) ==
    LET needed == Needed(refs, {}, t)
        o == OwnerOf(r)
    IN  [r EXCEPT !.refs = refs, !.template = t, !.visual = FALSE,
                  !.media = {i \in needed : i \in @ \/ UsableFile(o, i)}]

\* A campaign without a template gets the default.
CreateCampaign(a, t, refs) ==
    /\ Spend("campaign")
    /\ Works(a)
    /\ MayUse(a, t) /\ (t # None => templates[t].kind = "campaign")
    /\ Reconciles(a, refs, {}, t)
    /\ born' = born + 1
    /\ LET row == Write(Draft(a), refs, t)
       IN  campaigns' = With(campaigns, born',
              [row EXCEPT !.template = IF t = None THEN DefaultFor(a.user, a.org) ELSE t])
    /\ UNCHANGED <<folderVars, storeVars, templates, copied>>

\* The status was checked by the handler, before the transaction, and may have changed.
UpdateCampaign(a, c, t, refs) ==
    /\ Spend("edit")
    /\ Manages(a, campaigns[c])
    /\ MayUse(a, t) /\ (t # None => templates[t].kind = "campaign")
    /\ Reconciles(a, refs, {}, t)
    /\ campaigns' = [campaigns EXCEPT ![c] = Write(@, refs, t)]
    /\ copied' = Without(copied, {c})
    /\ UNCHANGED <<folderVars, storeVars, born, templates>>

\* A visual template becomes the body of a campaign, with copies of its files.
ImportVisual(a, c, t) ==
    LET source == templates[t]
        S == Associated(source)
        refs == Rewrite(source.refs, CopyOf(S))
    IN  /\ Spend("clone")
        /\ Manages(a, campaigns[c])
        /\ source.kind = "visual" /\ MayUse(a, t)
        /\ ValidFor(OwnerOf(source), S) /\ OpenFor(a, S)
        /\ source.refs \subseteq S   \* what is left is no file: the body is refused
        /\ Snapshot(S, a.user, a.org)
        /\ campaigns' = [campaigns EXCEPT ![c] =
              [@ EXCEPT !.refs = refs, !.media = Rewrite(S, CopyOf(S)),
                        !.template = None, !.visual = TRUE]]
        /\ copied' = With(copied, c, Shown(source.refs, {}))
        /\ born' = born + Cardinality(S)
        /\ UNCHANGED <<folderVars, store, uploads, removals, links, issuing, issued, contested, templates>>

\* What reconcileStoredCampaignMediaTx looks at: the body with that of its template.
StoredBody(r) == r.refs \cup (IF r.template = None \/ r.visual THEN {} ELSE templates[r.template].refs)

\* Its checks, and the associations it stores whatever the visibility of the file itself.
Repairable(r) ==
    /\ MayUse(OwnerOf(r), r.template)
    /\ Reconciles(OwnerOf(r), StoredBody(r), Associated(r), r.template)

Repaired(r) == [r EXCEPT !.media = Needed(StoredBody(r), Associated(r), r.template)]

StartCampaign(a, c) ==
    /\ Spend("start")
    /\ Manages(a, campaigns[c]) /\ campaigns[c].status # "running"
    /\ Repairable(campaigns[c])
    /\ campaigns' = [campaigns EXCEPT ![c] = [Repaired(@) EXCEPT !.status = "running"]]
    /\ UNCHANGED <<folderVars, storeVars, born, templates, copied>>

\* GetCampaignAttachments: a file of the campaign or of its template, by its own visibility.
Deliverable(r, i) ==
    LET o == OwnerOf(r)
        t == r.template
    IN  /\ ~r.pending /\ ~files[i].pending
        /\ \/ i \in r.media /\ UsableFile(o, i)
           \/ /\ t # None /\ i \in templates[t].media /\ MayUse(o, t)
              /\ \/ UsableFile(o, i)
                 \/ /\ files[i].org = templates[t].org /\ files[i].owner = templates[t].owner
                    /\ files[i].vis # "organization"

SendAttachment(c, i) ==
    /\ campaigns[c].status = "running" /\ Deliverable(campaigns[c], i)
    /\ ReadAttachment(i)
    /\ UNCHANGED <<folderVars, born, templates, campaigns, copied>>

\* A template that the copy can use in the same workspace is kept.
Reuses(r, b) ==
    /\ r.template # None /\ r.org = b.org /\ (b.org \/ r.owner = b.user)
    /\ MayUse(b, r.template)

\* Mutant of CopiedMedia: the files of a template are left out even when it is copied.
CopiedMediaOfCampaign(r, b) == r.media

\* The files of a campaign that its copy gets copies of.
CopiedMedia(r, b) ==
    r.media \cup (IF r.template = None \/ Reuses(r, b) THEN {} ELSE Associated(templates[r.template]))

\* A copy of a campaign, by its owner or a manager, into a workspace. The source is
\* repaired first, for its owner.
CloneCampaign(a, b, c) ==
    LET source == Repaired(campaigns[c])
        t == source.template
        S == CopiedMedia(source, b)
        copy == CopyOf(S)
        tid == born + Cardinality(S) + 1
        id == tid + 1
        snapshot == t # None /\ ~Reuses(source, b)
        theirs == IF t = None THEN {} ELSE Associated(templates[t])
    IN  /\ Spend("clone")
        /\ Works(a) /\ Works(b) /\ a.user = b.user
        /\ ~source.pending /\ source.org = a.org
        /\ source.owner = a.user \/ (a.org /\ a.user \in Managers)
        /\ Repairable(campaigns[c])
        /\ ValidFor(OwnerOf(source), source.media)
        /\ t # None => ValidFor(OwnerOf(templates[t]), theirs)
        /\ OpenFor(a, source.media \cup theirs)
        /\ Snapshot(S, b.user, b.org)
        /\ templates' = IF snapshot
                        THEN With(templates, tid,
                                [templates[t] EXCEPT !.owner = b.user, !.org = b.org, !.vis = "private",
                                                     !.default = FALSE, !.refs = Rewrite(@, copy),
                                                     !.media = Rewrite(theirs, copy)])
                        ELSE templates
        /\ campaigns' = With([campaigns EXCEPT ![c] = source], id,
              [Draft(b) EXCEPT !.refs = Rewrite(source.refs, copy), !.media = Rewrite(source.media, copy),
                               !.template = IF snapshot THEN tid ELSE t, !.visual = source.visual])
        /\ copied' = With(IF snapshot THEN With(copied, tid, Shown(templates[t].refs, {})) ELSE copied,
                          id, Shown(source.refs, IF snapshot THEN {} ELSE theirs \ source.media))
        /\ born' = id
        /\ UNCHANGED <<folderVars, store, uploads, removals, links, issuing, issued, contested>>

-----------------------------------------------------------------------------
(* Members who leave, and templates that are handed over. *)

\* A global template is its author's: it goes with them, with copies of its files.
Detached(r, copy) ==
    [r EXCEPT !.org = FALSE, !.default = FALSE,
              !.refs = Rewrite(@, copy), !.media = Rewrite(Associated(r), copy)]

Orphaned(r) == [r EXCEPT !.owner = Nobody, !.pending = TRUE]

Of(v, r) == r.org /\ r.owner = v

RemoveMember(v) ==
    LET global == {t \in DOMAIN templates : Of(v, templates[t]) /\ templates[t].vis = "global"}
        S == UNION {Associated(templates[t]) : t \in global}
        copy == CopyOf(S)
    IN  /\ Spend("remove")
        /\ v \in members \ Managers
        /\ members' = members \ {v}
        /\ files' = Joined([i \in DOMAIN files |-> IF Of(v, files[i]) THEN Orphaned(files[i]) ELSE files[i]],
                           Copied(S, v, FALSE))
        /\ templates' = [t \in DOMAIN templates |->
              IF t \in global THEN Detached(templates[t], copy)
              ELSE IF Of(v, templates[t]) THEN Orphaned(templates[t]) ELSE templates[t]]
        /\ campaigns' = [c \in DOMAIN campaigns |->
              IF Of(v, campaigns[c])
              THEN [Orphaned(campaigns[c]) EXCEPT !.status = IF @ = "running" THEN "paused" ELSE @]
              ELSE campaigns[c]]
        /\ copied' = Joined([t \in global |-> Shown(templates[t].refs, {})], copied)
        /\ born' = born + Cardinality(S)
        /\ UNCHANGED <<folders, moving, store, uploads, removals, links, issuing, issued, contested>>

Inherited(r, w) ==
    IF r.org /\ r.pending THEN [r EXCEPT !.owner = w, !.pending = FALSE, !.default = FALSE] ELSE r

TransferPendingOrganizationResources(w) ==
    /\ Spend("transfer")
    /\ w \in members
    /\ files' = [i \in DOMAIN files |->
          IF files[i].pending THEN [files[i] EXCEPT !.owner = w, !.pending = FALSE] ELSE files[i]]
    /\ templates' = [t \in DOMAIN templates |-> Inherited(templates[t], w)]
    /\ campaigns' = [c \in DOMAIN campaigns |->
          IF campaigns[c].pending THEN [campaigns[c] EXCEPT !.owner = w, !.pending = FALSE]
          ELSE campaigns[c]]
    /\ UNCHANGED <<folderVars, store, uploads, removals, links, issuing, issued, contested, born, copied>>

\* Files of a template that its next owner can use as they are.
Stays(i, w) ==
    ~files[i].pending /\ files[i].org /\ (files[i].vis = "organization" \/ files[i].owner = w)

Strays(r, w) == {i \in Associated(r) : ~Stays(i, w)}

TransferOrganizationTemplate(t, w) ==
    LET source == templates[t]
        S == Strays(source, w)
        copy == CopyOf(S)
    IN  /\ Spend("hand")
        /\ w \in members
        /\ source.org /\ source.vis = "organization" /\ ~source.pending
        /\ Snapshot(S, w, TRUE)
        /\ templates' = [templates EXCEPT ![t] =
              [source EXCEPT !.owner = w, !.default = FALSE,
                             !.refs = Rewrite(@, copy), !.media = Rewrite(@, copy)]]
        /\ copied' = With(copied, t, Shown(source.refs, {}))
        /\ born' = born + Cardinality(S)
        /\ UNCHANGED <<folderVars, store, uploads, removals, links, issuing, issued, contested, campaigns>>

-----------------------------------------------------------------------------
(* The steps of MediaFolders and MediaFiles, with what they do here. *)

assetVars == <<templates, campaigns, copied>>

FolderStep(a) ==
    /\ \/ \E parent \in DOMAIN folders \cup {Root}, vis \in Visibilities : CreateFolder(a, parent, vis)
       \/ \E i \in DOMAIN folders :
             \/ \E vis \in Visibilities : RenameFolder(a, i, vis)
             \/ DeleteFolder(a, i, {k \in DOMAIN files : files[k].folder = i})
    /\ UNCHANGED <<storeVars, born, assetVars>>

Move ==
    /\ \/ \E a \in Sessions, i \in DOMAIN folders, parent \in DOMAIN folders \cup {Root} :
             CheckMove(a, i, parent)
       \/ \E m \in moving : MoveFolder(m)
    /\ UNCHANGED <<storeVars, born, assetVars>>

\* The associations of a deleted file keep its name only.
DeleteFile(a, i) ==
    /\ DeleteMedia(a, i)
    /\ templates' = [t \in DOMAIN templates |-> [templates[t] EXCEPT !.media = @ \ {i}]]
    /\ campaigns' = [c \in DOMAIN campaigns |-> [campaigns[c] EXCEPT !.media = @ \ {i}]]
    /\ UNCHANGED <<folderVars, copied>>

FileStep(a) ==
    /\ \/ \E n \in Names, folder \in DOMAIN folders \cup {Root}, vis \in Visibilities :
             StartUpload(a, n, folder, vis)
       \/ \E i \in DOMAIN files, folder \in DOMAIN folders \cup {Root} : MoveMediaToFolder(a, i, folder)
    /\ UNCHANGED <<folderVars, assetVars>>

StoreStep ==
    /\ \/ \E k \in DOMAIN uploads : InsertMedia(k) \/ FailUpload(k)
       \/ \E r \in removals : RemoveObject(r)
       \/ IssueLink
    /\ UNCHANGED <<folderVars, assetVars>>

TemplateStep(a) ==
    \/ \E kind \in {"campaign", "visual"}, vis \in Visibilities, refs \in Authored :
          CreateTemplate(a, kind, vis, refs)
    \/ \E t \in DOMAIN templates :
          \/ \E vis \in Visibilities, refs \in Authored : UpdateTemplate(a, t, vis, refs)
          \/ SetDefault(a, t)
          \/ DeleteTemplate(a, t)
          \/ \E b \in Sessions : CloneTemplate(a, b, t)

CampaignStep(a) ==
    \/ \E t \in DOMAIN templates \cup {None}, refs \in Authored : CreateCampaign(a, t, refs)
    \/ \E c \in DOMAIN campaigns :
          \/ \E t \in DOMAIN templates \cup {None}, refs \in Authored : UpdateCampaign(a, c, t, refs)
          \/ \E t \in DOMAIN templates : ImportVisual(a, c, t)
          \/ StartCampaign(a, c)
          \/ \E b \in Sessions : CloneCampaign(a, b, c)

MemberStep ==
    \/ \E v \in Users : RemoveMember(v) \/ TransferPendingOrganizationResources(v)
    \/ \E t \in DOMAIN templates, w \in Users : TransferOrganizationTemplate(t, w)

SessionStep(a) ==
    \/ FolderStep(a)
    \/ FileStep(a)
    \/ \E i \in DOMAIN files : DeleteFile(a, i)
    \/ TemplateStep(a)
    \/ CampaignStep(a)

Next ==
    \/ Move
    \/ /\ moving = {}
       /\ \/ \E a \in Sessions : SessionStep(a)
          \/ MemberStep
          \/ StoreStep
          \/ \E c \in DOMAIN campaigns : \E i \in DOMAIN files : SendAttachment(c, i)

Spec == Init /\ [][Next]_vars

-----------------------------------------------------------------------------
(* Properties. *)

\* The tree of the organization has no cycle, and everything in a folder is of its
\* workspace, however moves, deletions and departures interleave (the lock that
\* withWorkspaceMediaFoldersMutation takes, media_folders.go:310-322; the checks of
\* 465-523 and 543-545).
LibraryTree ==
    /\ AssetsTypeOK
    /\ \A i \in DOMAIN folders :
          folders[i].parent # Root =>
             /\ folders[i].parent \in DOMAIN folders
             /\ SameWorkspace(folders[i], folders[folders[i].parent])
             /\ folders[i].org => i \notin Ancestors(folders[i].parent)
    /\ \A i \in DOMAIN files :
          files[i].folder # Root =>
             files[i].folder \in DOMAIN folders /\ SameWorkspace(files[i], folders[files[i].folder])

\* A row shows the bytes that were uploaded for it for as long as it exists, whoever
\* deletes copies of it; and the link in a mail shows what its sender attached, and only
\* while the file is still theirs (deleteMediaTx, core/media.go:207-248; linkedMediaAttachment,
\* cmd/email_media.go:36-58). A name that two had at a time is excepted.
FilesKept ==
    /\ \A i \in DOMAIN files :
          files[i].name \notin contested => store[files[i].name] = files[i].content
    /\ \A token \in DOMAIN issued :
          LET was == issued[token]
          IN  Serves(token) =>
                 /\ was.id \in DOMAIN files
                 /\ files[was.id].owner = was.owner /\ files[was.id].org = was.org
                 /\ files[was.id].name \notin contested => store[files[was.id].name] = was.content

\* What a template or a campaign of its own may show.
Own(r, i) == files[i].org = r.org /\ (files[i].owner = r.owner \/ files[i].vis = "organization")

\* A copy depends on nothing of the member it was copied from: until it is edited it shows
\* what the original showed, by files of its own owner, and what it leaves to a template it
\* keeps (comments of workspace_actions.go:107-113, 118-121, and organizations.go:1054-1060).
StandsAlone ==
    \A k \in DOMAIN copied :
        LET r == IF k \in DOMAIN templates THEN templates[k] ELSE campaigns[k]
            live == r.refs \cap DOMAIN files
        IN  /\ \A i \in live \ copied[k].kept : Own(r, i)
            /\ Contents(live) \subseteq copied[k].shows

\* One default for an owner and a workspace; and the campaigns of a deleted template get
\* one that their owner may send, never another member's (core/templates.go:198-201).
DefaultsKept ==
    [][ /\ \A u \in Users, org \in BOOLEAN :
              Cardinality({t \in DOMAIN templates' :
                 templates'[t].default /\ templates'[t].owner = u /\ templates'[t].org = org}) <= 1
        /\ \A c \in DOMAIN campaigns, t \in DOMAIN templates \ DOMAIN templates' :
              campaigns[c].template = t =>
                 campaigns'[c].template = None \/ MayUse(OwnerOf(campaigns[c]), campaigns'[c].template) ]_vars
=============================================================================
