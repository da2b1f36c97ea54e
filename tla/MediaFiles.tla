----------------------------- MODULE MediaFiles -----------------------------
(***************************************************************************)
(* The files of the media library: rows of media, the objects of the       *)
(* store that they name, and the links that mails carry to a file.         *)
(*                                                                         *)
(* Rows are shared by several actors and copies of a row share its object. *)
(* The store is outside the database: an object is written before its row  *)
(* exists and removed after the last row that names it is gone.            *)
(***************************************************************************)
EXTENDS MediaFolders

CONSTANTS
    Names,     \* names of objects
    NoIssue

VARIABLES
    files,      \* media: the rows by their id
    store,      \* the objects of the provider; 0 is none
    uploads,    \* uploads whose object is stored and whose row is not, by the id to come
    removals,   \* objects to remove after the rows that named them
    links,      \* email_media_links, by media_id
    issuing,    \* an attachment that was authorized and read, before its link is stored
    born,       \* ids given out
    issued,     \* history: what a link was issued for, by its token
    contested   \* history: names that two had at a time, see Crowded

storeVars == <<files, store, uploads, removals, links, issuing, issued, contested>>

\* Contents are numbered, by the id of the upload that they came with.
FileRow(n) ==
    [org : BOOLEAN, owner : Users \cup {Nobody}, vis : Visibilities, pending : BOOLEAN,
     folder : Folders \cup {Root}, name : Names, content : 1..n]

\* Files that share an object at the start show the same.
ASSUME MediaFilesAssumption ==
    \A b \in Bounds :
        /\ b.born \in Nat /\ DOMAIN b.files \subseteq 1..b.born
        /\ \A i \in DOMAIN b.files :
              /\ b.files[i] \in FileRow(b.born) /\ b.files[i].owner \in Users /\ ~b.files[i].pending
              /\ b.files[i].folder # Root =>
                    /\ b.files[i].folder \in DOMAIN b.folders
                    /\ SameWorkspace(b.files[i], b.folders[b.files[i].folder])
              /\ \A j \in DOMAIN b.files :
                    b.files[i].name = b.files[j].name => b.files[i].content = b.files[j].content

FilesTypeOK ==
    /\ \A i \in DOMAIN files : files[i] \in FileRow(born)
    /\ store \in [Names -> 0..born]
    /\ \A k \in DOMAIN uploads :
          uploads[k] \in [by : Sessions, name : Names, folder : Folders \cup {Root}, vis : Visibilities]
    /\ removals \subseteq [id : 1..born, name : Names]
    /\ DOMAIN links \subseteq DOMAIN files
    /\ contested \subseteq Names

FilesInit ==
    /\ files = left.files
    /\ store = [n \in Names |->
                  LET here == {i \in DOMAIN files : files[i].name = n}
                  IN  IF here = {} THEN 0 ELSE files[CHOOSE i \in here : TRUE].content]
    /\ born = left.born
    /\ uploads = <<>> /\ links = <<>> /\ issued = <<>>
    /\ removals = {} /\ contested = {}
    /\ issuing = NoIssue

-----------------------------------------------------------------------------
(* Uploads. *)

\* The check of the name sees rows only: another upload that has stored its object, or
\* a removal that is late, may have the same name.
Crowded(n) == (\E k \in DOMAIN uploads : uploads[k].name = n) \/ (\E r \in removals : r.name = n)

\* UploadMedia up to the object: a name that no row has, where Put overwrites.
StartUpload(a, n, folder, vis) ==
    /\ Spend("upload")
    /\ Works(a) /\ Allowed(a, vis) /\ vis # "global"
    /\ folder # Root => folder \in DOMAIN folders /\ Readable(a, folder)
    /\ \A i \in DOMAIN files : files[i].name # n
    /\ born' = born + 1
    /\ store' = [store EXCEPT ![n] = born']
    /\ uploads' = With(uploads, born', [by |-> a, name |-> n, folder |-> folder, vis |-> vis])
    /\ contested' = IF Crowded(n) THEN contested \cup {n} ELSE contested
    /\ UNCHANGED <<files, removals, links, issuing, issued>>

InsertMedia(k) ==
    LET sent == uploads[k]
        row == [org |-> sent.by.org, owner |-> sent.by.user, vis |-> sent.vis, pending |-> FALSE,
                folder |-> sent.folder, name |-> sent.name, content |-> k]
    IN  /\ Works(sent.by)
        /\ sent.folder # Root => Opens(sent.by, sent.folder) /\ SameWorkspace(row, folders[sent.folder])
        /\ files' = With(files, k, row)
        /\ uploads' = Without(uploads, {k})
        /\ UNCHANGED <<store, removals, links, issuing, born, issued, contested, left>>

\* The thumbnail or the row cannot be made: the object is removed again.
FailUpload(k) ==
    /\ store' = [store EXCEPT ![uploads[k].name] = 0]
    /\ uploads' = Without(uploads, {k})
    /\ UNCHANGED <<files, removals, links, issuing, born, issued, contested, left>>

-----------------------------------------------------------------------------
(* Rows. *)

Manages(a, r) == Works(a) /\ ~r.pending /\ r.org = a.org /\ r.owner = a.user

\* Mutant of Unreferenced: the row itself is counted out wrongly, one more is ignored.
UnreferencedButOne(i) ==
    Cardinality({j \in DOMAIN files \ {i} : files[j].name = files[i].name}) <= 1

\* No other row names the object of the file.
Unreferenced(i) == \A j \in DOMAIN files \ {i} : files[j].name # files[i].name

\* The transaction of DeleteMedia; the attachments of the file go with it.
DeleteMedia(a, i) ==
    /\ Spend("delete")
    /\ Manages(a, files[i])
    /\ files' = Without(files, {i})
    /\ links' = Without(links, {i})
    /\ removals' = IF Unreferenced(i) THEN removals \cup {[id |-> i, name |-> files[i].name]} ELSE removals
    /\ UNCHANGED <<store, uploads, issuing, born, issued, contested>>

\* Its end. The provider may fail: the object stays behind.
RemoveObject(r) ==
    /\ store' \in {store, [store EXCEPT ![r.name] = 0]}
    /\ removals' = removals \ {r}
    /\ UNCHANGED <<files, uploads, links, issuing, born, issued, contested, left>>

MoveMediaToFolder(a, i, folder) ==
    /\ Spend("file")
    /\ Manages(a, files[i])
    /\ folder # Root => Opens(a, folder) /\ SameWorkspace(files[i], folders[folder])
    /\ files' = [files EXCEPT ![i].folder = folder]
    /\ UNCHANGED <<store, uploads, removals, links, issuing, born, issued, contested>>

-----------------------------------------------------------------------------
(* Copies: every file of S gets a row of the new owner's own. *)

CopyOf(S) == [i \in S |-> born + Cardinality({j \in S : j <= i})]

Copied(S, owner, org) ==
    LET copy == CopyOf(S)
    IN  [k \in {copy[i] : i \in S} |->
            LET i == CHOOSE j \in S : copy[j] = k
            IN  [files[i] EXCEPT !.owner = owner, !.org = org, !.vis = "private",
                                 !.pending = FALSE, !.folder = Root]]

-----------------------------------------------------------------------------
(* Links in mails. *)

\* The bytes are read after the file was authorized for a campaign; without an object
\* there is no attachment.
ReadAttachment(i) ==
    /\ Spend("link")
    /\ issuing = NoIssue
    /\ store[files[i].name] # 0
    /\ issuing' = [id |-> i, owner |-> files[i].owner, org |-> files[i].org,
                   content |-> store[files[i].name]]
    /\ UNCHANGED <<files, store, uploads, removals, links, born, issued, contested>>

StillThere(q) ==
    /\ q.id \in DOMAIN files
    /\ ~files[q.id].pending /\ files[q.id].owner = q.owner /\ files[q.id].org = q.org

\* The token that was given out before is kept while the file is the same owner's.
KeepsToken(q) ==
    q.id \in DOMAIN links /\ links[q.id].owner = q.owner /\ links[q.id].org = q.org

IssueLink ==
    /\ issuing # NoIssue
    /\ LET q == issuing
           token == IF KeepsToken(q) THEN links[q.id].token ELSE Cardinality(DOMAIN issued) + 1
           link == [token |-> token, owner |-> q.owner, org |-> q.org]
       IN  IF StillThere(q)
           THEN /\ links' = With(links, q.id, link)
                /\ issued' = IF KeepsToken(q) THEN issued ELSE With(issued, token, q)
           ELSE UNCHANGED <<links, issued>>
    /\ issuing' = NoIssue
    /\ UNCHANGED <<files, store, uploads, removals, born, contested, left>>

\* What ServeEmailMedia asks of a token before it streams the object.
Serves(token) ==
    \E i \in DOMAIN links :
        /\ links[i].token = token
        /\ ~files[i].pending /\ files[i].owner = links[i].owner /\ files[i].org = links[i].org
=============================================================================
