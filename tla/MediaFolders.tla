---------------------------- MODULE MediaFolders ----------------------------
(***************************************************************************)
(* The folders of the media library: the tree, who reads a folder and who  *)
(* may change it, and moves whose check and write are apart.               *)
(*                                                                         *)
(* One organization and the personal workspace of every user. A session is *)
(* a user with the workspace they selected. A transaction in the           *)
(* organization holds the lock of its row and is one step; personal ones   *)
(* lock only the folders they name. Between the check and the write of a   *)
(* move only other moves are steps: in the organization they wait for its  *)
(* lock, and in a personal workspace every folder is its owner's, so that  *)
(* nothing else depends on where a folder is.                              *)
(***************************************************************************)
EXTENDS Integers, FiniteSets

CONSTANTS
    Users,
    Managers,    \* managers of the organization, who do not leave it here
    Nobody,
    Root,        \* no folder
    Folders,     \* bound: how many folders there may be at once
    Bounds       \* bound: operations of each kind, and the rows there are at the start

VARIABLES
    members,    \* organization_members
    folders,    \* media_folders: the rows by their id
    moving,     \* moves that were checked and are yet to be written
    left        \* operations left of the instance's bound

folderVars == <<members, folders, moving>>

Sessions == [user : Users, org : BOOLEAN]
Visibilities == {"private", "organization", "global"}

FolderRow == [org : BOOLEAN, owner : Users, vis : Visibilities, parent : Folders \cup {Root}]

\* A row in the selected workspace; two rows of one workspace.
InWorkspace(a, r) == r.org = a.org /\ (a.org \/ r.owner = a.user)
SameWorkspace(q, r) == q.org = r.org /\ (q.org \/ q.owner = r.owner)

\* The folders at the start are a tree in each workspace: their depth can be counted.
ASSUME MediaFoldersAssumption ==
    /\ Managers \subseteq Users /\ Nobody \notin Users /\ IsFiniteSet(Folders) /\ Root \notin Folders
    /\ \A b \in Bounds :
          /\ DOMAIN b.folders \subseteq Folders
          /\ \A i \in DOMAIN b.folders :
                /\ b.folders[i] \in FolderRow
                /\ b.folders[i].parent # Root =>
                      /\ b.folders[i].parent \in DOMAIN b.folders
                      /\ SameWorkspace(b.folders[i], b.folders[b.folders[i].parent])
          /\ \E depth \in [DOMAIN b.folders -> 0..Cardinality(Folders)] :
                \A i \in DOMAIN b.folders :
                    b.folders[i].parent # Root => depth[b.folders[i].parent] < depth[i]

FoldersTypeOK ==
    /\ Managers \subseteq members /\ members \subseteq Users
    /\ DOMAIN folders \subseteq Folders
    /\ \A i \in DOMAIN folders : folders[i] \in FolderRow
    /\ moving \subseteq [by : Sessions, folder : Folders, parent : Folders \cup {Root}]

FoldersInit ==
    /\ left \in Bounds
    /\ members = Users
    /\ folders = left.folders
    /\ moving = {}

\* Rows of a table: one more, or those of g that f has not.
With(f, k, v) == [x \in DOMAIN f \cup {k} |-> IF x = k THEN v ELSE f[x]]
Joined(f, g) == [x \in DOMAIN f \cup DOMAIN g |-> IF x \in DOMAIN f THEN f[x] ELSE g[x]]
Without(f, S) == [x \in DOMAIN f \ S |-> f[x]]

Spend(kind) == left[kind] > 0 /\ left' = [left EXCEPT ![kind] = @ - 1]

-----------------------------------------------------------------------------
(* Workspaces. *)

\* The membership is checked again under the lock.
Works(a) == a.org => a.user \in members

-----------------------------------------------------------------------------
(* The tree. *)

\* With a folder its parent.
Upward(S) == \A j \in S : folders[j].parent \in S \cup {Root}

\* The folder and those above it: the least set with the folder that is closed upwards, as
\* a recursive query that drops duplicates finds it, on a cycle too.
Ancestors(i) ==
    {j \in DOMAIN folders : \A S \in SUBSET DOMAIN folders : i \in S /\ Upward(S) => j \in S}

\* Every ancestor must be readable.
Readable(a, i) ==
    \A j \in Ancestors(i) :
        \/ folders[j].vis = "global"
        \/ /\ InWorkspace(a, folders[j])
           /\ folders[j].vis = "organization" \/ folders[j].owner = a.user

\* A folder a session may put something in.
Opens(a, i) == i \in DOMAIN folders /\ InWorkspace(a, folders[i]) /\ Readable(a, i)

ManagesFolder(a, i) ==
    Works(a) /\ i \in DOMAIN folders /\ InWorkspace(a, folders[i]) /\ folders[i].owner = a.user

Allowed(a, vis) == vis = "organization" => a.org

-----------------------------------------------------------------------------
(* Operations. *)

CreateFolder(a, parent, vis) ==
    /\ Spend("folder")
    /\ Works(a) /\ Allowed(a, vis)
    /\ parent # Root => Opens(a, parent)
    /\ DOMAIN folders # Folders
    /\ LET i == CHOOSE j \in Folders : j \notin DOMAIN folders
           row == [org |-> a.org, owner |-> a.user, vis |-> vis, parent |-> parent]
       IN  folders' = With(folders, i, row)
    /\ UNCHANGED <<members, moving>>

\* A rename that carries a visibility.
RenameFolder(a, i, vis) ==
    /\ Spend("share")
    /\ ManagesFolder(a, i) /\ Allowed(a, vis)
    /\ folders' = [folders EXCEPT ![i].vis = vis]
    /\ UNCHANGED <<members, moving>>

\* Contents: the media of the folder, counted whoever owns them.
DeleteFolder(a, i, contents) ==
    /\ Spend("prune")
    /\ ManagesFolder(a, i)
    /\ contents = {} /\ \A j \in DOMAIN folders : folders[j].parent # i
    /\ folders' = Without(folders, {i})
    /\ UNCHANGED <<members, moving>>

\* Mutant of Unlocked: the row of the organization is not locked.
UnlockedWithoutOrganization(a, i, parent) ==
    \A m \in moving : {m.folder, m.parent} \cap {i, parent} \subseteq {Root}

\* No other move holds the organization or one of the folders.
Unlocked(a, i, parent) ==
    \A m \in moving : ~(m.by.org /\ a.org) /\ {m.folder, m.parent} \cap {i, parent} \subseteq {Root}

\* The checks of a move, under the locks it keeps until it is written.
CheckMove(a, i, parent) ==
    /\ Spend("move")
    /\ ManagesFolder(a, i) /\ Unlocked(a, i, parent)
    /\ i # parent
    /\ parent # Root =>
          Opens(a, parent) /\ SameWorkspace(folders[i], folders[parent]) /\ i \notin Ancestors(parent)
    /\ moving' = moving \cup {[by |-> a, folder |-> i, parent |-> parent]}
    /\ UNCHANGED <<members, folders>>

MoveFolder(m) ==
    /\ folders' = [folders EXCEPT ![m.folder].parent = m.parent]
    /\ moving' = moving \ {m}
    /\ UNCHANGED <<members, left>>
=============================================================================
