---------------------------- MODULE AssetsProofs ----------------------------
(***************************************************************************)
(* Folders, files, templates and campaigns. No folder is above itself, as  *)
(* what a move checked still holds when it is written; a name is that of   *)
(* one upload, one removal or files that share an object; a link carries   *)
(* what it was issued for; and a copy shows its own files.                 *)
(***************************************************************************)
EXTENDS Assets, FiniteSetTheorems, WellFoundedInduction, TLAPS

-----------------------------------------------------------------------------
(* The invariant. *)

\* With a folder its parent, and the folders above i, in the rows f.
UpwardIn(f, S) == \A j \in S : f[j].parent \in S \cup {Root}
Above(f, i) == {j \in DOMAIN f : \A S \in SUBSET DOMAIN f : i \in S /\ UpwardIn(f, S) => j \in S}

\* Parents are rows of the same workspace, and in the organization no folder is above itself.
ParentsFit(f) ==
    \A i \in DOMAIN f :
        f[i].parent # Root => f[i].parent \in DOMAIN f /\ SameWorkspace(f[i], f[f[i].parent])
Acyclic(f) ==
    \A i \in DOMAIN f : f[i].org /\ f[i].parent # Root => i \notin Above(f, f[i].parent)

\* What was checked of a move still holds when it is written, and the organization is moved
\* in by one at a time.
MoveFits(f, mv) ==
    /\ mv.folder \in DOMAIN f /\ InWorkspace(mv.by, f[mv.folder])
    /\ mv.parent # Root =>
          /\ mv.parent \in DOMAIN f /\ SameWorkspace(f[mv.folder], f[mv.parent])
          /\ mv.by.org => mv.folder \notin Above(f, mv.parent)

FoldersFit ==
    /\ FoldersTypeOK
    /\ ParentsFit(folders) /\ Acyclic(folders)
    /\ \A mv \in moving : MoveFits(folders, mv)
    /\ \A mv, nv \in moving : mv.by.org /\ nv.by.org => mv = nv

FiledFit ==
    \A i \in DOMAIN files :
        files[i].folder # Root =>
           files[i].folder \in DOMAIN folders /\ SameWorkspace(files[i], folders[files[i].folder])

\* Who has no owner awaits one, in the organization.
Awaits(r) == (r.pending <=> r.owner = Nobody) /\ (r.pending => r.org)

\* A body names no file that is yet to come, and the files of a template that exist are
\* associated with it.
FileFits(r) == r \in FileRow(born) /\ Awaits(r)
TemplateFits(r) ==
    /\ r \in TemplateRow(born, DOMAIN files) /\ Awaits(r)
    /\ r.refs \cap DOMAIN uploads = {}
    /\ r.refs \cap DOMAIN files \subseteq r.media
CampaignFits(r) ==
    /\ r \in CampaignRow(born, DOMAIN files, DOMAIN templates) /\ Awaits(r)
    /\ r.refs \cap DOMAIN uploads = {}

\* Ids are given out once.
IdsFit ==
    /\ born \in Nat
    /\ DOMAIN files \subseteq 1..born /\ DOMAIN uploads \subseteq 1..born /\ DOMAIN files \cap DOMAIN uploads = {}
    /\ DOMAIN templates \subseteq 1..born /\ DOMAIN campaigns \subseteq 1..born
    /\ DOMAIN templates \cap DOMAIN campaigns = {}

RowsFit ==
    /\ \A i \in DOMAIN files : FileFits(files[i])
    /\ \A t \in DOMAIN templates : TemplateFits(templates[t])
    /\ \A c \in DOMAIN campaigns : CampaignFits(campaigns[c])

\* A name that two never had at a time is that of one upload, or one removal, or of files
\* that share its object.
NamesFit ==
    /\ \A i \in DOMAIN files : files[i].name \notin contested => store[files[i].name] = files[i].content
    /\ \A k \in DOMAIN uploads : uploads[k].name \notin contested =>
          /\ store[uploads[k].name] = k
          /\ \A i \in DOMAIN files : files[i].name # uploads[k].name
          /\ \A j \in DOMAIN uploads \ {k} : uploads[j].name # uploads[k].name
          /\ \A r \in removals : r.name # uploads[k].name
    /\ \A r \in removals : r.name \notin contested => \A i \in DOMAIN files : files[i].name # r.name

StoreFits ==
    /\ store \in [Names -> 0..born]
    /\ \A k \in DOMAIN uploads :
          uploads[k] \in [by : Sessions, name : Names, folder : Folders \cup {Root}, vis : Visibilities]
    /\ removals \subseteq [id : 1..born, name : Names]
    /\ contested \subseteq Names
    /\ NamesFit

\* What was read of the file i, if it is there.
Was(q, i) == i \in DOMAIN files => files[i].name \in contested \/ q.content = files[i].content

LinksFit ==
    /\ \E n \in Nat : DOMAIN issued = 1..n
    /\ DOMAIN links \subseteq DOMAIN files
    /\ \A i \in DOMAIN links :
          LET q == issued[links[i].token]
          IN  /\ links[i].token \in DOMAIN issued
              /\ q.id = i /\ q.owner = links[i].owner /\ q.org = links[i].org
              /\ Was(q, i)
    /\ issuing # NoIssue => issuing.id \in (1..born) \ DOMAIN uploads /\ Was(issuing, issuing.id)

\* The row that was copied shows what it is to show, by files of its own but for those it
\* left to a template.
CopyAt(k) == IF k \in DOMAIN templates THEN templates[k] ELSE campaigns[k]
Alone(r, c) ==
    /\ \A i \in (r.refs \cap DOMAIN files) \ c.kept : Own(r, i)
    /\ Contents(r.refs \cap DOMAIN files) \subseteq c.shows

CopiesFit ==
    /\ DOMAIN copied \subseteq DOMAIN templates \cup DOMAIN campaigns
    /\ \A k \in DOMAIN copied : Alone(CopyAt(k), copied[k])

OneDefault ==
    \A s, t \in DOMAIN templates :
        /\ templates[s].default /\ templates[t].default
        /\ templates[s].owner = templates[t].owner /\ templates[s].org = templates[t].org
        /\ templates[s].owner # Nobody
        => s = t

AssetsInv ==
    /\ FoldersFit /\ FiledFit
    /\ IdsFit /\ RowsFit
    /\ StoreFits /\ LinksFit
    /\ CopiesFit
    /\ OneDefault

-----------------------------------------------------------------------------
(* The folders above a folder. *)

LEMMA AncestorsAbove ==
    /\ \A i : Ancestors(i) = Above(folders, i)
    /\ \A i : Ancestors(i)' = Above(folders', i)
  BY DEF Ancestors, Upward, Above, UpwardIn

\* A set that is closed upwards and has a folder has those above it.
LEMMA AboveLeast ==
    ASSUME NEW f, NEW i, NEW S \in SUBSET DOMAIN f, i \in S, UpwardIn(f, S)
    PROVE  Above(f, i) \subseteq S
  BY DEF Above

\* They are such a set, if parents exist.
LEMMA AboveFacts ==
    ASSUME NEW f, NEW i \in DOMAIN f, ParentsFit(f)
    PROVE  i \in Above(f, i) /\ Above(f, i) \subseteq DOMAIN f /\ UpwardIn(f, Above(f, i))
<1>1. i \in Above(f, i) /\ Above(f, i) \subseteq DOMAIN f
  BY DEF Above
<1>2. ASSUME NEW j \in Above(f, i), f[j].parent # Root
      PROVE  f[j].parent \in Above(f, i)
  <2>1. f[j].parent \in DOMAIN f
    BY <1>2 DEF Above, ParentsFit
  <2>2. ASSUME NEW S \in SUBSET DOMAIN f, i \in S, UpwardIn(f, S)
        PROVE  f[j].parent \in S
    <3>1. j \in S
      BY <2>2 DEF Above
    <3> QED
      BY <1>2, <2>2, <3>1 DEF UpwardIn
  <2> QED
    BY <2>1, <2>2 DEF Above
<1> QED
  BY <1>1, <1>2 DEF UpwardIn

\* The folders above one of the organization are the organization's.
LEMMA AboveInOrg ==
    ASSUME NEW f, NEW i \in DOMAIN f, ParentsFit(f), f[i].org, \A j \in DOMAIN f : f[j].org \in BOOLEAN
    PROVE  \A j \in Above(f, i) : f[j].org
<1> DEFINE S == {j \in DOMAIN f : f[j].org}
<1>1. UpwardIn(f, S)
  BY DEF UpwardIn, ParentsFit, SameWorkspace
<1>2. Above(f, i) \subseteq S
  BY <1>1, AboveLeast
<1> QED
  BY <1>2

\* What is above a folder stays so, while what is above it moves nowhere.
LEMMA AboveStill ==
    ASSUME NEW f, NEW g, NEW i \in DOMAIN f, ParentsFit(f),
           \A j \in Above(f, i) : j \in DOMAIN g /\ g[j].parent = f[j].parent
    PROVE  Above(g, i) \subseteq Above(f, i)
<1>1. UpwardIn(g, Above(f, i)) /\ Above(f, i) \in SUBSET DOMAIN g
  BY AboveFacts DEF UpwardIn
<1> QED
  BY <1>1, AboveFacts, AboveLeast

\* Rows that stay where they are, beside rows that come and rows above nothing that go.
LEMMA TreeStill ==
    ASSUME NEW f, NEW g, ParentsFit(f), ParentsFit(g), Acyclic(f),
           \A j \in DOMAIN f \cap DOMAIN g : g[j].parent = f[j].parent /\ g[j].org = f[j].org,
           \A j \in DOMAIN g : g[j].parent # Root => g[j].parent \in DOMAIN f,
           \A j \in DOMAIN f \ DOMAIN g : \A i \in DOMAIN f : f[i].parent # j
    PROVE  Acyclic(g)
<1> SUFFICES ASSUME NEW i \in DOMAIN g, g[i].org, g[i].parent # Root
             PROVE  i \notin Above(g, g[i].parent)
  BY DEF Acyclic
<1>1. PICK p \in DOMAIN f \cap DOMAIN g : p = g[i].parent
  BY DEF ParentsFit
<1> DEFINE S == Above(f, p) \cap DOMAIN g
<1>2. UpwardIn(g, S)
  <2> SUFFICES ASSUME NEW j \in S, g[j].parent # Root PROVE g[j].parent \in S
    BY DEF UpwardIn
  <2>1. j \in DOMAIN f /\ g[j].parent = f[j].parent
    BY DEF Above
  <2>2. g[j].parent \in Above(f, p)
    BY <2>1, AboveFacts DEF UpwardIn
  <2>3. g[j].parent \in DOMAIN g
    BY DEF ParentsFit
  <2> QED
    BY <2>2, <2>3
<1>3. p \in S
  BY AboveFacts
<1>4. Above(g, p) \subseteq S
  BY <1>2, <1>3, AboveLeast
<1>5. i \notin Above(f, p)
  <2>1. CASE i \in DOMAIN f
    BY <1>1, <2>1 DEF Acyclic
  <2>2. CASE i \notin DOMAIN f
    BY <1>1, <2>2, AboveFacts
  <2> QED
    BY <2>1, <2>2
<1> QED
  BY <1>1, <1>4, <1>5

\* A folder of the organization goes below one that is not below it.
LEMMA TreeMove ==
    ASSUME NEW f, NEW x \in DOMAIN f, NEW p, NEW g,
           ParentsFit(f), Acyclic(f), \A j \in DOMAIN f : f[j].org \in BOOLEAN,
           DOMAIN g = DOMAIN f, \A j \in DOMAIN f : g[j].org = f[j].org /\ g[j].owner = f[j].owner,
           g[x].parent = p, \A j \in DOMAIN f \ {x} : g[j].parent = f[j].parent,
           p # Root => p \in DOMAIN f /\ SameWorkspace(f[x], f[p]) /\ (f[x].org => x \notin Above(f, p))
    PROVE  ParentsFit(g) /\ Acyclic(g)
<1>1. ParentsFit(g)
  BY DEF ParentsFit, SameWorkspace
<1>2. ASSUME NEW i \in DOMAIN g, g[i].org, g[i].parent # Root
      PROVE  i \notin Above(g, g[i].parent)
  <2>1. CASE i = x
    <3>1. p \in DOMAIN f /\ x \notin Above(f, p)
      BY <1>2, <2>1
    <3>2. Above(g, p) \subseteq Above(f, p)
      BY <3>1, AboveStill, AboveFacts
    <3> QED
      BY <2>1, <3>1, <3>2
  <2>2. CASE i # x
    <3>1. PICK q \in DOMAIN f : q = f[i].parent /\ q = g[i].parent /\ f[q].org
      BY <1>2, <2>2 DEF ParentsFit, SameWorkspace
    <3>2. i \notin Above(f, q)
      BY <1>2, <2>2, <3>1 DEF Acyclic
    <3>3. CASE x \notin Above(f, q)
      <4>1. Above(g, q) \subseteq Above(f, q)
        BY <3>1, <3>3, AboveStill, AboveFacts
      <4> QED
        BY <3>1, <3>2, <4>1
    <3>4. CASE x \in Above(f, q) /\ p = Root
      <4>1. UpwardIn(g, Above(f, q)) /\ q \in Above(f, q) /\ Above(f, q) \in SUBSET DOMAIN g
        BY <3>1, <3>4, AboveFacts DEF UpwardIn
      <4>2. Above(g, q) \subseteq Above(f, q)
        BY <4>1, AboveLeast
      <4> QED
        BY <3>1, <3>2, <4>2
    <3>5. CASE x \in Above(f, q) /\ p # Root
      <4>1. f[x].org
        BY <3>1, <3>5, AboveInOrg
      <4>2. p \in DOMAIN f /\ x \notin Above(f, p)
        BY <3>5, <4>1
      <4> DEFINE S == Above(f, q) \cup Above(f, p)
      <4>3. UpwardIn(f, Above(f, q)) /\ UpwardIn(f, Above(f, p)) /\ q \in Above(f, q) /\ p \in Above(f, p)
            /\ S \in SUBSET DOMAIN f
        BY <3>1, <4>2, AboveFacts
      <4>4. UpwardIn(g, S)
        BY <4>3 DEF UpwardIn
      <4>5. Above(g, q) \subseteq S
        BY <4>3, <4>4, AboveLeast
      <4>6. i \notin Above(f, p)
        <5> SUFFICES ASSUME i \in Above(f, p) PROVE FALSE
          OBVIOUS
        <5>1. q \in Above(f, p)
          BY <3>1, <4>3, <1>2 DEF UpwardIn
        <5>2. Above(f, q) \subseteq Above(f, p)
          BY <4>2, <4>3, <5>1, AboveLeast, AboveFacts
        <5> QED
          BY <3>5, <4>2, <5>2
      <4> QED
        BY <3>1, <3>2, <4>5, <4>6
    <3> QED
      BY <3>3, <3>4, <3>5
  <2> QED
    BY <2>1, <2>2
<1> QED
  BY <1>1, <1>2 DEF Acyclic

-----------------------------------------------------------------------------
(* Copies of files. *)

CopyRow(r, owner, org) ==
    [r EXCEPT !.owner = owner, !.org = org, !.vis = "private", !.pending = FALSE, !.folder = Root]

CopyIds(c) == {c[i] : i \in DOMAIN c}

LEMMA CopyFacts ==
    ASSUME IdsFit, NEW S \in SUBSET DOMAIN files
    PROVE  /\ IsFiniteSet(S) /\ Cardinality(S) \in Nat
           /\ DOMAIN CopyOf(S) = S
           /\ \A i \in S : CopyOf(S)[i] \in (born + 1)..(born + Cardinality(S))
           /\ \A i, j \in S : CopyOf(S)[i] = CopyOf(S)[j] => i = j
<1>1. S \subseteq 1..born /\ born \in Nat
  BY DEF IdsFit
<1>2. IsFiniteSet(1..born)
  BY <1>1, FS_Interval
<1>3. IsFiniteSet(S) /\ Cardinality(S) \in Nat
  BY <1>1, <1>2, FS_Subset, FS_CardinalityType
<1> DEFINE U(i) == {j \in S : j <= i}
<1>4. ASSUME NEW i \in S
      PROVE  /\ U(i) \in SUBSET S /\ IsFiniteSet(U(i)) /\ Cardinality(U(i)) \in Nat
             /\ Cardinality(U(i)) <= Cardinality(S) /\ Cardinality(U(i)) # 0
  <2>1. U(i) \in SUBSET S /\ i \in U(i)
    BY <1>1
  <2>2. IsFiniteSet(U(i)) /\ Cardinality(U(i)) <= Cardinality(S)
    BY <1>3, <2>1, FS_Subset
  <2>3. Cardinality(U(i)) \in Nat /\ Cardinality(U(i)) # 0
    BY <2>1, <2>2, FS_CardinalityType, FS_EmptySet
  <2> QED
    BY <2>1, <2>2, <2>3
<1>5. ASSUME NEW i \in S, NEW j \in S, i < j PROVE Cardinality(U(i)) # Cardinality(U(j))
  <2>1. U(i) \in SUBSET U(j) /\ j \in U(j) /\ j \notin U(i)
    BY <1>1, <1>5
  <2>2. IsFiniteSet(U(j))
    BY <1>4
  <2> QED
    BY <2>1, <2>2, FS_Subset
<1>6. \A i \in S : CopyOf(S)[i] = born + Cardinality(U(i))
  BY DEF CopyOf
<1>7. DOMAIN CopyOf(S) = S
  BY DEF CopyOf
<1> HIDE DEF U
<1>8. \A i \in S : CopyOf(S)[i] \in (born + 1)..(born + Cardinality(S))
  BY <1>1, <1>3, <1>4, <1>6
<1>9. ASSUME NEW i \in S, NEW j \in S, CopyOf(S)[i] = CopyOf(S)[j] PROVE i = j
  <2>1. Cardinality(U(i)) = Cardinality(U(j))
    BY <1>1, <1>4, <1>6, <1>9
  <2>2. ~(i < j) /\ ~(j < i)
    BY <1>5, <2>1
  <2>3. i \in Int /\ j \in Int
    BY <1>1
  <2> QED
    BY <2>2, <2>3
<1> QED
  BY <1>3, <1>7, <1>8, <1>9

LEMMA CopiedFacts ==
    ASSUME IdsFit, NEW S \in SUBSET DOMAIN files, NEW owner, NEW org
    PROVE  /\ DOMAIN Copied(S, owner, org) = CopyIds(CopyOf(S))
           /\ \A i \in S : Copied(S, owner, org)[CopyOf(S)[i]] = CopyRow(files[i], owner, org)
<1>1. PICK c : c = CopyOf(S)
  OBVIOUS
<1>2. \A i, j \in S : c[i] = c[j] => i = j
  BY <1>1, CopyFacts
<1>3. Copied(S, owner, org) = [k \in {c[i] : i \in S} |-> CopyRow(files[CHOOSE j \in S : c[j] = k], owner, org)]
  BY <1>1 DEF Copied, CopyRow
<1>4. \A i \in S : (CHOOSE j \in S : c[j] = c[i]) = i
  BY <1>2
<1>5. PICK f : f = Copied(S, owner, org)
  OBVIOUS
<1>6. DOMAIN f = CopyIds(c)
  BY <1>1, <1>3, <1>5, CopyFacts DEF CopyIds
<1>7. \A i \in S : f[c[i]] = CopyRow(files[i], owner, org)
  BY <1>3, <1>4, <1>5
<1> QED
  BY <1>1, <1>5, <1>6, <1>7

\* The rows of files go on, some without their owner, and the files of c get copies.
SameFile(r, q) ==
    q.name = r.name /\ q.content = r.content /\ q.folder = r.folder /\ q.vis = r.vis /\ q.org = r.org
FilesGrow(c, owner, org) ==
    /\ born' \in Nat /\ born <= born'
    /\ DOMAIN c \subseteq DOMAIN files
    /\ \A i \in DOMAIN c : c[i] \in (born + 1)..born'
    /\ \A i, j \in DOMAIN c : c[i] = c[j] => i = j
    /\ DOMAIN files' = DOMAIN files \cup {c[i] : i \in DOMAIN c}
    /\ \A i \in DOMAIN files : SameFile(files[i], files'[i])
    /\ \A i \in DOMAIN c : files'[c[i]] = CopyRow(files[i], owner, org)

LEMMA CopiesGrow ==
    ASSUME IdsFit, NEW S \in SUBSET DOMAIN files, NEW owner, NEW org,
           NEW g, DOMAIN g = DOMAIN files, \A i \in DOMAIN files : SameFile(files[i], g[i]),
           files' = Joined(g, Copied(S, owner, org)),
           NEW n \in Nat, born' = born + Cardinality(S) + n
    PROVE  FilesGrow(CopyOf(S), owner, org) /\ \A i \in DOMAIN files : files'[i] = g[i]
<1>1. PICK c : c = CopyOf(S)
  OBVIOUS
<1>2. /\ Cardinality(S) \in Nat /\ DOMAIN c = S
      /\ \A i \in S : c[i] \in (born + 1)..(born + Cardinality(S))
      /\ \A i, j \in S : c[i] = c[j] => i = j
  BY <1>1, CopyFacts
<1>3. PICK f : f = Copied(S, owner, org)
  OBVIOUS
<1>4. DOMAIN f = {c[i] : i \in S} /\ \A i \in S : f[c[i]] = CopyRow(files[i], owner, org)
  <2>1. /\ DOMAIN Copied(S, owner, org) = CopyIds(CopyOf(S))
        /\ \A i \in S : Copied(S, owner, org)[CopyOf(S)[i]] = CopyRow(files[i], owner, org)
    BY CopiedFacts
  <2> QED
    BY <1>1, <1>2, <1>3, <2>1 DEF CopyIds
<1>5. files' = [x \in DOMAIN files \cup DOMAIN f |-> IF x \in DOMAIN files THEN g[x] ELSE f[x]]
  BY <1>3 DEF Joined
<1>6. born' \in Nat /\ born <= born' /\ \A i \in S : c[i] \in (born + 1)..born' /\ c[i] \notin DOMAIN files
  BY <1>2 DEF IdsFit
<1>7. \A i \in DOMAIN files : files'[i] = g[i]
  BY <1>5
<1>8. DOMAIN files' = DOMAIN files \cup {c[i] : i \in DOMAIN c}
  BY <1>2, <1>4, <1>5
<1>9. \A i \in S : files'[c[i]] = CopyRow(files[i], owner, org)
  BY <1>4, <1>5, <1>6
<1> QED
  BY <1>1, <1>2, <1>6, <1>7, <1>8, <1>9 DEF FilesGrow

LEMMA SnapshotGrows ==
    ASSUME IdsFit, NEW S \in SUBSET DOMAIN files, NEW owner, NEW org, Snapshot(S, owner, org),
           NEW n \in Nat, born' = born + Cardinality(S) + n
    PROVE  FilesGrow(CopyOf(S), owner, org) /\ \A i \in DOMAIN files : files'[i] = files[i]
  BY CopiesGrow DEF Snapshot, SameFile

\* What a body names that was copied.
LEMMA RewriteFacts ==
    ASSUME IdsFit, NEW c, NEW owner, NEW org, FilesGrow(c, owner, org),
           NEW refs \in SUBSET (1..born), NEW media \in SUBSET DOMAIN files,
           refs \cap DOMAIN uploads = {}
    PROVE  /\ Rewrite(refs, c) \in SUBSET (1..born') /\ Rewrite(refs, c) \cap DOMAIN uploads = {}
           /\ Rewrite(media, c) \in SUBSET DOMAIN files'
           /\ refs \cap DOMAIN files \subseteq media =>
                 Rewrite(refs, c) \cap DOMAIN files' \subseteq Rewrite(media, c)
<1>1. /\ born \in Nat /\ born' \in Nat /\ born <= born' /\ DOMAIN files \subseteq 1..born /\ DOMAIN uploads \subseteq 1..born
      /\ \A i \in DOMAIN c : c[i] \in (born + 1)..born' /\ i \in DOMAIN files
      /\ DOMAIN files' = DOMAIN files \cup {c[i] : i \in DOMAIN c}
  BY DEF IdsFit, FilesGrow
<1>2. Rewrite(refs, c) \in SUBSET (1..born') /\ Rewrite(refs, c) \cap DOMAIN uploads = {}
  <2> SUFFICES ASSUME NEW i \in refs PROVE LET e == IF i \in DOMAIN c THEN c[i] ELSE i
                                           IN  e \in 1..born' /\ e \notin DOMAIN uploads
    BY DEF Rewrite
  <2>1. CASE i \in DOMAIN c
    BY <1>1, <2>1
  <2>2. CASE i \notin DOMAIN c
    BY <1>1, <2>2
  <2> QED
    BY <2>1, <2>2
<1>3. Rewrite(media, c) \in SUBSET DOMAIN files'
  BY <1>1 DEF Rewrite
<1>4. ASSUME refs \cap DOMAIN files \subseteq media, NEW e \in Rewrite(refs, c) \cap DOMAIN files'
      PROVE  e \in Rewrite(media, c)
  <2>1. PICK i \in refs : e = IF i \in DOMAIN c THEN c[i] ELSE i
    BY <1>4 DEF Rewrite
  <2>2. i \in DOMAIN files
    BY <1>1, <1>4, <2>1
  <2> QED
    BY <1>4, <2>1, <2>2 DEF Rewrite
<1> QED
  BY <1>2, <1>3, <1>4

-----------------------------------------------------------------------------
(* What a step leaves alone. *)

\* Ids go up, and rows keep their names and contents.
IdsGrow ==
    /\ born' \in Nat /\ born <= born'
    /\ uploads' = uploads
    /\ DOMAIN files \subseteq DOMAIN files'
    /\ \A i \in DOMAIN files' : i <= born => i \in DOMAIN files

LEMMA FilesStill ==
    ASSUME IdsFit, files' = files, uploads' = uploads, born' \in Nat, born <= born'
    PROVE  IdsGrow
  BY DEF IdsGrow

LEMMA FilesCopied ==
    ASSUME IdsFit, uploads' = uploads, NEW c, NEW owner, NEW org, FilesGrow(c, owner, org)
    PROVE  IdsGrow
  BY DEF IdsGrow, IdsFit, FilesGrow

LEMMA FileStill ==
    ASSUME IdsFit, born' \in Nat, born <= born', NEW r, FileFits(r)
    PROVE  FileFits(r)'
<1>1. 1..born \subseteq 1..born'
  BY DEF IdsFit
<1> QED
  BY <1>1 DEF FileFits, FileRow, Awaits

LEMMA TemplateStill ==
    ASSUME IdsFit, IdsGrow, NEW r, TemplateFits(r)
    PROVE  TemplateFits(r)'
<1>1. 1..born \subseteq 1..born' /\ DOMAIN files \subseteq DOMAIN files' /\ DOMAIN uploads' = DOMAIN uploads
  BY DEF IdsFit, IdsGrow
<1>2. r \in TemplateRow(born, DOMAIN files) /\ Awaits(r)
  BY DEF TemplateFits
<1>3. r \in TemplateRow(born', DOMAIN files')
  BY <1>1, <1>2 DEF TemplateRow
<1>4. r.refs \cap DOMAIN files' \subseteq r.media
  BY <1>2 DEF TemplateFits, IdsGrow, IdsFit, TemplateRow
<1> QED
  BY <1>1, <1>2, <1>3, <1>4 DEF TemplateFits, Awaits

LEMMA CampaignStill ==
    ASSUME IdsFit, IdsGrow, NEW r, CampaignFits(r), DOMAIN templates \subseteq DOMAIN templates'
    PROVE  CampaignFits(r)'
<1>1. 1..born \subseteq 1..born' /\ DOMAIN files \subseteq DOMAIN files' /\ DOMAIN uploads' = DOMAIN uploads
  BY DEF IdsFit, IdsGrow
<1>2. r \in CampaignRow(born, DOMAIN files, DOMAIN templates) /\ Awaits(r)
  BY DEF CampaignFits
<1>3. r \in CampaignRow(born', DOMAIN files', DOMAIN templates')
  BY <1>1, <1>2 DEF CampaignRow
<1> QED
  BY <1>1, <1>2, <1>3 DEF CampaignFits, Awaits

\* Files that come share an object with one that is there.
LEMMA StoreStill ==
    ASSUME IdsFit, StoreFits, UNCHANGED <<store, uploads, removals, contested>>,
           born' \in Nat, born <= born',
           \A i \in DOMAIN files' : \E j \in DOMAIN files :
               files'[i].name = files[j].name /\ files'[i].content = files[j].content
    PROVE  StoreFits'
<1>1. 0..born \subseteq 0..born' /\ 1..born \subseteq 1..born'
  BY DEF IdsFit
<1>2. store' \in [Names -> 0..born'] /\ removals' \subseteq [id : 1..born', name : Names]
  BY <1>1 DEF StoreFits
<1>3. /\ \A k \in DOMAIN uploads' :
            uploads'[k] \in [by : Sessions, name : Names, folder : Folders \cup {Root}, vis : Visibilities]
      /\ contested' \subseteq Names
  BY DEF StoreFits
<1>4. NamesFit'
  <2>1. NamesFit
    BY DEF StoreFits
  <2>2. \A i \in DOMAIN files' : files'[i].name \notin contested => store[files'[i].name] = files'[i].content
    BY <2>1 DEF NamesFit
  <2>3. \A k \in DOMAIN uploads : uploads[k].name \notin contested =>
            \A i \in DOMAIN files' : files'[i].name # uploads[k].name
    BY <2>1 DEF NamesFit
  <2>4. \A r \in removals : r.name \notin contested => \A i \in DOMAIN files' : files'[i].name # r.name
    BY <2>1 DEF NamesFit
  <2> QED
    BY <2>1, <2>2, <2>3, <2>4 DEF NamesFit
<1> QED
  BY <1>2, <1>3, <1>4 DEF StoreFits

\* A file that was there shows what it showed.
LEMMA LinksStill ==
    ASSUME IdsFit, IdsGrow, LinksFit, UNCHANGED <<links, issued, issuing, contested>>,
           \A i \in DOMAIN files : files'[i].name = files[i].name /\ files'[i].content = files[i].content
    PROVE  LinksFit'
<1>1. \A q : \A i \in 1..born : Was(q, i) => Was(q, i)'
  BY DEF Was, IdsGrow, IdsFit
<1>2. /\ 1..born \subseteq 1..born' /\ DOMAIN uploads' = DOMAIN uploads /\ DOMAIN files \subseteq DOMAIN files'
      /\ DOMAIN files \subseteq 1..born
  BY DEF IdsFit, IdsGrow
<1>3. \A i \in DOMAIN links' : Was(issued[links[i].token], i)'
  BY <1>1, <1>2 DEF LinksFit
<1>4. issuing # NoIssue => issuing.id \in (1..born') \ DOMAIN uploads' /\ Was(issuing, issuing.id)'
  BY <1>1, <1>2 DEF LinksFit
<1> QED
  BY <1>2, <1>3, <1>4 DEF LinksFit

LEMMA FiledStill ==
    ASSUME FiledFit, folders' = folders,
           \A i \in DOMAIN files' :
               \/ files'[i].folder = Root
               \/ /\ i \in DOMAIN files /\ files'[i].folder = files[i].folder /\ files'[i].org = files[i].org
                  /\ files[i].org \/ files'[i].owner = files[i].owner
    PROVE  FiledFit'
  BY DEF FiledFit, SameWorkspace

LEMMA FoldersStill ==
    ASSUME FoldersFit, UNCHANGED <<folders, moving>>, members' = members
    PROVE  FoldersFit'
  BY DEF FoldersFit, FoldersTypeOK

\* What a body owned of its files it owns still.
Follows(r, q) ==
    /\ q.refs = r.refs
    /\ \A i \in DOMAIN files \cap DOMAIN files' :
          Own(r, i) => /\ files'[i].org = q.org
                       /\ files'[i].owner = q.owner \/ files'[i].vis = "organization"

SameBody(r, q) == q.refs = r.refs /\ q.owner = r.owner /\ q.org = r.org

LEMMA BodyFollows ==
    ASSUME \A i \in DOMAIN files \cap DOMAIN files' :
               files'[i].org = files[i].org /\ files'[i].owner = files[i].owner /\ files'[i].vis = files[i].vis,
           NEW r, NEW q, SameBody(r, q)
    PROVE  Follows(r, q)
  BY DEF Follows, SameBody, Own

\* Copies whose rows go on.
LEMMA CopiesStay ==
    ASSUME IdsFit, IdsFit', RowsFit, CopiesFit,
           \A i \in DOMAIN files' : i <= born /\ i \notin DOMAIN uploads => i \in DOMAIN files,
           \A i \in DOMAIN files \cap DOMAIN files' : files'[i].content = files[i].content,
           NEW K, K \subseteq DOMAIN copied, \A k \in K : copied'[k] = copied[k],
           \A t \in K \cap DOMAIN templates : t \in DOMAIN templates' /\ Follows(templates[t], templates'[t]),
           \A c \in K \cap DOMAIN campaigns : c \in DOMAIN campaigns' /\ Follows(campaigns[c], campaigns'[c])
    PROVE  \A k \in K : k \in DOMAIN templates' \cup DOMAIN campaigns' /\ Alone(CopyAt(k), copied[k])'
<1> SUFFICES ASSUME NEW k \in K
             PROVE  k \in DOMAIN templates' \cup DOMAIN campaigns' /\ Alone(CopyAt(k), copied[k])'
  OBVIOUS
<1>1. PICK r, q, c : r = CopyAt(k) /\ q = CopyAt(k)' /\ c = copied[k] /\ c = copied'[k]
  OBVIOUS
<1>2. /\ k \in DOMAIN templates' \cup DOMAIN campaigns' /\ Follows(r, q)
      /\ r.refs \in SUBSET (1..born) /\ r.refs \cap DOMAIN uploads = {}
  <2>1. CASE k \in DOMAIN templates
    <3>1. r = templates[k] /\ q = templates'[k] /\ k \in DOMAIN templates' /\ Follows(templates[k], templates'[k])
      BY <1>1, <2>1 DEF CopyAt
    <3>2. TemplateFits(templates[k])
      BY <2>1 DEF RowsFit
    <3> QED
      BY <3>1, <3>2 DEF TemplateFits, TemplateRow
  <2>2. CASE k \in DOMAIN campaigns
    <3>1. k \notin DOMAIN templates /\ k \in DOMAIN campaigns' /\ k \notin DOMAIN templates'
      BY <2>2 DEF IdsFit
    <3>2. r = campaigns[k] /\ q = campaigns'[k] /\ Follows(campaigns[k], campaigns'[k])
      BY <1>1, <2>2, <3>1 DEF CopyAt
    <3>3. CampaignFits(campaigns[k])
      BY <2>2 DEF RowsFit
    <3> QED
      BY <3>1, <3>2, <3>3 DEF CampaignFits, CampaignRow
  <2> QED
    BY <2>1, <2>2 DEF CopiesFit
<1>3. Alone(r, c)
  BY <1>1 DEF CopiesFit
<1>4. \A i \in r.refs \cap DOMAIN files' : i \in DOMAIN files
  BY <1>2 DEF IdsFit
<1>5. Alone(q, c)'
  <2>1. ASSUME NEW i \in (q.refs \cap DOMAIN files') \ c.kept PROVE Own(q, i)'
    BY <1>2, <1>3, <1>4, <2>1 DEF Alone, Own, Follows
  <2>2. Contents(q.refs \cap DOMAIN files)' \subseteq Contents(r.refs \cap DOMAIN files)
    BY <1>2, <1>4 DEF Contents, Follows
  <2> QED
    BY <1>3, <2>1, <2>2 DEF Alone
<1> QED
  BY <1>1, <1>2, <1>5

\* Copies that are made.
OwnFile(r, owner, org) == r.org = org /\ (r.owner = owner \/ r.vis = "organization")

LEMMA AloneCopied ==
    ASSUME IdsFit, NEW c, NEW owner, NEW org, FilesGrow(c, owner, org),
           NEW refs \in SUBSET (1..born), NEW kept, NEW s, s = Shown(refs, kept),
           NEW q, q.refs = Rewrite(refs, c), q.owner = owner, q.org = org,
           \A i \in refs \cap DOMAIN files :
               i \in DOMAIN c \cup kept \/ OwnFile(files'[i], owner, org)
    PROVE  Alone(q, s)'
<1>1. /\ \A i \in DOMAIN c : c[i] \in (born + 1)..born' /\ i \in DOMAIN files
      /\ DOMAIN files' = DOMAIN files \cup {c[i] : i \in DOMAIN c}
      /\ born \in Nat /\ DOMAIN files \subseteq 1..born
  BY DEF IdsFit, FilesGrow
<1>2. ASSUME NEW e \in q.refs \cap DOMAIN files'
      PROVE  \E i \in refs \cap DOMAIN files :
                /\ files'[e].content = files[i].content
                /\ e \in s.kept \/ Own(q, e)'
  <2>1. PICK i \in refs : e = IF i \in DOMAIN c THEN c[i] ELSE i
    BY <1>2 DEF Rewrite
  <2>2. CASE i \in DOMAIN c
    <3>1. files'[e] = CopyRow(files[i], owner, org) /\ i \in DOMAIN files
      BY <1>1, <2>1, <2>2 DEF FilesGrow
    <3> QED
      BY <2>1, <3>1 DEF CopyRow, Own
  <2>3. CASE i \notin DOMAIN c
    <3>1. i \in refs \cap DOMAIN files /\ e = i
      BY <1>1, <1>2, <2>1, <2>3
    <3>2. files'[e].content = files[i].content
      BY <3>1 DEF FilesGrow, SameFile
    <3> QED
      BY <2>3, <3>1, <3>2 DEF Shown, Own, OwnFile
  <2> QED
    BY <2>2, <2>3
<1>3. \A i \in (q.refs \cap DOMAIN files') \ s.kept : Own(q, i)'
  BY <1>2
<1>4. Contents(q.refs \cap DOMAIN files)' \subseteq s.shows
  BY <1>2 DEF Contents, Shown
<1> QED
  BY <1>3, <1>4 DEF Alone

\* Defaults that go on.
LEMMA DefaultsStay ==
    ASSUME OneDefault,
           \A t \in DOMAIN templates' : templates'[t].default /\ templates'[t].owner # Nobody =>
               /\ t \in DOMAIN templates /\ templates[t].default
               /\ templates'[t].owner = templates[t].owner /\ templates'[t].org = templates[t].org
    PROVE  OneDefault'
  BY DEF OneDefault

-----------------------------------------------------------------------------
(* Folders. *)

LEMMA RowsSame ==
    ASSUME IdsFit, RowsFit, StoreFits, LinksFit, CopiesFit, OneDefault,
           UNCHANGED <<storeVars, born, assetVars>>
    PROVE  IdsFit' /\ RowsFit' /\ StoreFits' /\ LinksFit' /\ CopiesFit' /\ OneDefault'
<1> USE DEF storeVars, assetVars
<1>1. IdsFit'
  BY DEF IdsFit
<1>2. RowsFit'
  BY DEF RowsFit, FileFits, TemplateFits, CampaignFits, Awaits
<1>3. StoreFits'
  BY DEF StoreFits, NamesFit
<1>4. LinksFit'
  BY DEF LinksFit, Was
<1>5. CopiesFit'
  BY DEF CopiesFit, Alone, CopyAt, Own, Contents
<1>6. OneDefault'
  BY DEF OneDefault
<1> QED
  BY <1>1, <1>2, <1>3, <1>4, <1>5, <1>6

LEMMA CreateFolderFits ==
    ASSUME FoldersFit, FiledFit, moving = {}, files' = files, NEW a \in Sessions,
           NEW parent \in DOMAIN folders \cup {Root}, NEW vis \in Visibilities, CreateFolder(a, parent, vis)
    PROVE  FoldersFit' /\ FiledFit'
<1>1. PICK i \in Folders : /\ i \notin DOMAIN folders
                           /\ folders' = With(folders, i, [org |-> a.org, owner |-> a.user, vis |-> vis,
                                                           parent |-> parent])
  <2>1. DOMAIN folders \subseteq Folders /\ DOMAIN folders # Folders
    BY DEF FoldersFit, FoldersTypeOK, CreateFolder
  <2>2. (CHOOSE j \in Folders : j \notin DOMAIN folders) \in Folders \ DOMAIN folders
    BY <2>1
  <2> QED
    BY <2>2 DEF CreateFolder
<1>2. PICK r, f, g : /\ r = [org |-> a.org, owner |-> a.user, vis |-> vis, parent |-> parent]
                     /\ f = folders /\ g = folders'
  OBVIOUS
<1>3. DOMAIN g = DOMAIN f \cup {i} /\ g[i] = r /\ \A j \in DOMAIN f : g[j] = f[j]
  BY <1>1, <1>2 DEF With
<1>4. r \in FolderRow /\ (parent # Root => InWorkspace(a, f[parent]))
  BY <1>2 DEF FolderRow, Sessions, FoldersFit, FoldersTypeOK, CreateFolder, Opens
<1>5. ParentsFit(g)
  BY <1>1, <1>2, <1>3, <1>4 DEF ParentsFit, FoldersFit, SameWorkspace, InWorkspace
<1>6. Acyclic(g)
  <2>1. ParentsFit(f) /\ Acyclic(f)
    BY <1>2 DEF FoldersFit
  <2>2. \A j \in DOMAIN g : g[j].parent # Root => g[j].parent \in DOMAIN f
    BY <1>2, <1>3, <2>1 DEF ParentsFit
  <2> QED
    BY <1>3, <1>5, <2>1, <2>2, TreeStill
<1>7. FoldersTypeOK'
  BY <1>1, <1>2, <1>3, <1>4 DEF FoldersFit, FoldersTypeOK, CreateFolder
<1>8. moving' = {}
  BY DEF CreateFolder
<1>9. FiledFit'
  BY <1>2, <1>3 DEF FiledFit
<1> QED
  BY <1>2, <1>5, <1>6, <1>7, <1>8, <1>9 DEF FoldersFit

LEMMA RenameFolderFits ==
    ASSUME FoldersFit, FiledFit, moving = {}, files' = files, NEW a \in Sessions, NEW i \in DOMAIN folders,
           NEW vis \in Visibilities, RenameFolder(a, i, vis)
    PROVE  FoldersFit' /\ FiledFit'
<1>1. PICK f, g : f = folders /\ g = folders' /\ g = [f EXCEPT ![i].vis = vis]
  BY DEF RenameFolder
<1>2. /\ DOMAIN g = DOMAIN f
      /\ \A j \in DOMAIN f : g[j].org = f[j].org /\ g[j].owner = f[j].owner /\ g[j].parent = f[j].parent
      /\ \A j \in DOMAIN f : f[j] \in FolderRow
  BY <1>1 DEF FoldersFit, FoldersTypeOK, FolderRow
<1>3. \A j \in DOMAIN g : g[j] \in FolderRow
  BY <1>1, <1>2 DEF FolderRow
<1>4. ParentsFit(f) /\ Acyclic(f)
  BY <1>1 DEF FoldersFit
<1>5. ParentsFit(g)
  BY <1>2, <1>4 DEF ParentsFit, SameWorkspace
<1>6. Acyclic(g)
  BY <1>2, <1>4, <1>5, TreeStill DEF ParentsFit
<1>7. FoldersTypeOK'
  BY <1>1, <1>2, <1>3 DEF FoldersFit, FoldersTypeOK, RenameFolder
<1>8. moving' = {}
  BY DEF RenameFolder
<1>9. FiledFit'
  BY <1>1, <1>2 DEF FiledFit, SameWorkspace
<1> QED
  BY <1>1, <1>5, <1>6, <1>7, <1>8, <1>9 DEF FoldersFit

LEMMA DeleteFolderFits ==
    ASSUME FoldersFit, FiledFit, moving = {}, files' = files, NEW a \in Sessions, NEW i \in DOMAIN folders,
           DeleteFolder(a, i, {k \in DOMAIN files : files[k].folder = i})
    PROVE  FoldersFit' /\ FiledFit'
<1>1. PICK f, g : f = folders /\ g = folders' /\ g = Without(f, {i})
  BY DEF DeleteFolder
<1>2. DOMAIN g = DOMAIN f \ {i} /\ \A j \in DOMAIN g : g[j] = f[j]
  BY <1>1 DEF Without
<1>3. ParentsFit(f) /\ Acyclic(f) /\ \A j \in DOMAIN f : f[j].parent # i
  BY <1>1 DEF FoldersFit, DeleteFolder
<1>4. ParentsFit(g)
  BY <1>2, <1>3 DEF ParentsFit
<1>5. Acyclic(g)
  BY <1>2, <1>3, <1>4, TreeStill DEF ParentsFit
<1>6. FoldersTypeOK'
  BY <1>1, <1>2 DEF FoldersFit, FoldersTypeOK, DeleteFolder
<1>7. moving' = {}
  BY DEF DeleteFolder
<1>8. FiledFit'
  BY <1>1, <1>2 DEF FiledFit, DeleteFolder
<1> QED
  BY <1>1, <1>4, <1>5, <1>6, <1>7, <1>8 DEF FoldersFit

\* A move is checked in the organization while no other is.
LEMMA CheckMoveFits ==
    ASSUME FoldersFit, NEW a \in Sessions, NEW i \in DOMAIN folders, NEW parent \in DOMAIN folders \cup {Root},
           CheckMove(a, i, parent)
    PROVE  FoldersFit'
<1>1. PICK n : n = [by |-> a, folder |-> i, parent |-> parent] /\ moving' = moving \cup {n}
  BY DEF CheckMove
<1>2. /\ n \in [by : Sessions, folder : Folders, parent : Folders \cup {Root}]
      /\ n.by = a /\ n.folder = i /\ n.parent = parent
  BY <1>1 DEF FoldersFit, FoldersTypeOK
<1>3. MoveFits(folders, n)
  BY <1>2, AncestorsAbove DEF CheckMove, ManagesFolder, Opens, MoveFits
<1>4. \A mv \in moving : ~(mv.by.org /\ a.org)
  BY DEF CheckMove, Unlocked
<1>5. FoldersTypeOK' /\ folders' = folders
  BY <1>1, <1>2 DEF FoldersFit, FoldersTypeOK, CheckMove
<1> QED
  BY <1>1, <1>2, <1>3, <1>4, <1>5 DEF FoldersFit

LEMMA MoveFolderFits ==
    ASSUME FoldersFit, FiledFit, files' = files, NEW mv \in moving, MoveFolder(mv)
    PROVE  FoldersFit' /\ FiledFit'
<1>1. PICK f, g, x, p : /\ f = folders /\ g = folders' /\ x = mv.folder /\ p = mv.parent
                        /\ g = [f EXCEPT ![x].parent = p]
  BY DEF MoveFolder
<1>2. /\ mv \in [by : Sessions, folder : Folders, parent : Folders \cup {Root}]
      /\ x \in DOMAIN f /\ InWorkspace(mv.by, f[x]) /\ \A j \in DOMAIN f : f[j] \in FolderRow
      /\ p # Root => p \in DOMAIN f /\ SameWorkspace(f[x], f[p]) /\ (f[x].org => x \notin Above(f, p))
  BY <1>1 DEF FoldersFit, FoldersTypeOK, MoveFits, InWorkspace
<1>3. /\ DOMAIN g = DOMAIN f /\ g[x].parent = p
      /\ \A j \in DOMAIN f : g[j].org = f[j].org /\ g[j].owner = f[j].owner /\ f[j].org \in BOOLEAN
      /\ \A j \in DOMAIN f \ {x} : g[j].parent = f[j].parent
      /\ \A j \in DOMAIN g : g[j] \in FolderRow
  BY <1>1, <1>2 DEF FolderRow
<1>4. ParentsFit(f) /\ Acyclic(f)
  BY <1>1 DEF FoldersFit
<1>5. ParentsFit(g) /\ Acyclic(g)
  BY <1>2, <1>3, <1>4, TreeMove
<1>6. moving' = moving \ {mv}
  BY DEF MoveFolder
<1>7. FoldersTypeOK'
  BY <1>1, <1>3, <1>6 DEF FoldersFit, FoldersTypeOK, MoveFolder
<1>8. ASSUME NEW nv \in moving \ {mv} PROVE MoveFits(g, nv)
  <2>1. MoveFits(f, nv)
    BY <1>1 DEF FoldersFit
  <2>2. ASSUME nv.parent # Root, nv.by.org PROVE nv.folder \notin Above(g, nv.parent)
    <3>1. nv.parent \in DOMAIN f /\ nv.folder \notin Above(f, nv.parent) /\ f[nv.parent].org
      BY <2>1, <2>2 DEF MoveFits, InWorkspace, SameWorkspace
    <3>2. ~mv.by.org
      BY <2>2 DEF FoldersFit
    <3>3. ~f[x].org
      BY <1>2, <3>2 DEF InWorkspace
    <3>4. x \notin Above(f, nv.parent)
      BY <1>3, <1>4, <3>1, <3>3, AboveInOrg
    <3>5. \A j \in Above(f, nv.parent) : j \in DOMAIN g /\ g[j].parent = f[j].parent
      BY <1>3, <1>4, <3>1, <3>4, AboveFacts
    <3>6. Above(g, nv.parent) \subseteq Above(f, nv.parent)
      BY <1>4, <3>1, <3>5, AboveStill
    <3> QED
      BY <3>1, <3>6
  <2> QED
    BY <1>3, <2>1, <2>2 DEF MoveFits, InWorkspace, SameWorkspace
<1>9. FiledFit'
  BY <1>1, <1>3 DEF FiledFit, SameWorkspace
<1> QED
  BY <1>1, <1>5, <1>6, <1>7, <1>8, <1>9 DEF FoldersFit

-----------------------------------------------------------------------------
(* Files. *)

\* Templates and campaigns do not change, and files that stay keep what copies rest on.
LEMMA TablesSame ==
    ASSUME IdsFit, IdsFit', RowsFit, CopiesFit, OneDefault, UNCHANGED assetVars,
           \A i \in DOMAIN files' : i <= born /\ i \notin DOMAIN uploads => i \in DOMAIN files,
           \A i \in DOMAIN files \cap DOMAIN files' :
               /\ files'[i].content = files[i].content /\ files'[i].owner = files[i].owner
               /\ files'[i].org = files[i].org /\ files'[i].vis = files[i].vis
    PROVE  CopiesFit' /\ OneDefault'
<1>1. templates' = templates /\ campaigns' = campaigns /\ copied' = copied
  BY DEF assetVars
<1>2. \A r : Follows(r, r)
  BY BodyFollows DEF SameBody
<1>3. \A k \in DOMAIN copied : k \in DOMAIN templates' \cup DOMAIN campaigns' /\ Alone(CopyAt(k), copied[k])'
  <2>1. \A t \in DOMAIN copied \cap DOMAIN templates :
            t \in DOMAIN templates' /\ Follows(templates[t], templates'[t])
    BY <1>1, <1>2
  <2>2. \A c \in DOMAIN copied \cap DOMAIN campaigns :
            c \in DOMAIN campaigns' /\ Follows(campaigns[c], campaigns'[c])
    BY <1>1, <1>2
  <2>3. \A k \in DOMAIN copied : copied'[k] = copied[k]
    BY <1>1
  <2> QED
    BY <2>1, <2>2, <2>3, CopiesStay
<1>4. CopiesFit'
  BY <1>1, <1>3 DEF CopiesFit
<1>5. OneDefault'
  BY <1>1, DefaultsStay
<1> QED
  BY <1>4, <1>5

LEMMA StartUploadFits ==
    ASSUME AssetsInv, NEW a \in Sessions, NEW n \in Names, NEW folder \in DOMAIN folders \cup {Root},
           NEW vis \in Visibilities, StartUpload(a, n, folder, vis), UNCHANGED <<folderVars, assetVars>>
    PROVE  AssetsInv'
<1>1. PICK u : u = [by |-> a, name |-> n, folder |-> folder, vis |-> vis]
  OBVIOUS
<1>2. /\ born \in Nat /\ born' = born + 1 /\ uploads' = With(uploads, born + 1, u)
      /\ store' = [store EXCEPT ![n] = born + 1]
      /\ UNCHANGED <<files, removals, links, issuing, issued>>
      /\ contested' = IF Crowded(n) THEN contested \cup {n} ELSE contested
      /\ \A i \in DOMAIN files : files[i].name # n
  BY <1>1 DEF StartUpload, AssetsInv, IdsFit
<1>3. /\ DOMAIN uploads' = DOMAIN uploads \cup {born + 1} /\ uploads'[born + 1] = u
      /\ \A k \in DOMAIN uploads : uploads'[k] = uploads[k]
      /\ born + 1 \notin DOMAIN uploads /\ born + 1 \notin DOMAIN files
  BY <1>2 DEF With, AssetsInv, IdsFit
<1>4. UNCHANGED <<folders, moving, members, templates, campaigns, copied>>
  BY DEF folderVars, assetVars
<1>5. FoldersFit' /\ FiledFit'
  BY <1>2, <1>4, FoldersStill, FiledStill DEF AssetsInv
<1>6. IdsFit'
  BY <1>2, <1>3, <1>4 DEF AssetsInv, IdsFit
<1>7. RowsFit'
  <2>1. \A i \in DOMAIN files : FileFits(files[i])'
    BY <1>2, FileStill DEF AssetsInv, RowsFit
  <2>2. \A r : TemplateFits(r) => TemplateFits(r)'
    BY <1>2, <1>3 DEF AssetsInv, IdsFit, TemplateFits, TemplateRow, Awaits
  <2>3. \A r : CampaignFits(r) => CampaignFits(r)'
    BY <1>2, <1>3, <1>4 DEF AssetsInv, IdsFit, CampaignFits, CampaignRow, Awaits
  <2> QED
    BY <1>2, <1>4, <2>1, <2>2, <2>3 DEF AssetsInv, RowsFit
<1>8. StoreFits'
  <2>1. u \in [by : Sessions, name : Names, folder : Folders \cup {Root}, vis : Visibilities]
    BY <1>1 DEF AssetsInv, FoldersFit, FoldersTypeOK
  <2>2. /\ store' \in [Names -> 0..born'] /\ removals' \subseteq [id : 1..born', name : Names]
        /\ contested' \subseteq Names
    BY <1>2 DEF AssetsInv, StoreFits
  <2>3. \A k \in DOMAIN uploads' :
            uploads'[k] \in [by : Sessions, name : Names, folder : Folders \cup {Root}, vis : Visibilities]
    BY <1>3, <2>1 DEF AssetsInv, StoreFits
  <2>4. NamesFit /\ store \in [Names -> 0..born]
    BY DEF AssetsInv, StoreFits
  <2>5. \A i \in DOMAIN files : files[i].name \notin contested' => store'[files[i].name] = files[i].content
    BY <1>2, <2>4 DEF NamesFit
  <2>6. \A r \in removals : r.name \notin contested' => \A i \in DOMAIN files : files[i].name # r.name
    BY <1>2, <2>4 DEF NamesFit
  <2>7. ASSUME NEW k \in DOMAIN uploads', uploads'[k].name \notin contested'
        PROVE  /\ store'[uploads'[k].name] = k
               /\ \A i \in DOMAIN files : files[i].name # uploads'[k].name
               /\ \A j \in DOMAIN uploads' \ {k} : uploads'[j].name # uploads'[k].name
               /\ \A r \in removals : r.name # uploads'[k].name
    <3>1. CASE k = born + 1
      <4>1. uploads'[k].name = n /\ ~Crowded(n)
        BY <1>1, <1>2, <1>3, <2>7, <3>1
      <4> QED
        BY <1>2, <1>3, <2>4, <3>1, <4>1 DEF Crowded
    <3>2. CASE k \in DOMAIN uploads /\ uploads[k].name # n
      BY <1>1, <1>2, <1>3, <2>4, <2>7, <3>2 DEF NamesFit, AssetsInv, StoreFits
    <3>3. CASE k \in DOMAIN uploads /\ uploads[k].name = n
      BY <1>2, <1>3, <2>7, <3>3 DEF Crowded
    <3> QED
      BY <1>3, <3>1, <3>2, <3>3
  <2>8. NamesFit'
    BY <1>2, <2>5, <2>6, <2>7 DEF NamesFit
  <2> QED
    BY <2>2, <2>3, <2>8 DEF StoreFits
<1>9. LinksFit'
  <2>1. \A q, i : Was(q, i) => Was(q, i)'
    BY <1>2 DEF Was
  <2>2. \A i \in DOMAIN links' : Was(issued[links[i].token], i)'
    BY <1>2, <2>1 DEF AssetsInv, LinksFit
  <2>3. issuing # NoIssue => issuing.id \in (1..born') \ DOMAIN uploads' /\ Was(issuing, issuing.id)'
    BY <1>2, <1>3, <2>1 DEF AssetsInv, LinksFit
  <2> QED
    BY <1>2, <2>2, <2>3 DEF AssetsInv, LinksFit
<1>10. CopiesFit' /\ OneDefault'
  BY <1>2, <1>6, TablesSame DEF AssetsInv
<1> QED
  BY <1>5, <1>6, <1>7, <1>8, <1>9, <1>10 DEF AssetsInv

LEMMA InsertMediaFits ==
    ASSUME AssetsInv, NEW k \in DOMAIN uploads, InsertMedia(k), UNCHANGED <<folderVars, assetVars>>
    PROVE  AssetsInv'
<1>1. PICK u, r : /\ u = uploads[k]
                  /\ r = [org |-> u.by.org, owner |-> u.by.user, vis |-> u.vis, pending |-> FALSE,
                          folder |-> u.folder, name |-> u.name, content |-> k]
  OBVIOUS
<1>2. /\ files' = With(files, k, r) /\ uploads' = Without(uploads, {k})
      /\ UNCHANGED <<store, removals, links, issuing, born, issued, contested>>
      /\ u.folder # Root => u.folder \in DOMAIN folders /\ SameWorkspace(r, folders[u.folder])
  BY <1>1 DEF InsertMedia, Opens
<1>3. UNCHANGED <<folders, moving, members, templates, campaigns, copied>>
  BY DEF folderVars, assetVars
<1>4. /\ born \in Nat /\ k \in 1..born /\ k \notin DOMAIN files
      /\ DOMAIN files' = DOMAIN files \cup {k} /\ files'[k] = r
      /\ \A i \in DOMAIN files : files'[i] = files[i]
      /\ DOMAIN uploads' = DOMAIN uploads \ {k} /\ \A j \in DOMAIN uploads' : uploads'[j] = uploads[j]
  BY <1>2 DEF With, Without, AssetsInv, IdsFit
<1>5. u \in [by : Sessions, name : Names, folder : Folders \cup {Root}, vis : Visibilities]
  BY <1>1 DEF AssetsInv, StoreFits
<1>6. FoldersFit'
  BY <1>3, FoldersStill DEF AssetsInv
<1>7. FiledFit'
  <2> SUFFICES ASSUME NEW i \in DOMAIN files', files'[i].folder # Root
               PROVE  /\ files'[i].folder \in DOMAIN folders
                      /\ SameWorkspace(files'[i], folders[files'[i].folder])
    BY <1>3 DEF FiledFit
  <2>1. CASE i = k
    <3>1. r.folder = u.folder
      BY <1>1
    <3> QED
      BY <1>2, <1>4, <2>1, <3>1
  <2>2. CASE i \in DOMAIN files
    BY <1>4, <2>2 DEF AssetsInv, FiledFit
  <2> QED
    BY <1>4, <2>1, <2>2
<1>8. IdsFit'
  BY <1>2, <1>3, <1>4 DEF AssetsInv, IdsFit
<1>9. RowsFit'
  <2>1. FileFits(r)'
    <3>1. r.owner \in Users /\ r.owner # Nobody
      BY <1>1, <1>5, MediaFoldersAssumption DEF Sessions
    <3>2. r \in FileRow(born)
      BY <1>1, <1>4, <1>5, <3>1 DEF FileRow, Sessions
    <3> QED
      BY <1>1, <1>2, <3>1, <3>2 DEF FileFits, Awaits
  <2>2. \A i \in DOMAIN files : FileFits(files[i])'
    BY <1>2, <1>4, FileStill DEF AssetsInv, RowsFit
  <2>3. \A q : TemplateFits(q) => TemplateFits(q)'
    <3> SUFFICES ASSUME NEW q, TemplateFits(q) PROVE TemplateFits(q)'
      OBVIOUS
    <3>1. k \notin q.refs
      BY DEF TemplateFits
    <3> QED
      BY <1>2, <1>4, <3>1 DEF TemplateFits, TemplateRow, Awaits
  <2>4. \A q : CampaignFits(q) => CampaignFits(q)'
    BY <1>2, <1>3, <1>4 DEF CampaignFits, CampaignRow, Awaits
  <2>5. \A i \in DOMAIN files' : FileFits(files[i])'
    <3> SUFFICES ASSUME NEW i \in DOMAIN files' PROVE FileFits(files[i])'
      OBVIOUS
    <3>1. CASE i = k
      BY <1>4, <2>1, <3>1
    <3>2. CASE i \in DOMAIN files
      BY <1>4, <2>2, <3>2
    <3> QED
      BY <1>4, <3>1, <3>2
  <2> QED
    BY <1>3, <2>3, <2>4, <2>5 DEF AssetsInv, RowsFit
<1>10. StoreFits'
  <2>1. NamesFit
    BY DEF AssetsInv, StoreFits
  <2>2. r.name = u.name /\ r.content = k
    BY <1>1
  <2>3. ASSUME NEW i \in DOMAIN files', files'[i].name \notin contested
        PROVE  store[files'[i].name] = files'[i].content
    <3>1. CASE i = k
      BY <1>1, <1>4, <2>1, <2>2, <2>3, <3>1 DEF NamesFit
    <3>2. CASE i \in DOMAIN files
      BY <1>4, <2>1, <2>3, <3>2 DEF NamesFit
    <3> QED
      BY <1>4, <3>1, <3>2
  <2>4. ASSUME NEW j \in DOMAIN uploads', uploads'[j].name \notin contested
        PROVE  /\ store[uploads'[j].name] = j
               /\ \A i \in DOMAIN files' : files'[i].name # uploads'[j].name
               /\ \A i \in DOMAIN uploads' \ {j} : uploads'[i].name # uploads'[j].name
               /\ \A q \in removals : q.name # uploads'[j].name
    <3>1. j \in DOMAIN uploads /\ j # k /\ uploads'[j] = uploads[j]
      BY <1>4
    <3>2. /\ store[uploads[j].name] = j
          /\ \A i \in DOMAIN files : files[i].name # uploads[j].name
          /\ \A i \in DOMAIN uploads \ {j} : uploads[i].name # uploads[j].name
          /\ \A q \in removals : q.name # uploads[j].name
      BY <2>1, <2>4, <3>1 DEF NamesFit
    <3>3. r.name # uploads[j].name
      BY <1>1, <2>2, <3>1, <3>2
    <3> QED
      BY <1>4, <3>1, <3>2, <3>3
  <2>5. ASSUME NEW q \in removals, q.name \notin contested, NEW i \in DOMAIN files'
        PROVE  files'[i].name # q.name
    <3>1. CASE i = k
      BY <1>1, <1>4, <2>1, <2>2, <2>5, <3>1 DEF NamesFit
    <3>2. CASE i \in DOMAIN files
      BY <1>4, <2>1, <2>5, <3>2 DEF NamesFit
    <3> QED
      BY <1>4, <3>1, <3>2
  <2>6. NamesFit'
    BY <1>2, <2>3, <2>4, <2>5 DEF NamesFit
  <2> QED
    BY <1>2, <1>4, <2>6 DEF AssetsInv, StoreFits
<1>11. LinksFit'
  <2>1. \A q : \A i \in DOMAIN files : Was(q, i) => Was(q, i)'
    BY <1>2, <1>4 DEF Was
  <2>2. \A i \in DOMAIN links' : Was(issued[links[i].token], i)'
    BY <1>2, <2>1 DEF AssetsInv, LinksFit
  <2>3. issuing # NoIssue => issuing.id \in (1..born') \ DOMAIN uploads' /\ Was(issuing, issuing.id)'
    BY <1>2, <1>4 DEF AssetsInv, LinksFit, Was
  <2> QED
    BY <1>2, <1>4, <2>2, <2>3 DEF AssetsInv, LinksFit
<1>12. CopiesFit' /\ OneDefault'
  BY <1>4, <1>8, TablesSame DEF AssetsInv
<1> QED
  BY <1>6, <1>7, <1>8, <1>9, <1>10, <1>11, <1>12 DEF AssetsInv

LEMMA FailUploadFits ==
    ASSUME AssetsInv, NEW k \in DOMAIN uploads, FailUpload(k), UNCHANGED <<folderVars, assetVars>>
    PROVE  AssetsInv'
<1>1. PICK n : n = uploads[k].name
  OBVIOUS
<1>2. /\ store' = [store EXCEPT ![n] = 0] /\ uploads' = Without(uploads, {k})
      /\ UNCHANGED <<files, removals, links, issuing, born, issued, contested>>
  BY <1>1 DEF FailUpload
<1>3. UNCHANGED <<folders, moving, members, templates, campaigns, copied>>
  BY DEF folderVars, assetVars
<1>4. DOMAIN uploads' = DOMAIN uploads \ {k} /\ \A j \in DOMAIN uploads' : uploads'[j] = uploads[j]
  BY <1>2 DEF Without
<1>5. FoldersFit' /\ FiledFit'
  BY <1>2, <1>3, FoldersStill, FiledStill DEF AssetsInv
<1>6. IdsFit'
  BY <1>2, <1>3, <1>4 DEF AssetsInv, IdsFit
<1>7. RowsFit'
  <2>1. \A r : FileFits(r) => FileFits(r)'
    BY <1>2 DEF FileFits, FileRow, Awaits
  <2>2. \A r : TemplateFits(r) => TemplateFits(r)'
    BY <1>2, <1>4 DEF TemplateFits, TemplateRow, Awaits
  <2>3. \A r : CampaignFits(r) => CampaignFits(r)'
    BY <1>2, <1>3, <1>4 DEF CampaignFits, CampaignRow, Awaits
  <2> QED
    BY <1>2, <1>3, <2>1, <2>2, <2>3 DEF AssetsInv, RowsFit
<1>8. StoreFits'
  <2>1. NamesFit /\ store \in [Names -> 0..born] /\ 0 \in 0..born
    BY DEF AssetsInv, StoreFits, IdsFit
  <2>2. ASSUME NEW i \in DOMAIN files, files[i].name \notin contested
        PROVE  store'[files[i].name] = files[i].content
    <3>1. files[i].name # n /\ files[i].name \in Names
      BY <1>1, <2>1, <2>2 DEF NamesFit, AssetsInv, RowsFit, FileFits, FileRow
    <3> QED
      BY <1>2, <2>1, <2>2, <3>1 DEF NamesFit
  <2>3. ASSUME NEW j \in DOMAIN uploads', uploads'[j].name \notin contested
        PROVE  /\ store'[uploads'[j].name] = j
               /\ \A i \in DOMAIN files : files[i].name # uploads'[j].name
               /\ \A i \in DOMAIN uploads' \ {j} : uploads'[i].name # uploads'[j].name
               /\ \A q \in removals : q.name # uploads'[j].name
    <3>1. j \in DOMAIN uploads /\ j # k /\ uploads'[j] = uploads[j] /\ uploads[j].name \in Names
      BY <1>4 DEF AssetsInv, StoreFits
    <3>2. /\ store[uploads[j].name] = j
          /\ \A i \in DOMAIN files : files[i].name # uploads[j].name
          /\ \A i \in DOMAIN uploads \ {j} : uploads[i].name # uploads[j].name
          /\ \A q \in removals : q.name # uploads[j].name
      BY <2>1, <2>3, <3>1 DEF NamesFit
    <3>3. uploads[j].name # n
      BY <1>1, <3>1, <3>2
    <3> QED
      BY <1>2, <1>4, <2>1, <3>1, <3>2, <3>3
  <2>4. NamesFit'
    <3>1. files' = files /\ removals' = removals /\ contested' = contested
      BY <1>2
    <3>2. \A r \in removals : r.name \notin contested => \A i \in DOMAIN files : files[i].name # r.name
      BY <2>1 DEF NamesFit
    <3> QED
      BY <2>2, <2>3, <3>1, <3>2 DEF NamesFit
  <2>5. store' \in [Names -> 0..born']
    BY <1>2, <2>1
  <2> QED
    BY <1>2, <1>4, <2>4, <2>5 DEF AssetsInv, StoreFits
<1>9. LinksFit'
  <2>1. \A q, i : Was(q, i) => Was(q, i)'
    BY <1>2 DEF Was
  <2>2. \A i \in DOMAIN links' : Was(issued[links[i].token], i)'
    BY <1>2, <2>1 DEF AssetsInv, LinksFit
  <2>3. issuing # NoIssue => issuing.id \in (1..born') \ DOMAIN uploads' /\ Was(issuing, issuing.id)'
    BY <1>2, <1>4, <2>1 DEF AssetsInv, LinksFit
  <2> QED
    BY <1>2, <2>2, <2>3 DEF AssetsInv, LinksFit
<1>10. CopiesFit' /\ OneDefault'
  BY <1>2, <1>6, TablesSame DEF AssetsInv
<1> QED
  BY <1>5, <1>6, <1>7, <1>8, <1>9, <1>10 DEF AssetsInv

\* The object is removed, or stays behind: nothing has its name by then.
LEMMA RemoveObjectFits ==
    ASSUME AssetsInv, NEW gone \in removals, RemoveObject(gone), UNCHANGED <<folderVars, assetVars>>
    PROVE  AssetsInv'
<1>1. PICK n : n = gone.name
  OBVIOUS
<1>2. /\ store' \in {store, [store EXCEPT ![n] = 0]} /\ removals' = removals \ {gone}
      /\ UNCHANGED <<files, uploads, links, issuing, born, issued, contested>>
  BY <1>1 DEF RemoveObject
<1>3. UNCHANGED <<folders, moving, members, templates, campaigns, copied>>
  BY DEF folderVars, assetVars
<1>4. FoldersFit' /\ FiledFit'
  BY <1>2, <1>3, FoldersStill, FiledStill DEF AssetsInv
<1>5. IdsFit' /\ IdsGrow
  BY <1>2, <1>3 DEF AssetsInv, IdsFit, IdsGrow
<1>6. RowsFit'
  BY <1>2, <1>3 DEF AssetsInv, RowsFit, FileFits, TemplateFits, CampaignFits, Awaits
<1>7. StoreFits'
  <2>1. NamesFit /\ store \in [Names -> 0..born] /\ 0 \in 0..born
    BY DEF AssetsInv, StoreFits, IdsFit
  <2>2. ASSUME NEW x \in Names, x # n PROVE store'[x] = store[x]
    BY <1>2, <2>1, <2>2
  <2>3. ASSUME NEW i \in DOMAIN files, files[i].name \notin contested
        PROVE  store'[files[i].name] = files[i].content
    <3>1. files[i].name # n /\ files[i].name \in Names
      BY <1>1, <2>1, <2>3 DEF NamesFit, AssetsInv, RowsFit, FileFits, FileRow
    <3> QED
      BY <2>1, <2>2, <2>3, <3>1 DEF NamesFit
  <2>4. ASSUME NEW j \in DOMAIN uploads, uploads[j].name \notin contested
        PROVE  store'[uploads[j].name] = j
    <3>1. uploads[j].name # n /\ uploads[j].name \in Names
      BY <1>1, <2>1, <2>4 DEF NamesFit, AssetsInv, StoreFits
    <3> QED
      BY <2>1, <2>2, <2>4, <3>1 DEF NamesFit
  <2>5. NamesFit'
    BY <1>2, <2>1, <2>3, <2>4 DEF NamesFit
  <2>6. store' \in [Names -> 0..born']
    BY <1>2, <2>1
  <2> QED
    BY <1>2, <2>5, <2>6 DEF AssetsInv, StoreFits
<1>8. LinksFit'
  BY <1>2, <1>5, LinksStill DEF AssetsInv
<1>9. CopiesFit' /\ OneDefault'
  BY <1>2, <1>5, TablesSame DEF AssetsInv
<1> QED
  BY <1>4, <1>5, <1>6, <1>7, <1>8, <1>9 DEF AssetsInv

LEMMA MoveMediaFits ==
    ASSUME AssetsInv, NEW a \in Sessions, NEW x \in DOMAIN files, NEW folder \in DOMAIN folders \cup {Root},
           MoveMediaToFolder(a, x, folder), UNCHANGED <<folderVars, assetVars>>
    PROVE  AssetsInv'
<1>1. /\ files' = [files EXCEPT ![x].folder = folder]
      /\ UNCHANGED <<store, uploads, removals, links, issuing, born, issued, contested>>
      /\ folder # Root => folder \in DOMAIN folders /\ SameWorkspace(files[x], folders[folder])
  BY DEF MoveMediaToFolder, Opens
<1>2. UNCHANGED <<folders, moving, members, templates, campaigns, copied>>
  BY DEF folderVars, assetVars
<1>3. \A i \in DOMAIN files : FileFits(files[i])
  BY DEF AssetsInv, RowsFit
<1>4. /\ DOMAIN files' = DOMAIN files /\ \A i \in DOMAIN files \ {x} : files'[i] = files[i]
      /\ files'[x] = [files[x] EXCEPT !.folder = folder]
  BY <1>1
<1>5. /\ files'[x] \in FileRow(born) /\ files'[x].folder = folder
      /\ files'[x].name = files[x].name /\ files'[x].content = files[x].content
      /\ files'[x].owner = files[x].owner /\ files'[x].org = files[x].org /\ files'[x].vis = files[x].vis
      /\ files'[x].pending = files[x].pending
  BY <1>3, <1>4 DEF FileFits, FileRow, AssetsInv, FoldersFit, FoldersTypeOK
<1>6. FoldersFit'
  BY <1>2, FoldersStill DEF AssetsInv
<1>7. FiledFit'
  BY <1>1, <1>2, <1>4, <1>5 DEF AssetsInv, FiledFit, SameWorkspace
<1>8. IdsFit' /\ IdsGrow
  BY <1>1, <1>2, <1>4 DEF AssetsInv, IdsFit, IdsGrow
<1>9. RowsFit'
  <2>1. FileFits(files[x])'
    BY <1>1, <1>3, <1>5 DEF FileFits, Awaits
  <2>2. \A i \in DOMAIN files \ {x} : FileFits(files[i])'
    BY <1>1, <1>3, <1>4 DEF FileFits
  <2>3. \A r : (TemplateFits(r) => TemplateFits(r)') /\ (CampaignFits(r) => CampaignFits(r)')
    BY <1>1, <1>2, <1>4 DEF TemplateFits, CampaignFits, Awaits
  <2> QED
    BY <1>2, <1>4, <2>1, <2>2, <2>3 DEF AssetsInv, RowsFit
<1>10. \A i \in DOMAIN files :
          /\ files'[i].name = files[i].name /\ files'[i].content = files[i].content
          /\ files'[i].owner = files[i].owner /\ files'[i].org = files[i].org /\ files'[i].vis = files[i].vis
  BY <1>4, <1>5
<1>11. StoreFits'
  BY <1>1, <1>4, <1>8, <1>10, StoreStill DEF AssetsInv, IdsGrow
<1>12. LinksFit'
  BY <1>1, <1>8, <1>10, LinksStill DEF AssetsInv
<1>13. CopiesFit' /\ OneDefault'
  BY <1>4, <1>8, <1>10, TablesSame DEF AssetsInv
<1> QED
  BY <1>6, <1>7, <1>8, <1>9, <1>11, <1>12, <1>13 DEF AssetsInv

\* A link is stored with a new token, or with the one its file had for the same owner.
LEMMA IssueLinkFits ==
    ASSUME AssetsInv, IssueLink, UNCHANGED <<folderVars, assetVars>>
    PROVE  AssetsInv'
<1>1. PICK q, token, link :
          /\ q = issuing /\ token = IF KeepsToken(q) THEN links[q.id].token ELSE Cardinality(DOMAIN issued) + 1
          /\ link = [token |-> token, owner |-> q.owner, org |-> q.org]
  OBVIOUS
<1>2. /\ q # NoIssue /\ issuing' = NoIssue
      /\ UNCHANGED <<files, store, uploads, removals, born, contested>>
      /\ StillThere(q) => /\ links' = With(links, q.id, link)
                          /\ issued' = IF KeepsToken(q) THEN issued ELSE With(issued, token, q)
      /\ ~StillThere(q) => UNCHANGED <<links, issued>>
  BY <1>1 DEF IssueLink
<1>3. UNCHANGED <<folders, moving, members, templates, campaigns, copied>>
  BY DEF folderVars, assetVars
<1>4. FoldersFit' /\ FiledFit'
  BY <1>2, <1>3, FoldersStill, FiledStill DEF AssetsInv
<1>5. IdsFit' /\ IdsGrow
  BY <1>2, <1>3 DEF AssetsInv, IdsFit, IdsGrow
<1>6. RowsFit'
  BY <1>2, <1>3 DEF AssetsInv, RowsFit, FileFits, TemplateFits, CampaignFits, Awaits
<1>7. StoreFits'
  BY <1>2 DEF AssetsInv, StoreFits, NamesFit
<1>8. LinksFit'
  <2>1. \A r, i : Was(r, i) => Was(r, i)'
    BY <1>2 DEF Was
  <2>2. CASE ~StillThere(q)
    BY <1>2, <2>1, <2>2 DEF AssetsInv, LinksFit
  <2>3. CASE StillThere(q) /\ KeepsToken(q)
    <3>1. link.token = links[q.id].token /\ link.owner = links[q.id].owner /\ link.org = links[q.id].org
      BY <1>1, <2>3 DEF KeepsToken
    <3>2. /\ DOMAIN links' = DOMAIN links /\ links'[q.id] = link /\ q.id \in DOMAIN links /\ issued' = issued
          /\ \A i \in DOMAIN links \ {q.id} : links'[i] = links[i]
      BY <1>2, <2>3 DEF With, KeepsToken
    <3>3. \A i \in DOMAIN links : /\ links'[i].token = links[i].token /\ links'[i].owner = links[i].owner
                                  /\ links'[i].org = links[i].org
      BY <3>1, <3>2
    <3> QED
      BY <1>2, <2>1, <3>2, <3>3 DEF AssetsInv, LinksFit
  <2>4. CASE StillThere(q) /\ ~KeepsToken(q)
    <3>1. PICK n \in Nat : DOMAIN issued = 1..n
      BY DEF AssetsInv, LinksFit
    <3>2. token = n + 1
      <4>1. Cardinality(1..n) = n
        BY FS_Interval
      <4> QED
        BY <1>1, <2>4, <3>1, <4>1
    <3>3. /\ issued' = With(issued, n + 1, q) /\ links' = With(links, q.id, link)
          /\ link.token = n + 1 /\ link.owner = q.owner /\ link.org = q.org
      BY <1>1, <1>2, <2>4, <3>2
    <3>4. /\ DOMAIN issued' = 1..(n + 1) /\ issued'[n + 1] = q /\ \A x \in 1..n : issued'[x] = issued[x]
      BY <3>1, <3>3 DEF With
    <3>5. /\ DOMAIN links' = DOMAIN links \cup {q.id} /\ links'[q.id] = link
          /\ \A i \in DOMAIN links \ {q.id} : links'[i] = links[i]
      BY <3>3 DEF With
    <3>6. q.id \in DOMAIN files /\ Was(q, q.id)'
      BY <1>1, <1>2, <2>1, <2>4 DEF StillThere, AssetsInv, LinksFit
    <3>7. ASSUME NEW i \in DOMAIN links'
          PROVE  /\ links'[i].token \in DOMAIN issued'
                 /\ issued'[links'[i].token].id = i
                 /\ issued'[links'[i].token].owner = links'[i].owner
                 /\ issued'[links'[i].token].org = links'[i].org
                 /\ Was(issued[links[i].token], i)'
      <4>1. CASE i = q.id
        <5>1. issued'[links'[i].token] = q /\ links'[i].token \in DOMAIN issued'
          BY <3>3, <3>4, <3>5, <4>1
        <5> QED
          BY <3>3, <3>5, <3>6, <4>1, <5>1 DEF Was
      <4>2. CASE i # q.id
        <5>1. PICK w : /\ w = issued[links[i].token] /\ i \in DOMAIN links /\ links[i].token \in 1..n
                       /\ w.id = i /\ w.owner = links[i].owner /\ w.org = links[i].org /\ Was(w, i)
          BY <3>1, <3>5, <4>2 DEF AssetsInv, LinksFit
        <5>2. issued'[links'[i].token] = w /\ links'[i] = links[i] /\ links'[i].token \in DOMAIN issued'
          BY <3>4, <3>5, <4>2, <5>1
        <5> QED
          BY <2>1, <5>1, <5>2 DEF Was
      <4> QED
        BY <4>1, <4>2
    <3>8. DOMAIN links' \subseteq DOMAIN files'
      BY <1>2, <3>5, <3>6 DEF AssetsInv, LinksFit
    <3> QED
      BY <1>2, <3>1, <3>4, <3>7, <3>8 DEF LinksFit
  <2> QED
    BY <2>2, <2>3, <2>4
<1>9. CopiesFit' /\ OneDefault'
  BY <1>2, <1>5, TablesSame DEF AssetsInv
<1> QED
  BY <1>4, <1>5, <1>6, <1>7, <1>8, <1>9 DEF AssetsInv

\* What is read is what the file shows.
LEMMA SendAttachmentFits ==
    ASSUME AssetsInv, NEW c \in DOMAIN campaigns, NEW x \in DOMAIN files, SendAttachment(c, x)
    PROVE  AssetsInv'
<1>1. /\ issuing' = [id |-> x, owner |-> files[x].owner, org |-> files[x].org,
                     content |-> store[files[x].name]]
      /\ UNCHANGED <<files, store, uploads, removals, links, born, issued, contested>>
      /\ UNCHANGED <<folders, moving, members, templates, campaigns, copied>>
  BY DEF SendAttachment, ReadAttachment, folderVars
<1>2. FoldersFit' /\ FiledFit'
  BY <1>1, FoldersStill, FiledStill DEF AssetsInv
<1>3. IdsFit'
  BY <1>1 DEF AssetsInv, IdsFit
<1>4. RowsFit'
  BY <1>1 DEF AssetsInv, RowsFit, FileFits, TemplateFits, CampaignFits, Awaits
<1>5. StoreFits'
  BY <1>1 DEF AssetsInv, StoreFits, NamesFit
<1>6. LinksFit'
  <2>1. \A q, i : Was(q, i) => Was(q, i)'
    BY <1>1 DEF Was
  <2>2. issuing'.id = x /\ issuing'.content = store[files[x].name]
    BY <1>1
  <2>3. Was(issuing, x)'
    BY <1>1, <2>2 DEF Was, AssetsInv, StoreFits, NamesFit
  <2>4. x \in (1..born) \ DOMAIN uploads
    BY DEF AssetsInv, IdsFit
  <2> QED
    BY <1>1, <2>1, <2>2, <2>3, <2>4 DEF AssetsInv, LinksFit, Was
<1>7. CopiesFit' /\ OneDefault'
  BY <1>1, <1>3, TablesSame DEF AssetsInv, assetVars
<1> QED
  BY <1>2, <1>3, <1>4, <1>5, <1>6, <1>7 DEF AssetsInv

\* Bodies lose the association with a file that goes. Its object goes with the last row
\* that names it.
LEMMA DeleteFileFits ==
    ASSUME AssetsInv, NEW a \in Sessions, NEW x \in DOMAIN files, DeleteFile(a, x)
    PROVE  AssetsInv'
<1>1. /\ files' = Without(files, {x}) /\ links' = Without(links, {x})
      /\ removals' = IF Unreferenced(x) THEN removals \cup {[id |-> x, name |-> files[x].name]} ELSE removals
      /\ UNCHANGED <<store, uploads, issuing, born, issued, contested>>
      /\ UNCHANGED <<folders, moving, members, copied>>
      /\ templates' = [t \in DOMAIN templates |-> [templates[t] EXCEPT !.media = @ \ {x}]]
      /\ campaigns' = [c \in DOMAIN campaigns |-> [campaigns[c] EXCEPT !.media = @ \ {x}]]
  BY DEF DeleteFile, DeleteMedia, folderVars
<1>2. /\ DOMAIN files' = DOMAIN files \ {x} /\ \A i \in DOMAIN files' : files'[i] = files[i]
      /\ DOMAIN links' = DOMAIN links \ {x} /\ \A i \in DOMAIN links' : links'[i] = links[i]
  BY <1>1 DEF Without
<1>3. /\ DOMAIN templates' = DOMAIN templates
      /\ \A t \in DOMAIN templates : /\ templates'[t] = [templates[t] EXCEPT !.media = @ \ {x}]
                                     /\ TemplateFits(templates[t])
      /\ DOMAIN campaigns' = DOMAIN campaigns
      /\ \A c \in DOMAIN campaigns : /\ campaigns'[c] = [campaigns[c] EXCEPT !.media = @ \ {x}]
                                     /\ CampaignFits(campaigns[c])
  BY <1>1 DEF AssetsInv, RowsFit
<1>4. FoldersFit' /\ FiledFit'
  BY <1>1, <1>2, FoldersStill, FiledStill DEF AssetsInv
<1>5. IdsFit'
  BY <1>1, <1>2, <1>3 DEF AssetsInv, IdsFit
<1>6. \A t \in DOMAIN templates :
         /\ TemplateFits(templates[t])' /\ SameBody(templates[t], templates'[t])
         /\ templates'[t].default = templates[t].default
  <2> SUFFICES ASSUME NEW t \in DOMAIN templates
               PROVE  /\ TemplateFits(templates[t])' /\ SameBody(templates[t], templates'[t])
                      /\ templates'[t].default = templates[t].default
    OBVIOUS
  <2>1. PICK r, q : r = templates[t] /\ q = templates'[t] /\ q = [r EXCEPT !.media = @ \ {x}] /\ TemplateFits(r)
    BY <1>3
  <2>2. r \in TemplateRow(born, DOMAIN files) /\ Awaits(r)
    BY <2>1 DEF TemplateFits
  <2>3. /\ q \in TemplateRow(born, DOMAIN files') /\ q.media = r.media \ {x} /\ SameBody(r, q)
        /\ q.default = r.default /\ Awaits(q)
    BY <1>2, <2>1, <2>2 DEF TemplateRow, SameBody, Awaits
  <2>4. TemplateFits(q)'
    BY <1>1, <1>2, <2>1, <2>3 DEF TemplateFits, SameBody, Awaits
  <2> QED
    BY <2>1, <2>3, <2>4 DEF TemplateFits, Awaits
<1>7. \A c \in DOMAIN campaigns : CampaignFits(campaigns[c])' /\ SameBody(campaigns[c], campaigns'[c])
  <2> SUFFICES ASSUME NEW c \in DOMAIN campaigns
               PROVE  CampaignFits(campaigns[c])' /\ SameBody(campaigns[c], campaigns'[c])
    OBVIOUS
  <2>1. PICK r, q : r = campaigns[c] /\ q = campaigns'[c] /\ q = [r EXCEPT !.media = @ \ {x}] /\ CampaignFits(r)
    BY <1>3
  <2>2. r \in CampaignRow(born, DOMAIN files, DOMAIN templates) /\ Awaits(r)
    BY <2>1 DEF CampaignFits
  <2>3. q \in CampaignRow(born, DOMAIN files', DOMAIN templates) /\ SameBody(r, q) /\ Awaits(q)
    BY <1>2, <2>1, <2>2 DEF CampaignRow, SameBody, Awaits
  <2>4. CampaignFits(q)'
    BY <1>1, <1>3, <2>1, <2>3 DEF CampaignFits, SameBody, Awaits
  <2> QED
    BY <2>1, <2>3, <2>4 DEF CampaignFits, Awaits
<1>8. RowsFit'
  <2>1. \A i \in DOMAIN files' : FileFits(files[i])'
    BY <1>1, <1>2 DEF AssetsInv, RowsFit, FileFits, Awaits
  <2> QED
    BY <1>3, <1>6, <1>7, <2>1 DEF RowsFit
<1>9. StoreFits'
  <2>1. NamesFit /\ x \in 1..born /\ files[x].name \in Names
    BY DEF AssetsInv, StoreFits, IdsFit, RowsFit, FileFits, FileRow
  <2>2. \A r \in removals' \ removals : /\ r \in [id : 1..born, name : Names] /\ r.name = files[x].name
                                        /\ \A i \in DOMAIN files' : files[i].name # r.name
    BY <1>1, <1>2, <2>1 DEF Unreferenced
  <2>3. removals' \subseteq [id : 1..born', name : Names]
    BY <1>1, <2>2 DEF AssetsInv, StoreFits
  <2>4. ASSUME NEW r \in removals', r.name \notin contested PROVE \A i \in DOMAIN files' : files'[i].name # r.name
    BY <1>2, <2>1, <2>2, <2>4 DEF NamesFit
  <2>5. ASSUME NEW k \in DOMAIN uploads, uploads[k].name \notin contested
        PROVE  /\ store[uploads[k].name] = k
               /\ \A i \in DOMAIN files' : files'[i].name # uploads[k].name
               /\ \A j \in DOMAIN uploads \ {k} : uploads[j].name # uploads[k].name
               /\ \A r \in removals' : r.name # uploads[k].name
    <3>1. \A r \in removals' : r \in removals \/ r.name = files[x].name
      BY <2>2
    <3> QED
      BY <1>2, <2>1, <2>5, <3>1 DEF NamesFit
  <2>6. \A i \in DOMAIN files' : files'[i].name \notin contested => store[files'[i].name] = files'[i].content
    BY <1>2, <2>1 DEF NamesFit
  <2>7. NamesFit'
    <3>1. store' = store /\ uploads' = uploads /\ contested' = contested
      BY <1>1
    <3> QED
      BY <2>4, <2>5, <2>6, <3>1 DEF NamesFit
  <2> QED
    BY <1>1, <2>3, <2>7 DEF AssetsInv, StoreFits
<1>10. LinksFit'
  <2>1. \A q, i : Was(q, i) => Was(q, i)'
    BY <1>1, <1>2 DEF Was
  <2>2. ASSUME NEW i \in DOMAIN links'
        PROVE  /\ links'[i].token \in DOMAIN issued
               /\ issued[links'[i].token].id = i
               /\ issued[links'[i].token].owner = links'[i].owner
               /\ issued[links'[i].token].org = links'[i].org
               /\ Was(issued[links[i].token], i)'
    <3>1. PICK w : /\ w = issued[links[i].token] /\ i \in DOMAIN links /\ links[i].token \in DOMAIN issued
                   /\ w.id = i /\ w.owner = links[i].owner /\ w.org = links[i].org /\ Was(w, i)
      BY <1>2 DEF AssetsInv, LinksFit
    <3>2. links'[i] = links[i] /\ issued'[links'[i].token] = w
      BY <1>1, <1>2, <3>1
    <3> QED
      BY <1>1, <2>1, <3>1, <3>2 DEF Was
  <2>3. issuing # NoIssue => issuing.id \in (1..born) \ DOMAIN uploads /\ Was(issuing, issuing.id)'
    BY <1>1, <2>1 DEF AssetsInv, LinksFit
  <2>4. DOMAIN links' \subseteq DOMAIN files'
    BY <1>2 DEF AssetsInv, LinksFit
  <2> QED
    BY <1>1, <2>2, <2>3, <2>4 DEF AssetsInv, LinksFit
<1>11. CopiesFit'
  <2>1. \A t \in DOMAIN templates : t \in DOMAIN templates' /\ Follows(templates[t], templates'[t])
    BY <1>2, <1>3, <1>6, BodyFollows
  <2>2. \A c \in DOMAIN campaigns : c \in DOMAIN campaigns' /\ Follows(campaigns[c], campaigns'[c])
    BY <1>2, <1>3, <1>7, BodyFollows
  <2>3. \A k \in DOMAIN copied : k \in DOMAIN templates' \cup DOMAIN campaigns' /\ Alone(CopyAt(k), copied[k])'
    BY <1>1, <1>2, <1>5, <2>1, <2>2, CopiesStay DEF AssetsInv
  <2> QED
    BY <1>1, <2>3 DEF CopiesFit
<1>12. OneDefault'
  BY <1>3, <1>6, DefaultsStay DEF AssetsInv, SameBody
<1> QED
  BY <1>4, <1>5, <1>8, <1>9, <1>10, <1>11, <1>12 DEF AssetsInv

-----------------------------------------------------------------------------
(* What an action on templates or campaigns leaves alone. *)

\* A finite set of numbers has a smallest.
LEMMA LeastFacts ==
    ASSUME NEW S, S \subseteq Nat, IsFiniteSet(S), S # {}
    PROVE  Least(S) \in S
<1> DEFINE Low(T) == \E x \in T : \A y \in T : x <= y
           Bad == {T \in SUBSET S : T # {} /\ ~Low(T)}
<1>1. Bad = {}
  <2> SUFFICES ASSUME Bad # {} PROVE FALSE
    OBVIOUS
  <2>1. IsWellFoundedOn(StrictSubsetOrdering(S), SUBSET S)
    BY FS_StrictSubsetOrderingWellFounded, FS_FiniteSubsetsOfFinite
  <2>2. Bad \subseteq SUBSET S
    OBVIOUS
  <2> HIDE DEF Bad
  <2>3. PICK T \in Bad : \A U \in Bad : ~(<<U, T>> \in StrictSubsetOrdering(S))
    BY <2>1, <2>2, WFMin
  <2>4. T \in SUBSET S /\ T # {} /\ ~Low(T)
    BY DEF Bad
  <2>5. PICK t \in T : TRUE
    BY <2>4
  <2>6. T \ {t} = {} \/ Low(T \ {t})
    <3>1. T \ {t} \notin Bad
      BY <2>3, <2>4, <2>5 DEF StrictSubsetOrdering
    <3> QED
      BY <2>4, <3>1 DEF Bad
  <2>7. \A y \in T : y \in Nat
    BY <2>4
  <2>8. CASE T \ {t} = {}
    BY <2>4, <2>5, <2>7, <2>8
  <2>9. CASE Low(T \ {t})
    <3>1. PICK l \in T \ {t} : \A y \in T \ {t} : l <= y
      BY <2>9
    <3>2. CASE l <= t
      BY <2>4, <2>7, <3>1, <3>2
    <3>3. CASE ~(l <= t)
      <4>1. \A y \in T : t <= y
        BY <2>5, <2>7, <3>1, <3>3
      <4> QED
        BY <2>4, <2>5, <4>1
    <3> QED
      BY <3>2, <3>3
  <2> QED
    BY <2>6, <2>8, <2>9
<1>2. \E x \in S : \A y \in S : x <= y
  BY <1>1
<1> QED
  BY <1>2 DEF Least

\* The default is a row that the owner may send.
LEMMA DefaultFacts ==
    ASSUME IdsFit, RowsFit, NEW owner, NEW org
    PROVE  LET d == DefaultFor(owner, org)
           IN  d # None => /\ d \in DOMAIN templates /\ templates[d].default
                           /\ Usable([user |-> owner, org |-> org], templates[d], templates[d].vis)
<1> DEFINE own == Defaults(owner, org)
           global == {t \in DOMAIN templates :
                         templates[t].default /\ templates[t].vis = "global" /\ ~templates[t].pending}
<1>1. \A S \in SUBSET DOMAIN templates : S # {} => Least(S) \in S
  <2> SUFFICES ASSUME NEW S \in SUBSET DOMAIN templates, S # {} PROVE Least(S) \in S
    OBVIOUS
  <2>1. S \subseteq 1..born /\ born \in Nat
    BY DEF IdsFit
  <2>2. IsFiniteSet(1..born)
    BY <2>1, FS_Interval
  <2>3. IsFiniteSet(S) /\ S \subseteq Nat
    BY <2>1, <2>2, FS_Subset
  <2> QED
    BY <2>3, LeastFacts
<1>2. \A t \in DOMAIN templates : templates[t].pending <=> templates[t].owner = Nobody
  BY DEF RowsFit, TemplateFits, Awaits
<1>3. CASE own # {} /\ owner # Nobody
  <2>1. DefaultFor(owner, org) = Least(own)
    BY <1>3 DEF DefaultFor
  <2>2. own \in SUBSET DOMAIN templates
    BY DEF Defaults
  <2>3. Least(own) \in own
    BY <1>1, <1>3, <2>2
  <2> QED
    BY <1>2, <1>3, <2>1, <2>3 DEF Defaults, Usable
<1>4. CASE ~(own # {} /\ owner # Nobody)
  <2>1. DefaultFor(owner, org) = Least(global)
    BY <1>4 DEF DefaultFor
  <2>2. global # {} => Least(global) \in global
    BY <1>1
  <2>3. global = {} => Least(global) = None
    BY DEF Least
  <2> QED
    BY <2>1, <2>2, <2>3 DEF Usable
<1> QED
  BY <1>3, <1>4

LEMMA FilesQuiet ==
    ASSUME AssetsInv, UNCHANGED <<folderVars, storeVars>>, born' \in Nat, born <= born'
    PROVE  /\ FoldersFit' /\ FiledFit' /\ StoreFits' /\ LinksFit' /\ IdsGrow
           /\ \A i \in DOMAIN files' : FileFits(files[i])'
<1>1. /\ UNCHANGED <<folders, moving, members>>
      /\ UNCHANGED <<files, store, uploads, removals, links, issuing, issued, contested>>
  BY DEF folderVars, storeVars
<1>2. FoldersFit' /\ FiledFit'
  BY <1>1, FoldersStill, FiledStill DEF AssetsInv
<1>3. IdsGrow
  BY <1>1, FilesStill DEF AssetsInv
<1>4. StoreFits' /\ LinksFit'
  BY <1>1, <1>3, StoreStill, LinksStill DEF AssetsInv
<1>5. \A i \in DOMAIN files' : FileFits(files[i])'
  BY <1>1, FileStill DEF AssetsInv, RowsFit
<1> QED
  BY <1>2, <1>3, <1>4, <1>5

\* Files that come as copies of files, of an owner that works in the workspace.
LEMMA CopiesQuiet ==
    ASSUME AssetsInv, NEW c, NEW owner \in Users, NEW org \in BOOLEAN, FilesGrow(c, owner, org),
           UNCHANGED <<folders, moving, store, uploads, removals, links, issuing, issued, contested>>,
           \A i \in DOMAIN files :
               /\ FileFits(files[i])'
               /\ files[i].org \/ files'[i].owner = files[i].owner
    PROVE  /\ FiledFit' /\ StoreFits' /\ LinksFit' /\ IdsGrow
           /\ \A i \in DOMAIN files' : FileFits(files[i])'
<1>1. IdsGrow
  BY FilesCopied DEF AssetsInv
<1>2. /\ born' \in Nat /\ born <= born' /\ DOMAIN c \subseteq DOMAIN files
      /\ \A i \in DOMAIN c : c[i] \in (born + 1)..born'
      /\ DOMAIN files' = DOMAIN files \cup {c[i] : i \in DOMAIN c}
      /\ \A i \in DOMAIN files : SameFile(files[i], files'[i])
      /\ \A i \in DOMAIN c : files'[c[i]] = CopyRow(files[i], owner, org)
  BY DEF FilesGrow
<1>3. \A i \in DOMAIN files : files[i] \in FileRow(born)
  BY DEF AssetsInv, RowsFit, FileFits
<1>4. \A i \in DOMAIN c :
         /\ files'[c[i]].folder = Root /\ files'[c[i]].name = files[i].name
         /\ files'[c[i]].content = files[i].content
         /\ FileFits(files[c[i]])'
  <2> SUFFICES ASSUME NEW i \in DOMAIN c
               PROVE  /\ files'[c[i]].folder = Root /\ files'[c[i]].name = files[i].name
                      /\ files'[c[i]].content = files[i].content
                      /\ FileFits(files[c[i]])'
    OBVIOUS
  <2>1. PICK r, q : r = files[i] /\ q = files'[c[i]] /\ q = CopyRow(r, owner, org)
    BY <1>2
  <2>2. r \in FileRow(born)
    BY <1>2, <1>3, <2>1
  <2>3. owner # Nobody
    BY MediaFoldersAssumption
  <2>4. 1..born \subseteq 1..born'
    BY <1>2 DEF AssetsInv, IdsFit
  <2>5. q \in FileRow(born') /\ q.folder = Root /\ q.name = r.name /\ q.content = r.content
        /\ q.owner = owner /\ ~q.pending
    <3>1. q = [org |-> org, owner |-> owner, vis |-> "private", pending |-> FALSE, folder |-> Root,
               name |-> r.name, content |-> r.content]
      BY <2>1, <2>2 DEF CopyRow, FileRow
    <3>2. r.name \in Names /\ r.content \in 1..born'
      BY <2>2, <2>4 DEF FileRow
    <3> QED
      BY <3>1, <3>2 DEF FileRow, Visibilities
  <2> QED
    BY <2>1, <2>3, <2>5 DEF FileFits, Awaits
<1>5. ASSUME NEW k \in DOMAIN files' PROVE k \in DOMAIN files \/ \E i \in DOMAIN c : k = c[i]
  BY <1>2
<1>6. \A i \in DOMAIN files' : FileFits(files[i])'
  BY <1>4, <1>5
<1>7. FiledFit'
  <2>1. \A i \in DOMAIN files' :
            \/ files'[i].folder = Root
            \/ /\ i \in DOMAIN files /\ files'[i].folder = files[i].folder /\ files'[i].org = files[i].org
               /\ files[i].org \/ files'[i].owner = files[i].owner
    BY <1>2, <1>4, <1>5 DEF SameFile
  <2> QED
    BY <2>1, FiledStill DEF AssetsInv
<1>8. StoreFits'
  <2>1. \A i \in DOMAIN files' : \E j \in DOMAIN files :
            files'[i].name = files[j].name /\ files'[i].content = files[j].content
    BY <1>2, <1>4, <1>5 DEF SameFile
  <2> QED
    BY <1>2, <2>1, StoreStill DEF AssetsInv
<1>9. LinksFit'
  BY <1>1, <1>2, LinksStill DEF AssetsInv, SameFile
<1> QED
  BY <1>1, <1>6, <1>7, <1>8, <1>9

\* Copies that are made while the other files stay as they are.
LEMMA SnapshotQuiet ==
    ASSUME AssetsInv, NEW S \in SUBSET DOMAIN files, NEW owner \in Users, NEW org \in BOOLEAN,
           Snapshot(S, owner, org), NEW n \in Nat, born' = born + Cardinality(S) + n,
           UNCHANGED <<folderVars, store, uploads, removals, links, issuing, issued, contested>>
    PROVE  /\ FoldersFit' /\ FiledFit' /\ StoreFits' /\ LinksFit' /\ IdsGrow
           /\ \A i \in DOMAIN files' : FileFits(files[i])'
           /\ FilesGrow(CopyOf(S), owner, org) /\ DOMAIN CopyOf(S) = S
           /\ \A i \in DOMAIN files : i \in DOMAIN files' /\ files'[i] = files[i]
           /\ DOMAIN files' \subseteq 1..born' /\ DOMAIN files' \cap DOMAIN uploads = {}
           /\ Cardinality(S) \in Nat
<1>1. PICK c : c = CopyOf(S)
  OBVIOUS
<1>2. FilesGrow(c, owner, org) /\ \A i \in DOMAIN files : files'[i] = files[i]
  BY <1>1, SnapshotGrows DEF AssetsInv
<1>3. Cardinality(S) \in Nat /\ DOMAIN c = S
  BY <1>1, CopyFacts DEF AssetsInv
<1>4. born' \in Nat /\ born <= born' /\ born \in Nat
  BY <1>3 DEF AssetsInv, IdsFit
<1>5. UNCHANGED <<folders, moving, members>>
  BY DEF folderVars
<1>6. \A i \in DOMAIN files : FileFits(files[i])' /\ files'[i].owner = files[i].owner
  BY <1>2, <1>4, FileStill DEF AssetsInv, RowsFit
<1>7. /\ FiledFit' /\ StoreFits' /\ LinksFit' /\ IdsGrow
      /\ \A i \in DOMAIN files' : FileFits(files[i])'
  BY <1>2, <1>5, <1>6, CopiesQuiet
<1>8. FoldersFit'
  BY <1>5, FoldersStill DEF AssetsInv
<1>9. /\ DOMAIN files' = DOMAIN files \cup {c[i] : i \in DOMAIN c}
      /\ \A i \in DOMAIN c : c[i] \in (born + 1)..born'
  BY <1>2 DEF FilesGrow
<1>10. DOMAIN files' \subseteq 1..born' /\ DOMAIN files' \cap DOMAIN uploads = {}
  BY <1>4, <1>9 DEF AssetsInv, IdsFit
<1> QED
  BY <1>1, <1>2, <1>3, <1>7, <1>8, <1>9, <1>10

-----------------------------------------------------------------------------
(* Templates. *)

LEMMA CreateTemplateFits ==
    ASSUME AssetsInv, NEW a \in Sessions, NEW kind \in {"campaign", "visual"}, NEW vis \in Visibilities,
           NEW refs, CreateTemplate(a, kind, vis, refs)
    PROVE  AssetsInv'
<1>1. PICK k, r : /\ k = born + 1
                  /\ r = [org |-> a.org, owner |-> a.user, vis |-> vis, pending |-> FALSE, kind |-> kind,
                          refs |-> refs, media |-> refs, default |-> FALSE]
  OBVIOUS
<1>2. /\ born' = k /\ templates' = With(templates, k, r) /\ UNCHANGED <<folderVars, storeVars>>
      /\ campaigns' = campaigns /\ copied' = copied /\ refs \subseteq DOMAIN files
  BY <1>1 DEF CreateTemplate, Reconciles
<1>3. born \in Nat /\ k \in Nat /\ born <= k /\ k \notin 1..born /\ 1..born \subseteq 1..k /\ k \in 1..k
  BY <1>1 DEF AssetsInv, IdsFit
<1>4. files' = files /\ uploads' = uploads
  BY <1>2 DEF storeVars
<1>5. FoldersFit' /\ FiledFit' /\ StoreFits' /\ LinksFit' /\ IdsGrow /\ \A i \in DOMAIN files' : FileFits(files[i])'
  BY <1>2, <1>3, FilesQuiet
<1>6. /\ DOMAIN templates' = DOMAIN templates \cup {k} /\ templates'[k] = r
      /\ \A t \in DOMAIN templates : templates'[t] = templates[t]
      /\ k \notin DOMAIN templates /\ k \notin DOMAIN campaigns /\ DOMAIN templates \subseteq DOMAIN templates'
  BY <1>2, <1>3 DEF With, AssetsInv, IdsFit
<1>7. IdsFit'
  BY <1>2, <1>3, <1>4, <1>6 DEF AssetsInv, IdsFit
<1>8. TemplateFits(r)'
  <2>1. a.user \in Users /\ a.user # Nobody /\ a.org \in BOOLEAN
    BY MediaFoldersAssumption DEF Sessions
  <2>2. refs \in SUBSET (1..born') /\ refs \cap DOMAIN uploads' = {}
    BY <1>2, <1>3, <1>4 DEF AssetsInv, IdsFit
  <2>3. r \in TemplateRow(born', DOMAIN files')
    BY <1>1, <1>2, <1>4, <2>1, <2>2 DEF TemplateRow
  <2> QED
    BY <1>1, <2>1, <2>2, <2>3 DEF TemplateFits, Awaits
<1>9. RowsFit'
  <2>1. \A q : TemplateFits(q) => TemplateFits(q)'
    BY <1>5, TemplateStill DEF AssetsInv
  <2>2. \A q : CampaignFits(q) => CampaignFits(q)'
    BY <1>5, <1>6, CampaignStill DEF AssetsInv
  <2>3. \A t \in DOMAIN templates' : TemplateFits(templates[t])'
    <3> SUFFICES ASSUME NEW t \in DOMAIN templates' PROVE TemplateFits(templates[t])'
      OBVIOUS
    <3>1. CASE t = k
      BY <1>6, <1>8, <3>1
    <3>2. CASE t \in DOMAIN templates
      <4>1. TemplateFits(templates[t])
        BY <3>2 DEF AssetsInv, RowsFit
      <4> QED
        BY <1>6, <2>1, <3>2, <4>1
    <3> QED
      BY <1>6, <3>1, <3>2
  <2> QED
    BY <1>2, <1>5, <2>2, <2>3 DEF AssetsInv, RowsFit
<1>10. CopiesFit'
  <2>1. \A q : Follows(q, q)
    BY <1>4, BodyFollows DEF SameBody
  <2>2. \A t \in DOMAIN templates : t \in DOMAIN templates' /\ Follows(templates[t], templates'[t])
    BY <1>6, <2>1
  <2>3. \A c \in DOMAIN campaigns : c \in DOMAIN campaigns' /\ Follows(campaigns[c], campaigns'[c])
    BY <1>2, <2>1
  <2>4. \A x \in DOMAIN copied : x \in DOMAIN templates' \cup DOMAIN campaigns' /\ Alone(CopyAt(x), copied[x])'
    BY <1>2, <1>4, <1>7, <2>2, <2>3, CopiesStay DEF AssetsInv
  <2> QED
    BY <1>2, <2>4 DEF CopiesFit
<1>11. OneDefault'
  BY <1>1, <1>6, DefaultsStay DEF AssetsInv
<1> QED
  BY <1>5, <1>7, <1>9, <1>10, <1>11 DEF AssetsInv

\* What was copied to a template that is written is forgotten.
LEMMA UpdateTemplateFits ==
    ASSUME AssetsInv, NEW a \in Sessions, NEW x \in DOMAIN templates, NEW vis \in Visibilities,
           NEW refs, UpdateTemplate(a, x, vis, refs)
    PROVE  AssetsInv'
<1>1. /\ templates' = [templates EXCEPT ![x].vis = vis, ![x].refs = refs, ![x].media = refs]
      /\ UNCHANGED <<folderVars, storeVars>> /\ born' = born
      /\ campaigns' = campaigns /\ copied' = Without(copied, {x}) /\ refs \subseteq DOMAIN files
  BY DEF UpdateTemplate, Reconciles
<1>2. files' = files /\ uploads' = uploads
  BY <1>1 DEF storeVars
<1>3. FoldersFit' /\ FiledFit' /\ StoreFits' /\ LinksFit' /\ IdsGrow /\ \A i \in DOMAIN files' : FileFits(files[i])'
  BY <1>1, FilesQuiet DEF AssetsInv, IdsFit
<1>4. PICK r, q : r = templates[x] /\ q = templates'[x] /\ TemplateFits(r)
  BY DEF AssetsInv, RowsFit
<1>5. /\ DOMAIN templates' = DOMAIN templates /\ q = [r EXCEPT !.vis = vis, !.refs = refs, !.media = refs]
      /\ \A t \in DOMAIN templates \ {x} : templates'[t] = templates[t]
  BY <1>1, <1>4
<1>6. IdsFit'
  BY <1>1, <1>2, <1>5 DEF AssetsInv, IdsFit
<1>7. q.owner = r.owner /\ q.org = r.org /\ q.default = r.default /\ TemplateFits(q)'
  <2>1. r \in TemplateRow(born, DOMAIN files) /\ Awaits(r)
    BY <1>4 DEF TemplateFits
  <2>2. refs \in SUBSET (1..born) /\ refs \cap DOMAIN uploads = {} /\ refs \in SUBSET DOMAIN files
    BY <1>1 DEF AssetsInv, IdsFit
  <2>3. /\ q \in TemplateRow(born, DOMAIN files) /\ q.refs = refs /\ q.media = refs
        /\ q.owner = r.owner /\ q.org = r.org /\ q.default = r.default /\ q.pending = r.pending
    BY <1>5, <2>1, <2>2 DEF TemplateRow
  <2> QED
    BY <1>1, <1>2, <2>1, <2>2, <2>3 DEF TemplateFits, Awaits
<1>8. RowsFit'
  <2>1. \A y : TemplateFits(y) => TemplateFits(y)'
    BY <1>3, TemplateStill DEF AssetsInv
  <2>2. \A y : CampaignFits(y) => CampaignFits(y)'
    BY <1>3, <1>5, CampaignStill DEF AssetsInv
  <2>3. \A t \in DOMAIN templates' : TemplateFits(templates[t])'
    <3> SUFFICES ASSUME NEW t \in DOMAIN templates' PROVE TemplateFits(templates[t])'
      OBVIOUS
    <3>1. CASE t = x
      BY <1>4, <1>7, <3>1
    <3>2. CASE t # x
      <4>1. TemplateFits(templates[t])
        BY <1>5 DEF AssetsInv, RowsFit
      <4> QED
        BY <1>5, <2>1, <3>2, <4>1
    <3> QED
      BY <3>1, <3>2
  <2> QED
    BY <1>1, <1>3, <2>2, <2>3 DEF AssetsInv, RowsFit
<1>9. CopiesFit'
  <2> DEFINE K == DOMAIN copied \ {x}
  <2>1. DOMAIN copied' = K /\ \A k \in K : copied'[k] = copied[k]
    BY <1>1 DEF Without
  <2>2. \A y : Follows(y, y)
    BY <1>2, BodyFollows DEF SameBody
  <2>3. \A t \in K \cap DOMAIN templates : t \in DOMAIN templates' /\ Follows(templates[t], templates'[t])
    BY <1>5, <2>2
  <2>4. \A c \in K \cap DOMAIN campaigns : c \in DOMAIN campaigns' /\ Follows(campaigns[c], campaigns'[c])
    BY <1>1, <2>2
  <2> HIDE DEF K
  <2>5. K \subseteq DOMAIN copied
    BY DEF K
  <2>6. \A k \in K : k \in DOMAIN templates' \cup DOMAIN campaigns' /\ Alone(CopyAt(k), copied[k])'
    BY <1>2, <1>6, <2>1, <2>3, <2>4, <2>5, CopiesStay DEF AssetsInv
  <2> QED
    BY <2>1, <2>6 DEF CopiesFit
<1>10. OneDefault'
  <2>1. \A t \in DOMAIN templates' :
           /\ templates'[t].default = templates[t].default /\ templates'[t].owner = templates[t].owner
           /\ templates'[t].org = templates[t].org
    BY <1>4, <1>5, <1>7
  <2> QED
    BY <1>5, <2>1, DefaultsStay DEF AssetsInv
<1> QED
  BY <1>3, <1>6, <1>8, <1>9, <1>10 DEF AssetsInv

LEMMA SetDefaultFits ==
    ASSUME AssetsInv, NEW a \in Sessions, NEW x \in DOMAIN templates, SetDefault(a, x)
    PROVE  AssetsInv'
<1>1. /\ templates' = [s \in DOMAIN templates |->
                          IF s = x \/ s \in Defaults(a.user, a.org)
                          THEN [templates[s] EXCEPT !.default = (s = x)] ELSE templates[s]]
      /\ UNCHANGED <<folderVars, storeVars>> /\ born' = born /\ campaigns' = campaigns /\ copied' = copied
      /\ templates[x].org = a.org /\ templates[x].owner = a.user
  BY DEF SetDefault, Manages
<1>2. files' = files /\ uploads' = uploads
  BY <1>1 DEF storeVars
<1>3. FoldersFit' /\ FiledFit' /\ StoreFits' /\ LinksFit' /\ IdsGrow /\ \A i \in DOMAIN files' : FileFits(files[i])'
  BY <1>1, FilesQuiet DEF AssetsInv, IdsFit
<1>4. DOMAIN templates' = DOMAIN templates
  BY <1>1
<1>5. IdsFit'
  BY <1>1, <1>2, <1>4 DEF AssetsInv, IdsFit
<1>6. ASSUME NEW t \in DOMAIN templates
      PROVE  /\ TemplateFits(templates[t])' /\ SameBody(templates[t], templates'[t])
             /\ templates'[t].default =
                   IF t = x \/ t \in Defaults(a.user, a.org) THEN t = x ELSE templates[t].default
  <2>1. PICK r, q, b : r = templates[t] /\ q = templates'[t] /\ b = (t = x) /\ TemplateFits(r)
    BY DEF AssetsInv, RowsFit
  <2>2. r \in TemplateRow(born, DOMAIN files) /\ Awaits(r) /\ b \in BOOLEAN
    BY <2>1 DEF TemplateFits
  <2>3. CASE t = x \/ t \in Defaults(a.user, a.org)
    <3>1. q = [r EXCEPT !.default = b]
      BY <1>1, <2>1, <2>3
    <3>2. /\ q \in TemplateRow(born, DOMAIN files) /\ q.default = b /\ q.refs = r.refs /\ q.media = r.media
          /\ q.owner = r.owner /\ q.org = r.org /\ q.pending = r.pending
      BY <2>2, <3>1 DEF TemplateRow
    <3>3. TemplateFits(q)'
      BY <1>1, <1>2, <2>1, <2>2, <3>2 DEF TemplateFits, Awaits
    <3> QED
      BY <2>1, <2>3, <3>2, <3>3 DEF SameBody
  <2>4. CASE ~(t = x \/ t \in Defaults(a.user, a.org))
    <3>1. q = r
      BY <1>1, <2>1, <2>4
    <3>2. TemplateFits(r)'
      BY <1>3, <2>1, TemplateStill DEF AssetsInv
    <3> QED
      BY <2>1, <2>4, <3>1, <3>2 DEF SameBody
  <2> QED
    BY <2>3, <2>4
<1>7. RowsFit'
  <2>1. \A y : CampaignFits(y) => CampaignFits(y)'
    BY <1>3, <1>4, CampaignStill DEF AssetsInv
  <2> QED
    BY <1>1, <1>3, <1>4, <1>6, <2>1 DEF AssetsInv, RowsFit
<1>8. CopiesFit'
  <2>1. \A t \in DOMAIN templates : t \in DOMAIN templates' /\ Follows(templates[t], templates'[t])
    BY <1>2, <1>4, <1>6, BodyFollows
  <2>2. \A c \in DOMAIN campaigns : c \in DOMAIN campaigns' /\ Follows(campaigns[c], campaigns'[c])
    BY <1>1, <1>2, BodyFollows DEF SameBody
  <2>3. \A k \in DOMAIN copied : k \in DOMAIN templates' \cup DOMAIN campaigns' /\ Alone(CopyAt(k), copied[k])'
    BY <1>1, <1>2, <1>5, <2>1, <2>2, CopiesStay DEF AssetsInv
  <2> QED
    BY <1>1, <2>3 DEF CopiesFit
<1>9. OneDefault'
  <2>1. ASSUME NEW t \in DOMAIN templates, templates'[t].default
        PROVE  \/ t = x
               \/ templates[t].default /\ ~(templates[t].owner = a.user /\ templates[t].org = a.org)
    BY <1>6, <2>1 DEF Defaults
  <2>2. \A t \in DOMAIN templates :
            templates'[t].owner = templates[t].owner /\ templates'[t].org = templates[t].org
    BY <1>6 DEF SameBody
  <2> SUFFICES ASSUME NEW s \in DOMAIN templates, NEW t \in DOMAIN templates,
                      templates'[s].default, templates'[t].default,
                      templates[s].owner = templates[t].owner, templates[s].org = templates[t].org,
                      templates[s].owner # Nobody
               PROVE  s = t
    BY <1>4, <2>2 DEF OneDefault
  <2>3. CASE s = x \/ t = x
    BY <1>1, <2>1, <2>3
  <2>4. CASE s # x /\ t # x
    BY <2>1, <2>4 DEF AssetsInv, OneDefault
  <2> QED
    BY <2>3, <2>4
<1> QED
  BY <1>3, <1>5, <1>7, <1>8, <1>9 DEF AssetsInv

\* The default that campaigns of the template get is another one.
LEMMA DeleteTemplateFits ==
    ASSUME AssetsInv, NEW a \in Sessions, NEW x \in DOMAIN templates, DeleteTemplate(a, x)
    PROVE  AssetsInv'
<1>1. /\ templates' = Without(templates, {x}) /\ ~templates[x].default
      /\ campaigns' = [c \in DOMAIN campaigns |->
                          IF campaigns[c].template = x
                          THEN [campaigns[c] EXCEPT !.template = Fallback(campaigns[c].owner, campaigns[c].org)]
                          ELSE campaigns[c]]
      /\ copied' = Without(copied, {x} \cup {c \in DOMAIN campaigns : campaigns[c].template = x})
      /\ UNCHANGED <<folderVars, storeVars>> /\ born' = born
  BY DEF DeleteTemplate
<1>2. files' = files /\ uploads' = uploads
  BY <1>1 DEF storeVars
<1>3. FoldersFit' /\ FiledFit' /\ StoreFits' /\ LinksFit' /\ IdsGrow /\ \A i \in DOMAIN files' : FileFits(files[i])'
  BY <1>1, FilesQuiet DEF AssetsInv, IdsFit
<1>4. /\ DOMAIN templates' = DOMAIN templates \ {x} /\ \A t \in DOMAIN templates' : templates'[t] = templates[t]
      /\ DOMAIN campaigns' = DOMAIN campaigns
  BY <1>1 DEF Without
<1>5. IdsFit'
  BY <1>1, <1>2, <1>4 DEF AssetsInv, IdsFit
<1>6. ASSUME NEW c \in DOMAIN campaigns
      PROVE  CampaignFits(campaigns[c])' /\ SameBody(campaigns[c], campaigns'[c])
  <2>1. PICK r, q, d : /\ r = campaigns[c] /\ q = campaigns'[c] /\ d = Fallback(r.owner, r.org)
                       /\ CampaignFits(r)
    BY DEF AssetsInv, RowsFit
  <2>2. r \in CampaignRow(born, DOMAIN files, DOMAIN templates) /\ Awaits(r)
    BY <2>1 DEF CampaignFits
  <2>3. d \in DOMAIN templates' \cup {None}
    <3>1. d # None => d \in DOMAIN templates /\ templates[d].default
      BY <2>1, DefaultFacts DEF Fallback, AssetsInv
    <3> QED
      BY <1>1, <1>4, <3>1
  <2>4. CASE r.template = x
    <3>1. q = [r EXCEPT !.template = d]
      BY <1>1, <2>1, <2>4
    <3>2. /\ q \in CampaignRow(born, DOMAIN files, DOMAIN templates') /\ q.refs = r.refs
          /\ q.owner = r.owner /\ q.org = r.org /\ q.pending = r.pending
      BY <2>2, <2>3, <3>1 DEF CampaignRow
    <3> QED
      BY <1>1, <1>2, <2>1, <2>2, <3>2 DEF CampaignFits, Awaits, SameBody
  <2>5. CASE r.template # x
    <3>1. q = r
      BY <1>1, <2>1, <2>5
    <3>2. r \in CampaignRow(born, DOMAIN files, DOMAIN templates')
      BY <1>4, <2>2, <2>5 DEF CampaignRow
    <3> QED
      BY <1>1, <1>2, <2>1, <2>2, <3>1, <3>2 DEF CampaignFits, Awaits, SameBody
  <2> QED
    BY <2>4, <2>5
<1>7. RowsFit'
  <2>1. \A y : TemplateFits(y) => TemplateFits(y)'
    BY <1>3, TemplateStill DEF AssetsInv
  <2>2. \A t \in DOMAIN templates' : TemplateFits(templates[t])'
    BY <1>4, <2>1 DEF AssetsInv, RowsFit
  <2> QED
    BY <1>3, <1>4, <1>6, <2>2 DEF RowsFit
<1>8. CopiesFit'
  <2> DEFINE K == DOMAIN copied \ ({x} \cup {c \in DOMAIN campaigns : campaigns[c].template = x})
  <2>1. DOMAIN copied' = K /\ \A k \in K : copied'[k] = copied[k]
    BY <1>1 DEF Without
  <2>2. \A y : Follows(y, y)
    BY <1>2, BodyFollows DEF SameBody
  <2>3. \A t \in K \cap DOMAIN templates : t \in DOMAIN templates' /\ Follows(templates[t], templates'[t])
    BY <1>4, <2>2
  <2>4. \A c \in K \cap DOMAIN campaigns : c \in DOMAIN campaigns' /\ Follows(campaigns[c], campaigns'[c])
    BY <1>2, <1>4, <1>6, BodyFollows
  <2>5. K \subseteq DOMAIN copied
    OBVIOUS
  <2> HIDE DEF K
  <2>6. \A k \in K : k \in DOMAIN templates' \cup DOMAIN campaigns' /\ Alone(CopyAt(k), copied[k])'
    BY <1>2, <1>5, <2>1, <2>3, <2>4, <2>5, CopiesStay DEF AssetsInv
  <2> QED
    BY <2>1, <2>6 DEF CopiesFit
<1>9. OneDefault'
  BY <1>4, DefaultsStay DEF AssetsInv
<1> QED
  BY <1>3, <1>5, <1>7, <1>8, <1>9 DEF AssetsInv

LEMMA CloneTemplateFits ==
    ASSUME AssetsInv, NEW a \in Sessions, NEW b \in Sessions, NEW x \in DOMAIN templates,
           CloneTemplate(a, b, x)
    PROVE  AssetsInv'
<1>1. PICK r, S, c, k, q :
          /\ r = templates[x] /\ S = Associated(r) /\ c = CopyOf(S) /\ k = born + Cardinality(S) + 1
          /\ q = [r EXCEPT !.owner = b.user, !.org = b.org, !.vis = "private", !.default = FALSE,
                           !.refs = Rewrite(r.refs, c), !.media = Rewrite(S, c)]
  OBVIOUS
<1>2. /\ ~r.pending /\ Snapshot(S, b.user, b.org)
      /\ templates' = With(templates, k, q) /\ copied' = With(copied, k, Shown(r.refs, {})) /\ born' = k
      /\ UNCHANGED <<folderVars, store, uploads, removals, links, issuing, issued, contested, campaigns>>
  BY <1>1 DEF CloneTemplate, Usable
<1>3. /\ TemplateFits(r) /\ r \in TemplateRow(born, DOMAIN files) /\ S = r.media /\ S \in SUBSET DOMAIN files
      /\ r.refs \in SUBSET (1..born) /\ r.refs \cap DOMAIN uploads = {} /\ r.refs \cap DOMAIN files \subseteq S
  <2>1. TemplateFits(r)
    BY <1>1 DEF AssetsInv, RowsFit
  <2> QED
    BY <1>1, <2>1 DEF TemplateFits, TemplateRow, Associated
<1>4. b.user \in Users /\ b.user # Nobody /\ b.org \in BOOLEAN
  BY MediaFoldersAssumption DEF Sessions
<1>5. /\ FoldersFit' /\ FiledFit' /\ StoreFits' /\ LinksFit' /\ IdsGrow
      /\ \A i \in DOMAIN files' : FileFits(files[i])'
      /\ FilesGrow(c, b.user, b.org) /\ DOMAIN c = S
      /\ \A i \in DOMAIN files : i \in DOMAIN files' /\ files'[i] = files[i]
      /\ DOMAIN files' \subseteq 1..born' /\ DOMAIN files' \cap DOMAIN uploads = {}
      /\ Cardinality(S) \in Nat
  BY <1>1, <1>2, <1>3, <1>4, SnapshotQuiet
<1>6. born \in Nat /\ k \in Nat /\ born < k /\ k \notin 1..born /\ 1..born \subseteq 1..k /\ k \in 1..k
  BY <1>1, <1>5 DEF AssetsInv, IdsFit
<1>7. /\ DOMAIN templates' = DOMAIN templates \cup {k} /\ templates'[k] = q
      /\ \A t \in DOMAIN templates : templates'[t] = templates[t]
      /\ k \notin DOMAIN templates /\ k \notin DOMAIN campaigns /\ DOMAIN templates \subseteq DOMAIN templates'
  BY <1>2, <1>6 DEF With, AssetsInv, IdsFit
<1>8. IdsFit'
  BY <1>2, <1>5, <1>6, <1>7 DEF AssetsInv, IdsFit
<1>9. /\ Rewrite(r.refs, c) \in SUBSET (1..born') /\ Rewrite(r.refs, c) \cap DOMAIN uploads = {}
      /\ Rewrite(S, c) \in SUBSET DOMAIN files'
      /\ Rewrite(r.refs, c) \cap DOMAIN files' \subseteq Rewrite(S, c)
  BY <1>3, <1>5, RewriteFacts DEF AssetsInv
<1>10. /\ q \in TemplateRow(born', DOMAIN files') /\ q.refs = Rewrite(r.refs, c) /\ q.media = Rewrite(S, c)
       /\ q.owner = b.user /\ q.org = b.org /\ ~q.pending /\ ~q.default
  <2>1. q = [org |-> b.org, owner |-> b.user, vis |-> "private", pending |-> FALSE, kind |-> r.kind,
             refs |-> Rewrite(r.refs, c), media |-> Rewrite(S, c), default |-> FALSE]
    BY <1>1, <1>2, <1>3 DEF TemplateRow
  <2>2. r.kind \in {"campaign", "visual"}
    BY <1>3 DEF TemplateRow
  <2> QED
    BY <1>4, <1>9, <2>1, <2>2 DEF TemplateRow, Visibilities
<1>11. TemplateFits(q)'
  BY <1>2, <1>4, <1>9, <1>10 DEF TemplateFits, Awaits
<1>12. RowsFit'
  <2>1. \A y : TemplateFits(y) => TemplateFits(y)'
    BY <1>5, TemplateStill DEF AssetsInv
  <2>2. \A y : CampaignFits(y) => CampaignFits(y)'
    BY <1>5, <1>7, CampaignStill DEF AssetsInv
  <2>3. \A t \in DOMAIN templates' : TemplateFits(templates[t])'
    <3> SUFFICES ASSUME NEW t \in DOMAIN templates' PROVE TemplateFits(templates[t])'
      OBVIOUS
    <3>1. CASE t = k
      BY <1>7, <1>11, <3>1
    <3>2. CASE t \in DOMAIN templates
      <4>1. TemplateFits(templates[t])
        BY <3>2 DEF AssetsInv, RowsFit
      <4> QED
        BY <1>7, <2>1, <3>2, <4>1
    <3> QED
      BY <1>7, <3>1, <3>2
  <2> QED
    BY <1>2, <1>5, <2>2, <2>3 DEF AssetsInv, RowsFit
<1>13. CopiesFit'
  <2>1. PICK s : s = Shown(r.refs, {})
    OBVIOUS
  <2>2. Alone(q, s)'
    BY <1>3, <1>5, <1>10, <2>1, AloneCopied DEF AssetsInv
  <2>3. \A y : Follows(y, y)
    BY <1>5, BodyFollows DEF SameBody
  <2>4. \A t \in DOMAIN templates : t \in DOMAIN templates' /\ Follows(templates[t], templates'[t])
    BY <1>7, <2>3
  <2>5. \A y \in DOMAIN campaigns : y \in DOMAIN campaigns' /\ Follows(campaigns[y], campaigns'[y])
    BY <1>2, <2>3
  <2>6. /\ DOMAIN copied' = DOMAIN copied \cup {k} /\ copied'[k] = s
        /\ \A y \in DOMAIN copied : copied'[y] = copied[y] /\ y # k
    BY <1>2, <1>7, <2>1 DEF With, AssetsInv, CopiesFit
  <2>7. \A y \in DOMAIN copied : y \in DOMAIN templates' \cup DOMAIN campaigns' /\ Alone(CopyAt(y), copied[y])'
    BY <1>5, <1>8, <2>4, <2>5, <2>6, CopiesStay DEF AssetsInv, IdsGrow
  <2>8. k \in DOMAIN templates' /\ Alone(CopyAt(k), copied[k])'
    BY <1>7, <2>2, <2>6 DEF CopyAt, Alone, Own, Contents
  <2> QED
    BY <2>6, <2>7, <2>8 DEF CopiesFit
<1>14. OneDefault'
  BY <1>7, <1>10, DefaultsStay DEF AssetsInv
<1> QED
  BY <1>5, <1>8, <1>12, <1>13, <1>14 DEF AssetsInv

-----------------------------------------------------------------------------
(* Campaigns. *)

LEMMA WriteFacts ==
    ASSUME IdsFit, NEW r \in CampaignRow(born, DOMAIN files, DOMAIN templates),
           NEW refs \in SUBSET DOMAIN files, NEW t \in DOMAIN templates \cup {None}
    PROVE  /\ Write(r, refs, t) \in CampaignRow(born, DOMAIN files, DOMAIN templates)
           /\ Write(r, refs, t).refs = refs /\ Write(r, refs, t).owner = r.owner
           /\ Write(r, refs, t).org = r.org /\ Write(r, refs, t).pending = r.pending
<1>1. PICK N, M : N = Needed(refs, {}, t) /\ M = {i \in N : i \in r.media \/ UsableFile(OwnerOf(r), i)}
  OBVIOUS
<1>2. Write(r, refs, t) = [r EXCEPT !.refs = refs, !.template = t, !.visual = FALSE, !.media = M]
  BY <1>1 DEF Write, CampaignRow
<1>3. M \in SUBSET DOMAIN files /\ refs \in SUBSET (1..born)
  BY <1>1 DEF Needed, IdsFit
<1> HIDE DEF Write
<1> QED
  BY <1>2, <1>3 DEF CampaignRow

\* The body with the template's, which its owner may read.
LEMMA RepairedFacts ==
    ASSUME IdsFit, NEW r \in CampaignRow(born, DOMAIN files, DOMAIN templates), Repairable(r)
    PROVE  /\ Repaired(r) \in CampaignRow(born, DOMAIN files, DOMAIN templates)
           /\ SameBody(r, Repaired(r)) /\ Repaired(r).pending = r.pending
           /\ Repaired(r).template = r.template /\ Repaired(r).visual = r.visual
           /\ r.refs \subseteq DOMAIN files
           /\ r.refs \subseteq Repaired(r).media \cup TemplateMedia(r.template)
<1>1. PICK N : N = Needed(StoredBody(r), Associated(r), r.template)
  OBVIOUS
<1>2. StoredBody(r) \cup Associated(r) \subseteq DOMAIN files
  BY DEF Repairable, Reconciles
<1>3. Repaired(r) = [r EXCEPT !.media = N]
  BY <1>1 DEF Repaired
<1>4. N \in SUBSET DOMAIN files /\ r.refs \subseteq StoredBody(r) /\ StoredBody(r) \subseteq N \cup TemplateMedia(r.template)
  BY <1>1, <1>2 DEF Needed, StoredBody
<1> QED
  BY <1>2, <1>3, <1>4 DEF CampaignRow, SameBody

LEMMA CreateCampaignFits ==
    ASSUME AssetsInv, NEW a \in Sessions, NEW t \in DOMAIN templates \cup {None}, NEW refs,
           CreateCampaign(a, t, refs)
    PROVE  AssetsInv'
<1>1. PICK k, d, w, q : /\ k = born + 1 /\ d = (IF t = None THEN DefaultFor(a.user, a.org) ELSE t)
                        /\ w = Write(Draft(a), refs, t) /\ q = [w EXCEPT !.template = d]
  OBVIOUS
<1>2. /\ born' = k /\ campaigns' = With(campaigns, k, q) /\ UNCHANGED <<folderVars, storeVars>>
      /\ templates' = templates /\ copied' = copied /\ refs \in SUBSET DOMAIN files
  BY <1>1 DEF CreateCampaign, Reconciles
<1>3. born \in Nat /\ k \in Nat /\ born <= k /\ k \notin 1..born /\ 1..born \subseteq 1..k /\ k \in 1..k
  BY <1>1 DEF AssetsInv, IdsFit
<1>4. files' = files /\ uploads' = uploads
  BY <1>2 DEF storeVars
<1>5. FoldersFit' /\ FiledFit' /\ StoreFits' /\ LinksFit' /\ IdsGrow /\ \A i \in DOMAIN files' : FileFits(files[i])'
  BY <1>2, <1>3, FilesQuiet
<1>6. /\ DOMAIN campaigns' = DOMAIN campaigns \cup {k} /\ campaigns'[k] = q
      /\ \A c \in DOMAIN campaigns : campaigns'[c] = campaigns[c]
      /\ k \notin DOMAIN templates /\ k \notin DOMAIN campaigns
  BY <1>2, <1>3 DEF With, AssetsInv, IdsFit
<1>7. IdsFit'
  BY <1>2, <1>3, <1>4, <1>6 DEF AssetsInv, IdsFit
<1>8. CampaignFits(q)'
  <2>1. a.user \in Users /\ a.user # Nobody /\ a.org \in BOOLEAN
    BY MediaFoldersAssumption DEF Sessions
  <2>2. Draft(a) \in CampaignRow(born, DOMAIN files, DOMAIN templates) /\ Draft(a).owner = a.user /\ ~Draft(a).pending
    BY <2>1 DEF Draft, CampaignRow
  <2>3. w \in CampaignRow(born, DOMAIN files, DOMAIN templates) /\ w.owner = a.user /\ ~w.pending /\ w.refs = refs
    BY <1>1, <1>2, <2>2, WriteFacts DEF AssetsInv
  <2>4. d \in DOMAIN templates \cup {None}
    BY <1>1, DefaultFacts DEF AssetsInv
  <2>5. q \in CampaignRow(born', DOMAIN files', DOMAIN templates') /\ q.owner = a.user /\ ~q.pending /\ q.refs = refs
    BY <1>1, <1>2, <1>3, <1>4, <2>3, <2>4 DEF CampaignRow
  <2>6. refs \cap DOMAIN uploads = {}
    BY <1>2 DEF AssetsInv, IdsFit
  <2> QED
    BY <1>4, <2>1, <2>5, <2>6 DEF CampaignFits, Awaits
<1>9. RowsFit'
  <2>1. \A y : TemplateFits(y) => TemplateFits(y)'
    BY <1>5, TemplateStill DEF AssetsInv
  <2>2. \A y : CampaignFits(y) => CampaignFits(y)'
    BY <1>2, <1>5, CampaignStill DEF AssetsInv
  <2>3. \A c \in DOMAIN campaigns' : CampaignFits(campaigns[c])'
    <3> SUFFICES ASSUME NEW c \in DOMAIN campaigns' PROVE CampaignFits(campaigns[c])'
      OBVIOUS
    <3>1. CASE c = k
      BY <1>6, <1>8, <3>1
    <3>2. CASE c \in DOMAIN campaigns
      <4>1. CampaignFits(campaigns[c])
        BY <3>2 DEF AssetsInv, RowsFit
      <4> QED
        BY <1>6, <2>2, <3>2, <4>1
    <3> QED
      BY <1>6, <3>1, <3>2
  <2> QED
    BY <1>2, <1>5, <2>1, <2>3 DEF AssetsInv, RowsFit
<1>10. CopiesFit'
  <2>1. \A y : Follows(y, y)
    BY <1>4, BodyFollows DEF SameBody
  <2>2. \A y \in DOMAIN templates : y \in DOMAIN templates' /\ Follows(templates[y], templates'[y])
    BY <1>2, <2>1
  <2>3. \A c \in DOMAIN campaigns : c \in DOMAIN campaigns' /\ Follows(campaigns[c], campaigns'[c])
    BY <1>6, <2>1
  <2>4. \A x \in DOMAIN copied : x \in DOMAIN templates' \cup DOMAIN campaigns' /\ Alone(CopyAt(x), copied[x])'
    BY <1>2, <1>4, <1>7, <2>2, <2>3, CopiesStay DEF AssetsInv
  <2> QED
    BY <1>2, <2>4 DEF CopiesFit
<1>11. OneDefault'
  BY <1>2, DefaultsStay DEF AssetsInv
<1> QED
  BY <1>5, <1>7, <1>9, <1>10, <1>11 DEF AssetsInv

\* One campaign is written, and what was copied to it forgotten or as it was.
LEMMA CampaignWritten ==
    ASSUME AssetsInv, UNCHANGED <<folderVars, storeVars, born, templates>>,
           NEW x \in DOMAIN campaigns, NEW q, campaigns' = [campaigns EXCEPT ![x] = q], CampaignFits(q),
           \/ copied' = Without(copied, {x})
           \/ copied' = copied /\ SameBody(campaigns[x], q)
    PROVE  AssetsInv'
<1>1. files' = files /\ uploads' = uploads /\ born' = born /\ templates' = templates
  BY DEF storeVars
<1>2. FoldersFit' /\ FiledFit' /\ StoreFits' /\ LinksFit' /\ IdsGrow /\ \A i \in DOMAIN files' : FileFits(files[i])'
  BY <1>1, FilesQuiet DEF AssetsInv, IdsFit
<1>3. /\ DOMAIN campaigns' = DOMAIN campaigns /\ campaigns'[x] = q
      /\ \A c \in DOMAIN campaigns \ {x} : campaigns'[c] = campaigns[c]
  OBVIOUS
<1>4. IdsFit'
  BY <1>1, <1>3 DEF AssetsInv, IdsFit
<1>5. RowsFit'
  <2>1. \A y : (TemplateFits(y) => TemplateFits(y)') /\ (CampaignFits(y) => CampaignFits(y)')
    BY <1>1, <1>2, TemplateStill, CampaignStill DEF AssetsInv
  <2>2. \A c \in DOMAIN campaigns' : CampaignFits(campaigns[c])'
    <3> SUFFICES ASSUME NEW c \in DOMAIN campaigns PROVE CampaignFits(campaigns[c])'
      BY <1>3
    <3>1. CampaignFits(campaigns[c])
      BY DEF AssetsInv, RowsFit
    <3> QED
      BY <1>3, <2>1, <3>1
  <2> QED
    BY <1>1, <1>2, <2>1, <2>2 DEF AssetsInv, RowsFit
<1>6. CopiesFit'
  <2>1. \A y, z : SameBody(y, z) => Follows(y, z)
    BY <1>1, BodyFollows
  <2>2. \A y : Follows(y, y)
    BY <2>1 DEF SameBody
  <2>3. PICK K : /\ K \subseteq DOMAIN copied /\ DOMAIN copied' = K /\ \A k \in K : copied'[k] = copied[k]
                 /\ x \in K => SameBody(campaigns[x], q)
    <3>1. CASE copied' = Without(copied, {x})
      <4>1. DOMAIN copied' = DOMAIN copied \ {x} /\ \A k \in DOMAIN copied \ {x} : copied'[k] = copied[k]
        BY <3>1 DEF Without
      <4> QED
        BY <4>1
    <3>2. CASE copied' = copied /\ SameBody(campaigns[x], q)
      BY <3>2
    <3> QED
      BY <3>1, <3>2
  <2>4. \A t \in K \cap DOMAIN templates : t \in DOMAIN templates' /\ Follows(templates[t], templates'[t])
    BY <1>1, <2>2
  <2>5. \A c \in K \cap DOMAIN campaigns : c \in DOMAIN campaigns' /\ Follows(campaigns[c], campaigns'[c])
    BY <1>3, <2>1, <2>2, <2>3
  <2>6. \A k \in K : k \in DOMAIN templates' \cup DOMAIN campaigns' /\ Alone(CopyAt(k), copied[k])'
    BY <1>1, <1>4, <2>3, <2>4, <2>5, CopiesStay DEF AssetsInv
  <2> QED
    BY <2>3, <2>6 DEF CopiesFit
<1>7. OneDefault'
  BY <1>1, DefaultsStay DEF AssetsInv
<1> QED
  BY <1>2, <1>4, <1>5, <1>6, <1>7 DEF AssetsInv

LEMMA UpdateCampaignFits ==
    ASSUME AssetsInv, NEW a \in Sessions, NEW x \in DOMAIN campaigns,
           NEW t \in DOMAIN templates \cup {None}, NEW refs, UpdateCampaign(a, x, t, refs)
    PROVE  AssetsInv'
<1>1. PICK r, q : r = campaigns[x] /\ q = Write(r, refs, t)
  OBVIOUS
<1>2. /\ campaigns' = [campaigns EXCEPT ![x] = q] /\ copied' = Without(copied, {x})
      /\ UNCHANGED <<folderVars, storeVars, born, templates>> /\ refs \in SUBSET DOMAIN files
  BY <1>1 DEF UpdateCampaign, Reconciles
<1>3. CampaignFits(r)
  BY <1>1 DEF AssetsInv, RowsFit
<1>4. r \in CampaignRow(born, DOMAIN files, DOMAIN templates) /\ Awaits(r)
  BY <1>3 DEF CampaignFits
<1>5. /\ q \in CampaignRow(born, DOMAIN files, DOMAIN templates) /\ q.refs = refs /\ q.owner = r.owner
      /\ q.org = r.org /\ q.pending = r.pending
  BY <1>1, <1>2, <1>4, WriteFacts DEF AssetsInv
<1>6. CampaignFits(q)
  BY <1>2, <1>4, <1>5 DEF CampaignFits, Awaits, AssetsInv, IdsFit
<1> QED
  BY <1>2, <1>6, CampaignWritten

LEMMA StartCampaignFits ==
    ASSUME AssetsInv, NEW a \in Sessions, NEW x \in DOMAIN campaigns, StartCampaign(a, x)
    PROVE  AssetsInv'
<1>1. PICK r, p, q : r = campaigns[x] /\ p = Repaired(r) /\ q = [p EXCEPT !.status = "running"]
  OBVIOUS
<1>2. /\ campaigns' = [campaigns EXCEPT ![x] = q] /\ copied' = copied /\ Repairable(r)
      /\ UNCHANGED <<folderVars, storeVars, born, templates>>
  BY <1>1 DEF StartCampaign
<1>3. CampaignFits(r)
  BY <1>1 DEF AssetsInv, RowsFit
<1>4. r \in CampaignRow(born, DOMAIN files, DOMAIN templates)
  BY <1>3 DEF CampaignFits
<1>5. p \in CampaignRow(born, DOMAIN files, DOMAIN templates) /\ SameBody(r, p) /\ p.pending = r.pending
  BY <1>1, <1>2, <1>4, RepairedFacts DEF AssetsInv
<1>6. q \in CampaignRow(born, DOMAIN files, DOMAIN templates) /\ SameBody(r, q) /\ q.pending = r.pending
  BY <1>1, <1>5 DEF CampaignRow, SameBody
<1>7. CampaignFits(q)
  BY <1>3, <1>6 DEF CampaignFits, Awaits, SameBody
<1> QED
  BY <1>1, <1>2, <1>6, <1>7, CampaignWritten

\* The body of a visual template, with copies of every file that it names.
LEMMA ImportVisualFits ==
    ASSUME AssetsInv, NEW a \in Sessions, NEW x \in DOMAIN campaigns, NEW t \in DOMAIN templates,
           ImportVisual(a, x, t)
    PROVE  AssetsInv'
<1>1. PICK v, S, c, r, q :
          /\ v = templates[t] /\ S = Associated(v) /\ c = CopyOf(S) /\ r = campaigns[x]
          /\ q = [r EXCEPT !.refs = Rewrite(v.refs, c), !.media = Rewrite(S, c),
                           !.template = None, !.visual = TRUE]
  OBVIOUS
<1>2. /\ Snapshot(S, a.user, a.org) /\ r.owner = a.user /\ r.org = a.org /\ ~r.pending
      /\ campaigns' = [campaigns EXCEPT ![x] = q] /\ copied' = With(copied, x, Shown(v.refs, {}))
      /\ born' = born + Cardinality(S) /\ templates' = templates
      /\ UNCHANGED <<folderVars, store, uploads, removals, links, issuing, issued, contested>>
  BY <1>1 DEF ImportVisual, Manages
<1>3. /\ S \in SUBSET DOMAIN files /\ v.refs \in SUBSET (1..born) /\ v.refs \cap DOMAIN uploads = {}
      /\ v.refs \cap DOMAIN files \subseteq S
  <2>1. TemplateFits(v)
    BY <1>1 DEF AssetsInv, RowsFit
  <2> QED
    BY <1>1, <2>1 DEF TemplateFits, TemplateRow, Associated
<1>4. a.user \in Users /\ a.user # Nobody /\ a.org \in BOOLEAN
  BY MediaFoldersAssumption DEF Sessions
<1>5. /\ FoldersFit' /\ FiledFit' /\ StoreFits' /\ LinksFit' /\ IdsGrow
      /\ \A i \in DOMAIN files' : FileFits(files[i])'
      /\ FilesGrow(c, a.user, a.org) /\ DOMAIN c = S
      /\ \A i \in DOMAIN files : i \in DOMAIN files' /\ files'[i] = files[i]
      /\ DOMAIN files' \subseteq 1..born' /\ DOMAIN files' \cap DOMAIN uploads = {}
      /\ Cardinality(S) \in Nat
  <2>1. 0 \in Nat /\ born' = born + Cardinality(S) + 0
    BY <1>2, <1>3, CopyFacts DEF AssetsInv, IdsFit
  <2> QED
    BY <1>1, <1>2, <1>3, <1>4, <2>1, SnapshotQuiet
<1>6. /\ DOMAIN campaigns' = DOMAIN campaigns /\ campaigns'[x] = q
      /\ \A y \in DOMAIN campaigns \ {x} : campaigns'[y] = campaigns[y]
  BY <1>2
<1>7. IdsFit'
  <2>1. born \in Nat /\ born' \in Nat /\ 1..born \subseteq 1..born'
    BY <1>2, <1>5 DEF AssetsInv, IdsFit
  <2> QED
    BY <1>2, <1>5, <1>6, <2>1 DEF AssetsInv, IdsFit
<1>8. /\ Rewrite(v.refs, c) \in SUBSET (1..born') /\ Rewrite(v.refs, c) \cap DOMAIN uploads = {}
      /\ Rewrite(S, c) \in SUBSET DOMAIN files'
  BY <1>3, <1>5, RewriteFacts DEF AssetsInv
<1>9. CampaignFits(r) /\ r \in CampaignRow(born, DOMAIN files, DOMAIN templates)
  <2>1. CampaignFits(r)
    BY <1>1 DEF AssetsInv, RowsFit
  <2> QED
    BY <2>1 DEF CampaignFits
<1>10. /\ q \in CampaignRow(born', DOMAIN files', DOMAIN templates') /\ q.refs = Rewrite(v.refs, c)
       /\ q.owner = a.user /\ q.org = a.org /\ ~q.pending
  BY <1>1, <1>2, <1>8, <1>9 DEF CampaignRow
<1>11. CampaignFits(q)'
  BY <1>2, <1>4, <1>8, <1>10 DEF CampaignFits, Awaits
<1>12. RowsFit'
  <2>1. \A y : (TemplateFits(y) => TemplateFits(y)') /\ (CampaignFits(y) => CampaignFits(y)')
    BY <1>2, <1>5, TemplateStill, CampaignStill DEF AssetsInv
  <2>2. \A y \in DOMAIN campaigns' : CampaignFits(campaigns[y])'
    <3> SUFFICES ASSUME NEW y \in DOMAIN campaigns PROVE CampaignFits(campaigns[y])'
      BY <1>6
    <3>1. CampaignFits(campaigns[y])
      BY DEF AssetsInv, RowsFit
    <3> QED
      BY <1>6, <1>11, <2>1, <3>1
  <2> QED
    BY <1>2, <1>5, <2>1, <2>2 DEF AssetsInv, RowsFit
<1>13. CopiesFit'
  <2>1. PICK s, K : s = Shown(v.refs, {}) /\ K = DOMAIN copied \ {x}
    OBVIOUS
  <2>2. Alone(q, s)'
    BY <1>3, <1>5, <1>10, <2>1, AloneCopied DEF AssetsInv
  <2>3. \A y : Follows(y, y)
    BY <1>5, BodyFollows DEF SameBody
  <2>4. \A y \in K \cap DOMAIN templates : y \in DOMAIN templates' /\ Follows(templates[y], templates'[y])
    BY <1>2, <2>3
  <2>5. \A y \in K \cap DOMAIN campaigns : y \in DOMAIN campaigns' /\ Follows(campaigns[y], campaigns'[y])
    BY <1>6, <2>1, <2>3
  <2>6. /\ DOMAIN copied' = K \cup {x} /\ copied'[x] = s /\ K \subseteq DOMAIN copied
        /\ \A y \in K : copied'[y] = copied[y]
    BY <1>2, <2>1 DEF With
  <2>7. \A y \in K : y \in DOMAIN templates' \cup DOMAIN campaigns' /\ Alone(CopyAt(y), copied[y])'
    BY <1>5, <1>7, <2>4, <2>5, <2>6, CopiesStay DEF AssetsInv, IdsGrow
  <2>8. x \in DOMAIN campaigns' /\ Alone(CopyAt(x), copied[x])'
    <3>1. x \notin DOMAIN templates'
      BY <1>2 DEF AssetsInv, IdsFit
    <3> QED
      BY <1>6, <2>2, <2>6, <3>1 DEF CopyAt, Alone, Own, Contents
  <2> QED
    BY <2>6, <2>7, <2>8 DEF CopiesFit
<1>14. OneDefault'
  BY <1>2, DefaultsStay DEF AssetsInv
<1> QED
  BY <1>5, <1>7, <1>12, <1>13, <1>14 DEF AssetsInv

\* The files of the campaign, and those of its template unless the copy keeps it, get copies.
LEMMA CloneCampaignFits ==
    ASSUME AssetsInv, NEW a \in Sessions, NEW b \in Sessions, NEW x \in DOMAIN campaigns,
           CloneCampaign(a, b, x)
    PROVE  AssetsInv'
<1>1. PICK r, p, t, S, c, tid, id, snap, theirs :
          /\ r = campaigns[x] /\ p = Repaired(r) /\ t = p.template
          /\ S = CopiedMedia(p, b) /\ c = CopyOf(S) /\ tid = born + Cardinality(S) + 1 /\ id = tid + 1
          /\ snap = (t # None /\ ~Reuses(p, b))
          /\ theirs = IF t = None THEN {} ELSE Associated(templates[t])
  OBVIOUS
<1>2. PICK tq, cq, s1, s2 :
          /\ tq = [templates[t] EXCEPT !.owner = b.user, !.org = b.org, !.vis = "private",
                                       !.default = FALSE, !.refs = Rewrite(@, c), !.media = Rewrite(theirs, c)]
          /\ cq = [Draft(b) EXCEPT !.refs = Rewrite(p.refs, c), !.media = Rewrite(p.media, c),
                                   !.template = IF snap THEN tid ELSE t, !.visual = p.visual]
          /\ s1 = Shown(templates[t].refs, {})
          /\ s2 = Shown(p.refs, IF snap THEN {} ELSE theirs \ p.media)
  OBVIOUS
<1>3. /\ ~p.pending /\ Repairable(r) /\ Snapshot(S, b.user, b.org)
      /\ templates' = IF snap THEN With(templates, tid, tq) ELSE templates
      /\ campaigns' = With([campaigns EXCEPT ![x] = p], id, cq)
      /\ copied' = With(IF snap THEN With(copied, tid, s1) ELSE copied, id, s2)
      /\ born' = id
      /\ UNCHANGED <<folderVars, store, uploads, removals, links, issuing, issued, contested>>
  BY <1>1, <1>2 DEF CloneCampaign
<1>4. /\ CampaignFits(r) /\ r \in CampaignRow(born, DOMAIN files, DOMAIN templates)
      /\ p \in CampaignRow(born, DOMAIN files, DOMAIN templates)
      /\ SameBody(r, p) /\ p.pending = r.pending /\ p.refs \subseteq DOMAIN files
      /\ p.refs \subseteq p.media \cup TemplateMedia(t) /\ t = r.template
      /\ t \in DOMAIN templates \cup {None} /\ p.media \in SUBSET DOMAIN files /\ p.visual \in BOOLEAN
      /\ p.refs \in SUBSET (1..born) /\ p.refs \cap DOMAIN uploads = {}
  <2>1. CampaignFits(r)
    BY <1>1 DEF AssetsInv, RowsFit
  <2>2. r \in CampaignRow(born, DOMAIN files, DOMAIN templates) /\ r.refs \cap DOMAIN uploads = {}
    BY <2>1 DEF CampaignFits
  <2>3. /\ p \in CampaignRow(born, DOMAIN files, DOMAIN templates)
        /\ SameBody(r, p) /\ p.pending = r.pending /\ r.refs \subseteq DOMAIN files
        /\ r.refs \subseteq p.media \cup TemplateMedia(r.template) /\ p.template = r.template
    BY <1>1, <1>3, <2>2, RepairedFacts DEF AssetsInv
  <2>4. p.refs = r.refs
    BY <2>3 DEF SameBody
  <2> QED
    BY <1>1, <2>1, <2>2, <2>3, <2>4 DEF CampaignRow
<1>5. t # None => /\ t \in DOMAIN templates /\ TemplateFits(templates[t]) /\ ~templates[t].pending
                  /\ theirs = templates[t].media /\ templates[t].media \in SUBSET DOMAIN files
                  /\ TemplateMedia(t) \subseteq theirs
  <2> SUFFICES ASSUME t # None
               PROVE  /\ t \in DOMAIN templates /\ TemplateFits(templates[t]) /\ ~templates[t].pending
                      /\ theirs = templates[t].media /\ templates[t].media \in SUBSET DOMAIN files
                      /\ TemplateMedia(t) \subseteq theirs
    OBVIOUS
  <2>1. t \in DOMAIN templates
    BY <1>4
  <2>2. TemplateFits(templates[t])
    BY <2>1 DEF AssetsInv, RowsFit
  <2>3. ~templates[t].pending
    BY <1>3, <1>4 DEF Repairable, MayUse, Usable
  <2>4. templates[t].media \in SUBSET DOMAIN files
    BY <2>2 DEF TemplateFits, TemplateRow
  <2> QED
    BY <1>1, <2>1, <2>2, <2>3, <2>4 DEF Associated, TemplateMedia
<1>6. /\ S \in SUBSET DOMAIN files /\ p.media \subseteq S /\ (snap => t # None /\ theirs \subseteq S)
      /\ snap \/ TemplateMedia(t) \subseteq theirs
  <2>1. t = None => TemplateMedia(t) = {}
    BY DEF TemplateMedia
  <2>2. t # None => theirs = Associated(templates[t])
    BY <1>1
  <2> QED
    BY <1>1, <1>4, <1>5, <2>1, <2>2 DEF CopiedMedia
<1>7. b.user \in Users /\ b.user # Nobody /\ b.org \in BOOLEAN
  BY MediaFoldersAssumption DEF Sessions
<1>8. /\ FoldersFit' /\ FiledFit' /\ StoreFits' /\ LinksFit' /\ IdsGrow
      /\ \A i \in DOMAIN files' : FileFits(files[i])'
      /\ FilesGrow(c, b.user, b.org) /\ DOMAIN c = S
      /\ \A i \in DOMAIN files : i \in DOMAIN files' /\ files'[i] = files[i]
      /\ DOMAIN files' \subseteq 1..born' /\ DOMAIN files' \cap DOMAIN uploads = {}
      /\ Cardinality(S) \in Nat
  <2>1. 2 \in Nat /\ born' = born + Cardinality(S) + 2
    BY <1>1, <1>3, <1>6, CopyFacts DEF AssetsInv, IdsFit
  <2> QED
    BY <1>1, <1>3, <1>6, <1>7, <2>1, SnapshotQuiet
<1>9. /\ born \in Nat /\ tid \in Nat /\ id \in Nat /\ born < tid /\ tid < id
      /\ tid \notin 1..born /\ id \notin 1..born /\ 1..born \subseteq 1..id /\ tid \in 1..id /\ id \in 1..id /\ tid # id
  BY <1>1, <1>8 DEF AssetsInv, IdsFit
<1>10. /\ tid \notin DOMAIN templates /\ id \notin DOMAIN templates
       /\ tid \notin DOMAIN campaigns /\ id \notin DOMAIN campaigns
  BY <1>9 DEF AssetsInv, IdsFit
<1>11. /\ DOMAIN templates' = IF snap THEN DOMAIN templates \cup {tid} ELSE DOMAIN templates
       /\ snap => templates'[tid] = tq
       /\ \A y \in DOMAIN templates : y \in DOMAIN templates' /\ templates'[y] = templates[y]
  BY <1>3, <1>10 DEF With
<1>12. /\ DOMAIN campaigns' = DOMAIN campaigns \cup {id} /\ campaigns'[id] = cq /\ campaigns'[x] = p
       /\ \A y \in DOMAIN campaigns \ {x} : campaigns'[y] = campaigns[y]
  BY <1>3, <1>10 DEF With
<1>13. IdsFit'
  <2>1. /\ DOMAIN templates \subseteq 1..born /\ DOMAIN campaigns \subseteq 1..born /\ DOMAIN uploads \subseteq 1..born
        /\ DOMAIN templates \cap DOMAIN campaigns = {}
    BY DEF AssetsInv, IdsFit
  <2>2. DOMAIN templates' \subseteq DOMAIN templates \cup {tid} /\ DOMAIN campaigns' = DOMAIN campaigns \cup {id}
    BY <1>11, <1>12
  <2>3. /\ DOMAIN templates' \subseteq 1..id /\ DOMAIN campaigns' \subseteq 1..id
        /\ DOMAIN templates' \cap DOMAIN campaigns' = {}
    BY <1>9, <1>10, <2>1, <2>2
  <2>4. born' = id /\ uploads' = uploads /\ DOMAIN uploads \subseteq 1..id
    BY <1>3, <1>9, <2>1
  <2> QED
    BY <1>8, <1>9, <2>3, <2>4 DEF IdsFit
<1>14. snap => TemplateFits(tq)' /\ Alone(tq, s1)' /\ ~tq.default
  <2> SUFFICES ASSUME snap PROVE TemplateFits(tq)' /\ Alone(tq, s1)' /\ ~tq.default
    OBVIOUS
  <2>1. PICK v : v = templates[t] /\ TemplateFits(v) /\ ~v.pending /\ theirs = v.media
    BY <1>5, <1>6
  <2>2. /\ v \in TemplateRow(born, DOMAIN files) /\ v.refs \cap DOMAIN uploads = {}
        /\ v.refs \cap DOMAIN files \subseteq v.media
        /\ v.refs \in SUBSET (1..born) /\ v.media \in SUBSET DOMAIN files
    BY <2>1 DEF TemplateFits, TemplateRow
  <2>3. /\ Rewrite(v.refs, c) \in SUBSET (1..born') /\ Rewrite(v.refs, c) \cap DOMAIN uploads = {}
        /\ Rewrite(v.media, c) \in SUBSET DOMAIN files'
        /\ Rewrite(v.refs, c) \cap DOMAIN files' \subseteq Rewrite(v.media, c)
    BY <1>8, <2>2, RewriteFacts DEF AssetsInv
  <2>4. /\ tq \in TemplateRow(born', DOMAIN files') /\ tq.refs = Rewrite(v.refs, c)
        /\ tq.media = Rewrite(v.media, c) /\ tq.owner = b.user /\ tq.org = b.org /\ ~tq.pending /\ ~tq.default
    <3>1. tq = [org |-> b.org, owner |-> b.user, vis |-> "private", pending |-> FALSE, kind |-> v.kind,
                refs |-> Rewrite(v.refs, c), media |-> Rewrite(v.media, c), default |-> FALSE]
      BY <1>2, <2>1, <2>2 DEF TemplateRow
    <3>2. v.kind \in {"campaign", "visual"}
      BY <2>2 DEF TemplateRow
    <3> QED
      BY <1>7, <2>3, <3>1, <3>2 DEF TemplateRow, Visibilities
  <2>5. TemplateFits(tq)'
    BY <1>3, <1>7, <2>3, <2>4 DEF TemplateFits, Awaits
  <2>6. s1 = Shown(v.refs, {}) /\ v.refs \cap DOMAIN files \subseteq DOMAIN c
    BY <1>2, <1>6, <1>8, <2>1, <2>2
  <2>7. Alone(tq, s1)'
    BY <1>8, <2>2, <2>4, <2>6, AloneCopied DEF AssetsInv
  <2> QED
    BY <2>4, <2>5, <2>7
<1>15. CampaignFits(cq)' /\ Alone(cq, s2)'
  <2>1. /\ Rewrite(p.refs, c) \in SUBSET (1..born') /\ Rewrite(p.refs, c) \cap DOMAIN uploads = {}
        /\ Rewrite(p.media, c) \in SUBSET DOMAIN files'
    BY <1>4, <1>8, RewriteFacts DEF AssetsInv
  <2>2. PICK d : d = (IF snap THEN tid ELSE t) /\ d \in DOMAIN templates' \cup {None}
    <3>1. (IF snap THEN tid ELSE t) \in DOMAIN templates' \cup {None}
      BY <1>4, <1>11
    <3> QED
      BY <3>1
  <2>3. cq = [org |-> b.org, owner |-> b.user, pending |-> FALSE, refs |-> Rewrite(p.refs, c),
              media |-> Rewrite(p.media, c), template |-> d, visual |-> p.visual, status |-> "draft"]
    BY <1>2, <2>2 DEF Draft
  <2>4. /\ cq \in CampaignRow(born', DOMAIN files', DOMAIN templates') /\ cq.refs = Rewrite(p.refs, c)
        /\ cq.owner = b.user /\ cq.org = b.org /\ ~cq.pending
    BY <1>4, <1>7, <2>1, <2>2, <2>3 DEF CampaignRow
  <2>5. CampaignFits(cq)'
    BY <1>3, <1>7, <2>1, <2>4 DEF CampaignFits, Awaits
  <2>6. PICK kept : kept = (IF snap THEN {} ELSE theirs \ p.media) /\ s2 = Shown(p.refs, kept)
    BY <1>2
  <2>7. \A i \in p.refs \cap DOMAIN files : i \in DOMAIN c \cup kept
    BY <1>4, <1>5, <1>6, <1>8, <2>6
  <2>8. Alone(cq, s2)'
    BY <1>4, <1>8, <2>4, <2>6, <2>7, AloneCopied DEF AssetsInv
  <2> QED
    BY <2>5, <2>8
<1>16. RowsFit'
  <2>1. DOMAIN templates \subseteq DOMAIN templates'
    BY <1>11
  <2>2. \A y : (TemplateFits(y) => TemplateFits(y)') /\ (CampaignFits(y) => CampaignFits(y)')
    BY <1>8, <2>1, TemplateStill, CampaignStill DEF AssetsInv
  <2>3. ASSUME NEW y \in DOMAIN templates' PROVE TemplateFits(templates[y])'
    <3>1. CASE y \in DOMAIN templates
      <4>1. TemplateFits(templates[y])
        BY <3>1 DEF AssetsInv, RowsFit
      <4> QED
        BY <1>11, <2>2, <3>1, <4>1
    <3>2. CASE y \notin DOMAIN templates
      <4>1. snap /\ y = tid /\ templates'[y] = tq
        BY <1>11, <3>2
      <4> QED
        BY <1>14, <4>1
    <3> QED
      BY <3>1, <3>2
  <2>4. ASSUME NEW y \in DOMAIN campaigns' PROVE CampaignFits(campaigns[y])'
    <3>1. CASE y = id
      BY <1>12, <1>15, <3>1
    <3>2. CASE y = x
      <4>1. CampaignFits(p)
        BY <1>4 DEF CampaignFits, Awaits, SameBody
      <4> QED
        BY <1>12, <2>2, <3>2, <4>1
    <3>3. CASE y \in DOMAIN campaigns \ {x}
      <4>1. CampaignFits(campaigns[y])
        BY <3>3 DEF AssetsInv, RowsFit
      <4> QED
        BY <1>12, <2>2, <3>3, <4>1
    <3> QED
      BY <1>12, <3>1, <3>2, <3>3
  <2> QED
    BY <1>8, <2>3, <2>4 DEF RowsFit
<1>17. CopiesFit'
  <2>1. \A y, z : SameBody(y, z) => Follows(y, z)
    BY <1>8, BodyFollows
  <2>2. \A y \in DOMAIN templates : y \in DOMAIN templates' /\ Follows(templates[y], templates'[y])
    BY <1>11, <2>1 DEF SameBody
  <2>3. \A y \in DOMAIN campaigns : y \in DOMAIN campaigns' /\ Follows(campaigns[y], campaigns'[y])
    BY <1>1, <1>4, <1>12, <2>1 DEF SameBody
  <2>4. \A y \in DOMAIN copied : y # tid /\ y # id
    BY <1>10 DEF AssetsInv, CopiesFit
  <2>5. /\ DOMAIN copied' = DOMAIN copied \cup {id} \cup (IF snap THEN {tid} ELSE {})
        /\ copied'[id] = s2 /\ (snap => copied'[tid] = s1)
        /\ \A y \in DOMAIN copied : copied'[y] = copied[y]
    BY <1>3, <1>9, <2>4 DEF With
  <2>6. \A y \in DOMAIN copied : y \in DOMAIN templates' \cup DOMAIN campaigns' /\ Alone(CopyAt(y), copied[y])'
    BY <1>8, <1>13, <2>2, <2>3, <2>5, CopiesStay DEF AssetsInv, IdsGrow
  <2>7. id \in DOMAIN campaigns' /\ Alone(CopyAt(id), copied[id])'
    <3>1. id \notin DOMAIN templates'
      BY <1>12, <1>13 DEF IdsFit
    <3> QED
      BY <1>12, <1>15, <2>5, <3>1 DEF CopyAt, Alone, Own, Contents
  <2>8. snap => tid \in DOMAIN templates' /\ Alone(CopyAt(tid), copied[tid])'
    BY <1>11, <1>14, <2>5 DEF CopyAt, Alone, Own, Contents
  <2> QED
    BY <2>5, <2>6, <2>7, <2>8 DEF CopiesFit
<1>18. OneDefault'
  <2>1. ASSUME NEW y \in DOMAIN templates', templates'[y].default
        PROVE  y \in DOMAIN templates /\ templates'[y] = templates[y]
    BY <1>11, <1>14, <2>1
  <2> QED
    BY <2>1, DefaultsStay DEF AssetsInv
<1> QED
  BY <1>8, <1>13, <1>16, <1>17, <1>18 DEF AssetsInv

-----------------------------------------------------------------------------
(* Members who leave, and templates that are handed over. *)

LEMMA HandTemplateFits ==
    ASSUME AssetsInv, NEW x \in DOMAIN templates, NEW w \in Users, TransferOrganizationTemplate(x, w)
    PROVE  AssetsInv'
<1>1. PICK r, S, c, q :
          /\ r = templates[x] /\ S = Strays(r, w) /\ c = CopyOf(S)
          /\ q = [r EXCEPT !.owner = w, !.default = FALSE, !.refs = Rewrite(@, c), !.media = Rewrite(@, c)]
  OBVIOUS
<1>2. /\ Snapshot(S, w, TRUE) /\ r.org /\ ~r.pending
      /\ templates' = [templates EXCEPT ![x] = q] /\ copied' = With(copied, x, Shown(r.refs, {}))
      /\ born' = born + Cardinality(S) /\ campaigns' = campaigns
      /\ UNCHANGED <<folderVars, store, uploads, removals, links, issuing, issued, contested>>
  BY <1>1 DEF TransferOrganizationTemplate
<1>3. /\ r \in TemplateRow(born, DOMAIN files) /\ S \in SUBSET DOMAIN files /\ r.media \in SUBSET DOMAIN files
      /\ r.refs \in SUBSET (1..born) /\ r.refs \cap DOMAIN uploads = {}
      /\ r.refs \cap DOMAIN files \subseteq r.media /\ Associated(r) = r.media
  <2>1. TemplateFits(r)
    BY <1>1 DEF AssetsInv, RowsFit
  <2> QED
    BY <1>1, <2>1 DEF TemplateFits, TemplateRow, Associated, Strays
<1>4. w # Nobody
  BY MediaFoldersAssumption
<1>5. /\ FoldersFit' /\ FiledFit' /\ StoreFits' /\ LinksFit' /\ IdsGrow
      /\ \A i \in DOMAIN files' : FileFits(files[i])'
      /\ FilesGrow(c, w, TRUE) /\ DOMAIN c = S
      /\ \A i \in DOMAIN files : i \in DOMAIN files' /\ files'[i] = files[i]
      /\ DOMAIN files' \subseteq 1..born' /\ DOMAIN files' \cap DOMAIN uploads = {}
      /\ Cardinality(S) \in Nat
  <2>1. 0 \in Nat /\ born' = born + Cardinality(S) + 0
    BY <1>2, <1>3, CopyFacts DEF AssetsInv, IdsFit
  <2> QED
    BY <1>1, <1>2, <1>3, <2>1, SnapshotQuiet
<1>6. /\ DOMAIN templates' = DOMAIN templates /\ templates'[x] = q
      /\ \A y \in DOMAIN templates \ {x} : templates'[y] = templates[y]
  BY <1>2
<1>7. IdsFit'
  <2>1. born \in Nat /\ born' \in Nat /\ 1..born \subseteq 1..born'
    BY <1>2, <1>5 DEF AssetsInv, IdsFit
  <2> QED
    BY <1>2, <1>5, <1>6, <2>1 DEF AssetsInv, IdsFit
<1>8. /\ Rewrite(r.refs, c) \in SUBSET (1..born') /\ Rewrite(r.refs, c) \cap DOMAIN uploads = {}
      /\ Rewrite(r.media, c) \in SUBSET DOMAIN files'
      /\ Rewrite(r.refs, c) \cap DOMAIN files' \subseteq Rewrite(r.media, c)
  BY <1>3, <1>5, RewriteFacts DEF AssetsInv
<1>9. /\ q \in TemplateRow(born', DOMAIN files') /\ q.refs = Rewrite(r.refs, c) /\ q.media = Rewrite(r.media, c)
      /\ q.owner = w /\ q.org /\ ~q.pending /\ ~q.default
  <2>1. q = [org |-> r.org, owner |-> w, vis |-> r.vis, pending |-> r.pending, kind |-> r.kind,
             refs |-> Rewrite(r.refs, c), media |-> Rewrite(r.media, c), default |-> FALSE]
    BY <1>1, <1>3 DEF TemplateRow
  <2>2. r.kind \in {"campaign", "visual"} /\ r.vis \in Visibilities
    BY <1>3 DEF TemplateRow
  <2>3. r.org = TRUE /\ r.pending = FALSE
    BY <1>2, <1>3 DEF TemplateRow
  <2> QED
    BY <1>8, <2>1, <2>2, <2>3 DEF TemplateRow
<1>10. TemplateFits(q)'
  BY <1>2, <1>4, <1>8, <1>9 DEF TemplateFits, Awaits
<1>11. RowsFit'
  <2>1. \A y : (TemplateFits(y) => TemplateFits(y)') /\ (CampaignFits(y) => CampaignFits(y)')
    BY <1>5, <1>6, TemplateStill, CampaignStill DEF AssetsInv
  <2>2. \A y \in DOMAIN templates' : TemplateFits(templates[y])'
    <3> SUFFICES ASSUME NEW y \in DOMAIN templates PROVE TemplateFits(templates[y])'
      BY <1>6
    <3>1. TemplateFits(templates[y])
      BY DEF AssetsInv, RowsFit
    <3> QED
      BY <1>6, <1>10, <2>1, <3>1
  <2> QED
    BY <1>2, <1>5, <2>1, <2>2 DEF AssetsInv, RowsFit
<1>12. CopiesFit'
  <2>1. PICK kept, org, s, K : kept = {} /\ org = TRUE /\ s = Shown(r.refs, kept) /\ K = DOMAIN copied \ {x}
    OBVIOUS
  <2>2. Alone(q, s)'
    <3>1. \A i \in r.refs \cap DOMAIN files :
             i \in DOMAIN c \cup kept \/ OwnFile(files'[i], w, org)
      <4> SUFFICES ASSUME NEW i \in r.refs \cap DOMAIN files, i \notin S
                   PROVE  OwnFile(files'[i], w, org)
        BY <1>5
      <4>1. Stays(i, w)
        BY <1>1, <1>3 DEF Strays
      <4>2. files[i].org = TRUE
        BY <4>1 DEF Stays, AssetsInv, RowsFit, FileFits, FileRow
      <4> QED
        BY <1>5, <2>1, <4>1, <4>2 DEF Stays, OwnFile
    <3>2. q.org = org /\ FilesGrow(c, w, org)
      BY <1>5, <1>9, <2>1 DEF TemplateRow
    <3>3. q.refs = Rewrite(r.refs, c) /\ q.owner = w /\ IdsFit /\ s = Shown(r.refs, kept)
      BY <1>9, <2>1 DEF AssetsInv
    <3> QED
      BY <1>3, <3>1, <3>2, <3>3, AloneCopied
  <2>3. \A y : Follows(y, y)
    BY <1>5, BodyFollows DEF SameBody
  <2>4. \A y \in K \cap DOMAIN templates : y \in DOMAIN templates' /\ Follows(templates[y], templates'[y])
    BY <1>6, <2>1, <2>3
  <2>5. \A y \in K \cap DOMAIN campaigns : y \in DOMAIN campaigns' /\ Follows(campaigns[y], campaigns'[y])
    BY <1>2, <2>3
  <2>6. /\ DOMAIN copied' = K \cup {x} /\ copied'[x] = s /\ K \subseteq DOMAIN copied
        /\ \A y \in K : copied'[y] = copied[y]
    BY <1>2, <2>1 DEF With
  <2>7. \A y \in K : y \in DOMAIN templates' \cup DOMAIN campaigns' /\ Alone(CopyAt(y), copied[y])'
    BY <1>5, <1>7, <2>4, <2>5, <2>6, CopiesStay DEF AssetsInv, IdsGrow
  <2>8. x \in DOMAIN templates' /\ Alone(CopyAt(x), copied[x])'
    BY <1>6, <2>2, <2>6 DEF CopyAt, Alone, Own, Contents
  <2> QED
    BY <2>6, <2>7, <2>8 DEF CopiesFit
<1>13. OneDefault'
  BY <1>6, <1>9, DefaultsStay DEF AssetsInv
<1> QED
  BY <1>5, <1>7, <1>11, <1>12, <1>13 DEF AssetsInv

\* What awaits an owner gets one; a body keeps the files that were its owner's.
LEMMA InheritFits ==
    ASSUME AssetsInv, NEW w \in Users, TransferPendingOrganizationResources(w)
    PROVE  AssetsInv'
<1>1. /\ files' = [i \in DOMAIN files |->
             IF files[i].pending THEN [files[i] EXCEPT !.owner = w, !.pending = FALSE] ELSE files[i]]
      /\ templates' = [t \in DOMAIN templates |-> Inherited(templates[t], w)]
      /\ campaigns' = [c \in DOMAIN campaigns |->
             IF campaigns[c].pending THEN [campaigns[c] EXCEPT !.owner = w, !.pending = FALSE]
             ELSE campaigns[c]]
      /\ UNCHANGED <<folders, moving, members, store, uploads, removals, links, issuing, issued, contested>>
      /\ born' = born /\ copied' = copied
  BY DEF TransferPendingOrganizationResources, folderVars
<1>2. w # Nobody /\ born \in Nat
  BY MediaFoldersAssumption DEF AssetsInv, IdsFit
<1>3. DOMAIN files' = DOMAIN files /\ DOMAIN templates' = DOMAIN templates /\ DOMAIN campaigns' = DOMAIN campaigns
  BY <1>1
<1>4. ASSUME NEW i \in DOMAIN files
      PROVE  /\ FileFits(files[i])' /\ SameFile(files[i], files'[i])
             /\ files[i].org \/ files'[i].owner = files[i].owner
             /\ files[i].owner = Nobody => files'[i].owner = w
             /\ files[i].owner # Nobody => files'[i].owner = files[i].owner
  <2>1. PICK r, q : r = files[i] /\ q = files'[i] /\ r \in FileRow(born) /\ Awaits(r)
    BY DEF AssetsInv, RowsFit, FileFits
  <2>2. CASE r.pending
    <3>1. q = [r EXCEPT !.owner = w, !.pending = FALSE]
      BY <1>1, <2>1, <2>2
    <3>2. q \in FileRow(born) /\ SameFile(r, q) /\ q.owner = w /\ ~q.pending
      BY <2>1, <3>1 DEF FileRow, SameFile
    <3> QED
      BY <1>1, <1>2, <2>1, <2>2, <3>2 DEF FileFits, Awaits
  <2>3. CASE ~r.pending
    <3>1. q = r
      BY <1>1, <2>1, <2>3
    <3> QED
      BY <1>1, <2>1, <2>3, <3>1 DEF FileFits, Awaits, SameFile
  <2> QED
    BY <2>2, <2>3
<1>5. PICK c : DOMAIN c = {}
  <2>1. DOMAIN [y \in {} |-> y] = {}
    OBVIOUS
  <2> QED
    BY <2>1
<1>6. FilesGrow(c, w, TRUE)
  <2>1. DOMAIN files' = DOMAIN files \cup {c[i] : i \in DOMAIN c} /\ DOMAIN c \subseteq DOMAIN files
    BY <1>3, <1>5
  <2>2. born' \in Nat /\ born <= born'
    <3>1. born' = born
      BY <1>1
    <3> QED
      BY <1>2, <3>1
  <2>3. \A i \in DOMAIN files : SameFile(files[i], files'[i])
    BY <1>4
  <2> QED
    BY <1>5, <2>1, <2>2, <2>3 DEF FilesGrow
<1>7. FiledFit' /\ StoreFits' /\ LinksFit' /\ IdsGrow /\ \A i \in DOMAIN files' : FileFits(files[i])'
  BY <1>1, <1>4, <1>6, CopiesQuiet
<1>8. FoldersFit'
  BY <1>1, FoldersStill DEF AssetsInv
<1>9. IdsFit'
  BY <1>1, <1>3 DEF AssetsInv, IdsFit
<1>10. ASSUME NEW r, NEW q, r.org \in BOOLEAN, r.owner = Nobody => r.org, q.refs = r.refs, q.org = r.org,
              r.owner = Nobody => q.owner = w, r.owner # Nobody => q.owner = r.owner
       PROVE  Follows(r, q)
  <2> SUFFICES ASSUME NEW i \in DOMAIN files, Own(r, i)
               PROVE  files'[i].org = q.org /\ (files'[i].owner = q.owner \/ files'[i].vis = "organization")
    BY <1>10 DEF Follows
  <2> QED
    BY <1>4, <1>10 DEF Own, SameFile
<1>11. ASSUME NEW t \in DOMAIN templates
       PROVE  /\ TemplateFits(templates[t])' /\ Follows(templates[t], templates'[t])
              /\ templates'[t].default => templates'[t] = templates[t]
  <2>1. PICK r, q : r = templates[t] /\ q = templates'[t] /\ TemplateFits(r) /\ q = Inherited(r, w)
    BY <1>1 DEF AssetsInv, RowsFit
  <2>2. r \in TemplateRow(born, DOMAIN files) /\ Awaits(r) /\ r.org \in BOOLEAN
    BY <2>1 DEF TemplateFits, TemplateRow
  <2>3. CASE r.pending
    <3>1. q = [r EXCEPT !.owner = w, !.pending = FALSE, !.default = FALSE]
      BY <2>1, <2>2, <2>3 DEF Inherited, Awaits
    <3>2. /\ q \in TemplateRow(born, DOMAIN files) /\ q.refs = r.refs /\ q.media = r.media /\ q.org = r.org
          /\ q.owner = w /\ ~q.pending /\ ~q.default
      BY <2>2, <3>1 DEF TemplateRow
    <3>3. TemplateFits(q)'
      BY <1>1, <1>2, <1>3, <2>1, <3>2 DEF TemplateFits, Awaits
    <3>4. Follows(r, q)
      BY <1>10, <2>2, <2>3, <3>2 DEF Awaits
    <3> QED
      BY <2>1, <3>2, <3>3, <3>4
  <2>4. CASE ~r.pending
    <3>1. q = r
      BY <2>1, <2>4 DEF Inherited
    <3>2. TemplateFits(q)'
      BY <1>1, <1>3, <2>1, <3>1 DEF TemplateFits, Awaits
    <3>3. Follows(r, q)
      BY <1>10, <2>2, <2>4, <3>1 DEF Awaits
    <3> QED
      BY <2>1, <3>1, <3>2, <3>3
  <2> QED
    BY <2>3, <2>4
<1>12. ASSUME NEW t \in DOMAIN campaigns
       PROVE  CampaignFits(campaigns[t])' /\ Follows(campaigns[t], campaigns'[t])
  <2>1. PICK r, q : /\ r = campaigns[t] /\ q = campaigns'[t] /\ CampaignFits(r)
                    /\ q = IF r.pending THEN [r EXCEPT !.owner = w, !.pending = FALSE] ELSE r
    BY <1>1 DEF AssetsInv, RowsFit
  <2>2. r \in CampaignRow(born, DOMAIN files, DOMAIN templates) /\ Awaits(r) /\ r.org \in BOOLEAN
    BY <2>1 DEF CampaignFits, CampaignRow
  <2>3. CASE r.pending
    <3>1. /\ q \in CampaignRow(born, DOMAIN files, DOMAIN templates) /\ q.refs = r.refs /\ q.org = r.org
          /\ q.owner = w /\ ~q.pending
      <4>1. q = [r EXCEPT !.owner = w, !.pending = FALSE]
        BY <2>1, <2>3
      <4> QED
        BY <2>2, <4>1 DEF CampaignRow
    <3>2. CampaignFits(q)'
      BY <1>1, <1>2, <1>3, <2>1, <3>1 DEF CampaignFits, Awaits
    <3>3. Follows(r, q)
      BY <1>10, <2>2, <2>3, <3>1 DEF Awaits
    <3> QED
      BY <2>1, <3>2, <3>3
  <2>4. CASE ~r.pending
    <3>1. q = r
      BY <2>1, <2>4
    <3>2. CampaignFits(q)'
      BY <1>1, <1>3, <2>1, <3>1 DEF CampaignFits, Awaits
    <3>3. Follows(r, q)
      BY <1>10, <2>2, <2>4, <3>1 DEF Awaits
    <3> QED
      BY <2>1, <3>2, <3>3
  <2> QED
    BY <2>3, <2>4
<1>13. RowsFit'
  BY <1>3, <1>7, <1>11, <1>12 DEF RowsFit
<1>14. CopiesFit'
  <2>1. /\ \A t \in DOMAIN templates : t \in DOMAIN templates' /\ Follows(templates[t], templates'[t])
        /\ \A y \in DOMAIN campaigns : y \in DOMAIN campaigns' /\ Follows(campaigns[y], campaigns'[y])
    BY <1>3, <1>11, <1>12
  <2>2. \A y \in DOMAIN copied : y \in DOMAIN templates' \cup DOMAIN campaigns' /\ Alone(CopyAt(y), copied[y])'
    BY <1>1, <1>3, <1>4, <1>9, <2>1, CopiesStay DEF AssetsInv, SameFile
  <2> QED
    BY <1>1, <2>2 DEF CopiesFit
<1>15. OneDefault'
  BY <1>3, <1>11, DefaultsStay DEF AssetsInv
<1> QED
  BY <1>7, <1>8, <1>9, <1>13, <1>14, <1>15 DEF AssetsInv

\* A member who leaves takes global templates along, with copies of their files; the rest
\* awaits an owner, the files of a body with it.
LEMMA RemoveMemberFits ==
    ASSUME AssetsInv, NEW v \in Users, RemoveMember(v)
    PROVE  AssetsInv'
<1>1. PICK gone, S, c, org :
          /\ gone = {t \in DOMAIN templates : Of(v, templates[t]) /\ templates[t].vis = "global"}
          /\ S = UNION {Associated(templates[t]) : t \in gone} /\ c = CopyOf(S) /\ org = FALSE
  OBVIOUS
<1>2. PICK g : g = [i \in DOMAIN files |-> IF Of(v, files[i]) THEN Orphaned(files[i]) ELSE files[i]]
  OBVIOUS
<1>3. /\ files' = Joined(g, Copied(S, v, FALSE))
      /\ members' = members \ {v} /\ v \notin Managers /\ born' = born + Cardinality(S)
      /\ copied' = Joined([t \in gone |-> Shown(templates[t].refs, {})], copied)
      /\ UNCHANGED <<folders, moving, store, uploads, removals, links, issuing, issued, contested>>
  BY <1>1, <1>2 DEF RemoveMember
<1>4. /\ templates' = [t \in DOMAIN templates |->
              IF t \in gone THEN Detached(templates[t], c)
              ELSE IF Of(v, templates[t]) THEN Orphaned(templates[t]) ELSE templates[t]]
      /\ campaigns' = [x \in DOMAIN campaigns |->
              IF Of(v, campaigns[x])
              THEN [Orphaned(campaigns[x]) EXCEPT !.status = IF @ = "running" THEN "paused" ELSE @]
              ELSE campaigns[x]]
  BY <1>1 DEF RemoveMember
<1>5. v # Nobody /\ born \in Nat
  BY MediaFoldersAssumption DEF AssetsInv, IdsFit
<1>6. \A t \in DOMAIN templates :
         /\ TemplateFits(templates[t]) /\ templates[t] \in TemplateRow(born, DOMAIN files)
         /\ Awaits(templates[t]) /\ templates[t].org \in BOOLEAN
         /\ Associated(templates[t]) = templates[t].media /\ templates[t].media \in SUBSET DOMAIN files
         /\ templates[t].refs \in SUBSET (1..born) /\ templates[t].refs \cap DOMAIN uploads = {}
         /\ templates[t].refs \cap DOMAIN files \subseteq templates[t].media
  <2> SUFFICES ASSUME NEW t \in DOMAIN templates
               PROVE  /\ TemplateFits(templates[t]) /\ templates[t] \in TemplateRow(born, DOMAIN files)
                      /\ Awaits(templates[t]) /\ templates[t].org \in BOOLEAN
                      /\ Associated(templates[t]) = templates[t].media
                      /\ templates[t].media \in SUBSET DOMAIN files
                      /\ templates[t].refs \in SUBSET (1..born) /\ templates[t].refs \cap DOMAIN uploads = {}
                      /\ templates[t].refs \cap DOMAIN files \subseteq templates[t].media
    OBVIOUS
  <2>1. PICK r : r = templates[t] /\ TemplateFits(r)
    BY DEF AssetsInv, RowsFit
  <2>2. r \in TemplateRow(born, DOMAIN files)
    BY <2>1 DEF TemplateFits
  <2> QED
    BY <2>1, <2>2 DEF TemplateFits, TemplateRow, Associated
<1>7. /\ S \in SUBSET DOMAIN files /\ \A t \in gone : t \in DOMAIN templates /\ templates[t].media \subseteq S
  <2>1. \A t \in gone : t \in DOMAIN templates /\ Associated(templates[t]) = templates[t].media
                        /\ templates[t].media \in SUBSET DOMAIN files
    BY <1>1, <1>6
  <2> QED
    BY <1>1, <2>1
<1>8. ASSUME NEW i \in DOMAIN files
      PROVE  /\ SameFile(files[i], g[i])
             /\ g[i] \in FileRow(born) /\ Awaits(g[i])
             /\ files[i].org \/ g[i].owner = files[i].owner
             /\ files[i].org /\ files[i].owner = v => g[i].owner = Nobody
             /\ ~(files[i].org /\ files[i].owner = v) => g[i].owner = files[i].owner
  <2>1. PICK r, q : r = files[i] /\ q = g[i] /\ r \in FileRow(born) /\ Awaits(r)
    BY DEF AssetsInv, RowsFit, FileFits
  <2>2. CASE Of(v, r)
    <3>1. q = [r EXCEPT !.owner = Nobody, !.pending = TRUE] /\ r.org /\ r.owner = v
      BY <1>2, <2>1, <2>2 DEF Orphaned, Of
    <3>2. q = [org |-> r.org, owner |-> Nobody, vis |-> r.vis, pending |-> TRUE, folder |-> r.folder,
               name |-> r.name, content |-> r.content]
      <4>1. q = [r EXCEPT !.owner = Nobody, !.pending = TRUE]
        BY <3>1
      <4>2. r = [org |-> r.org, owner |-> r.owner, vis |-> r.vis, pending |-> r.pending, folder |-> r.folder,
                 name |-> r.name, content |-> r.content]
        BY <2>1 DEF FileRow
      <4> QED
        BY <4>1, <4>2
    <3>3. q.owner = Nobody /\ q.pending = TRUE /\ q.org = r.org /\ SameFile(r, q)
      BY <3>2 DEF SameFile
    <3>4. /\ r.org \in BOOLEAN /\ r.vis \in Visibilities /\ r.folder \in Folders \cup {Root}
          /\ r.name \in Names /\ r.content \in 1..born
      BY <2>1 DEF FileRow
    <3>5. q \in FileRow(born)
      BY <3>2, <3>4 DEF FileRow
    <3> QED
      BY <1>5, <2>1, <3>1, <3>3, <3>5 DEF Awaits
  <2>3. CASE ~Of(v, r)
    <3>1. q = r /\ ~(r.org /\ r.owner = v)
      BY <1>2, <2>1, <2>3 DEF Of
    <3> QED
      BY <2>1, <3>1 DEF SameFile
  <2> QED
    BY <2>2, <2>3
<1>9. /\ FilesGrow(c, v, org) /\ DOMAIN c = S /\ \A i \in DOMAIN files : files'[i] = g[i]
      /\ born' \in Nat /\ born <= born' /\ 1..born \subseteq 1..born'
  <2>1. Cardinality(S) \in Nat /\ DOMAIN c = S
    BY <1>1, <1>7, CopyFacts DEF AssetsInv
  <2>2. PICK n \in Nat : n = 0 /\ born' = born + Cardinality(S) + n
    BY <1>3, <1>5, <2>1
  <2>3. DOMAIN g = DOMAIN files /\ IdsFit
    BY <1>2 DEF AssetsInv
  <2>4. files' = Joined(g, Copied(S, v, org))
    BY <1>1, <1>3
  <2>5. \A i \in DOMAIN files : SameFile(files[i], g[i])
    BY <1>8
  <2>6. S \in SUBSET DOMAIN files
    BY <1>7
  <2>7. FilesGrow(CopyOf(S), v, org) /\ \A i \in DOMAIN files : files'[i] = g[i]
    BY <2>2, <2>3, <2>4, <2>5, <2>6, CopiesGrow
  <2>8. born' = born + Cardinality(S)
    BY <1>3
  <2>9. born' \in Nat /\ born <= born' /\ 1..born \subseteq 1..born'
    BY <1>5, <2>1, <2>8
  <2>10. FilesGrow(c, v, org)
    BY <1>1, <2>7
  <2> QED
    BY <2>1, <2>7, <2>9, <2>10
<1>10. FiledFit' /\ StoreFits' /\ LinksFit' /\ IdsGrow /\ \A i \in DOMAIN files' : FileFits(files[i])'
  <2>1. \A i \in DOMAIN files : FileFits(files[i])' /\ (files[i].org \/ files'[i].owner = files[i].owner)
    <3> SUFFICES ASSUME NEW i \in DOMAIN files
                 PROVE  FileFits(files[i])' /\ (files[i].org \/ files'[i].owner = files[i].owner)
      OBVIOUS
    <3>1. FileFits(g[i])
      BY <1>8 DEF FileFits
    <3>2. FileFits(g[i])'
      <4>1. PICK r : r = g[i] /\ FileFits(r)
        BY <3>1
      <4>2. FileFits(r)'
        BY <1>9, <4>1, FileStill DEF AssetsInv
      <4> QED
        BY <4>1, <4>2
    <3> QED
      BY <1>8, <1>9, <3>2
  <2>2. org \in BOOLEAN
    BY <1>1
  <2> QED
    BY <1>3, <1>9, <2>1, <2>2, CopiesQuiet
<1>11. FoldersFit'
  BY <1>3 DEF AssetsInv, FoldersFit, FoldersTypeOK
<1>12. /\ DOMAIN templates' = DOMAIN templates /\ DOMAIN campaigns' = DOMAIN campaigns
       /\ DOMAIN files' = DOMAIN files \cup {c[i] : i \in DOMAIN c}
       /\ \A i \in DOMAIN c : c[i] \in (born + 1)..born'
  BY <1>4, <1>9 DEF FilesGrow
<1>13. IdsFit'
  <2>1. DOMAIN files' \subseteq 1..born' /\ DOMAIN files' \cap DOMAIN uploads = {}
    BY <1>5, <1>9, <1>12 DEF AssetsInv, IdsFit
  <2> QED
    BY <1>3, <1>9, <1>12, <2>1 DEF AssetsInv, IdsFit
<1>14. ASSUME NEW t \in gone, NEW q, q = templates'[t], NEW s, s = Shown(templates[t].refs, {})
       PROVE  TemplateFits(q)' /\ ~q.default /\ Alone(q, s)'
  <2>1. PICK r : r = templates[t] /\ q = Detached(r, c) /\ t \in DOMAIN templates /\ r.owner = v
    BY <1>1, <1>4, <1>7, <1>14 DEF Of
  <2>2. /\ TemplateFits(r) /\ r \in TemplateRow(born, DOMAIN files) /\ Awaits(r)
        /\ Associated(r) = r.media /\ r.media \in SUBSET DOMAIN files
        /\ r.refs \in SUBSET (1..born) /\ r.refs \cap DOMAIN uploads = {}
        /\ r.refs \cap DOMAIN files \subseteq r.media /\ r.media \subseteq DOMAIN c
    BY <1>6, <1>7, <1>9, <2>1
  <2>3. /\ Rewrite(r.refs, c) \in SUBSET (1..born') /\ Rewrite(r.refs, c) \cap DOMAIN uploads = {}
        /\ Rewrite(r.media, c) \in SUBSET DOMAIN files'
        /\ Rewrite(r.refs, c) \cap DOMAIN files' \subseteq Rewrite(r.media, c)
    BY <1>9, <2>2, RewriteFacts DEF AssetsInv
  <2>4. q = [org |-> FALSE, owner |-> r.owner, vis |-> r.vis, pending |-> r.pending, kind |-> r.kind,
             refs |-> Rewrite(r.refs, c), media |-> Rewrite(r.media, c), default |-> FALSE]
    BY <2>1, <2>2 DEF Detached, TemplateRow
  <2>5. r.kind \in {"campaign", "visual"} /\ r.vis \in Visibilities /\ r.pending = FALSE
    BY <1>5, <2>1, <2>2 DEF TemplateRow, Awaits
  <2>6. /\ q \in TemplateRow(born', DOMAIN files') /\ q.refs = Rewrite(r.refs, c) /\ q.media = Rewrite(r.media, c)
        /\ q.owner = v /\ q.org = org /\ ~q.pending /\ ~q.default
    <3>1. /\ q.refs = Rewrite(r.refs, c) /\ q.media = Rewrite(r.media, c) /\ q.owner = r.owner
          /\ q.org = FALSE /\ q.pending = r.pending /\ q.default = FALSE
      BY <2>4
    <3>2. r.owner \in Users \cup {Nobody}
      BY <2>2 DEF TemplateRow
    <3>3. q \in TemplateRow(born', DOMAIN files')
      BY <2>3, <2>4, <2>5, <3>2 DEF TemplateRow
    <3>4. q.org = org
      BY <1>1, <3>1
    <3> QED
      BY <2>1, <2>5, <3>1, <3>3, <3>4
  <2>7. TemplateFits(q)'
    BY <1>3, <1>5, <2>3, <2>6 DEF TemplateFits, Awaits
  <2>8. PICK kept : kept = {} /\ s = Shown(r.refs, kept)
    BY <1>14, <2>1
  <2>9. \A i \in r.refs \cap DOMAIN files : i \in DOMAIN c \cup kept \/ OwnFile(files'[i], v, org)
    BY <2>2
  <2>10. s = Shown(r.refs, kept) /\ IdsFit
    BY <2>8 DEF AssetsInv
  <2>11. Alone(q, s)'
    BY <1>9, <2>2, <2>6, <2>9, <2>10, AloneCopied
  <2> QED
    BY <2>6, <2>7, <2>11
\* A body that stays its owner's, or awaits one with the files it owned.
<1>15. ASSUME NEW r, NEW q, r.org \in BOOLEAN, q.refs = r.refs, q.org = r.org,
              r.org /\ r.owner = v => q.owner = Nobody, ~(r.org /\ r.owner = v) => q.owner = r.owner
       PROVE  Follows(r, q)
  <2> SUFFICES ASSUME NEW i \in DOMAIN files, Own(r, i)
               PROVE  files'[i].org = q.org /\ (files'[i].owner = q.owner \/ files'[i].vis = "organization")
    BY <1>15 DEF Follows
  <2>1. /\ files'[i].org = files[i].org /\ files'[i].vis = files[i].vis
        /\ files[i].org /\ files[i].owner = v => files'[i].owner = Nobody
        /\ ~(files[i].org /\ files[i].owner = v) => files'[i].owner = files[i].owner
    BY <1>8, <1>9 DEF SameFile
  <2> QED
    BY <1>15, <2>1 DEF Own
<1>16. ASSUME NEW t \in DOMAIN templates \ gone, NEW q, q = templates'[t]
       PROVE  /\ TemplateFits(q)' /\ Follows(templates[t], q)
              /\ q.owner # Nobody => q = templates[t]
  <2>1. PICK r : /\ r = templates[t] /\ q = IF Of(v, r) THEN Orphaned(r) ELSE r
    BY <1>4, <1>16
  <2>2. TemplateFits(r) /\ r \in TemplateRow(born, DOMAIN files) /\ Awaits(r) /\ r.org \in BOOLEAN
    BY <1>6, <2>1
  <2>3. CASE Of(v, r)
    <3>1. q = [r EXCEPT !.owner = Nobody, !.pending = TRUE] /\ r.org /\ r.owner = v
      BY <2>1, <2>3 DEF Orphaned, Of
    <3>2. /\ q \in TemplateRow(born, DOMAIN files) /\ q.owner = Nobody /\ q.pending /\ q.org = r.org
          /\ q.refs = r.refs /\ q.media = r.media
      BY <2>2, <3>1 DEF TemplateRow
    <3>3. TemplateFits(q)
      BY <2>2, <3>1, <3>2 DEF TemplateFits, Awaits
    <3>4. TemplateFits(q)'
      BY <1>10, <3>3, TemplateStill DEF AssetsInv
    <3>5. Follows(r, q)
      <4>1. r.org /\ r.owner = v => q.owner = Nobody
        BY <3>2
      <4>2. ~(r.org /\ r.owner = v) => q.owner = r.owner
        BY <3>1
      <4> QED
        BY <1>15, <2>2, <3>2, <4>1, <4>2
    <3> QED
      BY <2>1, <3>2, <3>4, <3>5
  <2>4. CASE ~Of(v, r)
    <3>1. q = r /\ ~(r.org /\ r.owner = v)
      BY <2>1, <2>4 DEF Of
    <3>2. TemplateFits(q)'
      BY <1>10, <2>2, <3>1, TemplateStill DEF AssetsInv
    <3>3. Follows(r, q)
      BY <1>15, <2>2, <3>1
    <3> QED
      BY <2>1, <3>1, <3>2, <3>3
  <2> QED
    BY <2>3, <2>4
<1>17. ASSUME NEW x \in DOMAIN campaigns, NEW q, q = campaigns'[x]
       PROVE  CampaignFits(q)' /\ Follows(campaigns[x], q)
  <2>1. PICK r : /\ r = campaigns[x] /\ CampaignFits(r)
                 /\ Of(v, r) => q = [Orphaned(r) EXCEPT !.status = IF @ = "running" THEN "paused" ELSE @]
                 /\ ~Of(v, r) => q = r
    BY <1>4, <1>17 DEF AssetsInv, RowsFit
  <2>2. r \in CampaignRow(born, DOMAIN files, DOMAIN templates) /\ Awaits(r) /\ r.org \in BOOLEAN
    BY <2>1 DEF CampaignFits, CampaignRow
  <2>3. CASE Of(v, r)
    <3>1. PICK s : s = (IF r.status = "running" THEN "paused" ELSE r.status)
      OBVIOUS
    <3>2. r.org /\ r.owner = v /\ q = [r EXCEPT !.owner = Nobody, !.pending = TRUE, !.status = s]
      BY <2>1, <2>2, <2>3, <3>1 DEF Orphaned, Of, CampaignRow
    <3>3. s \in {"draft", "running", "paused"}
      BY <2>2, <3>1 DEF CampaignRow
    <3>4. /\ q \in CampaignRow(born, DOMAIN files, DOMAIN templates) /\ q.owner = Nobody /\ q.pending
          /\ q.org = r.org /\ q.refs = r.refs
      BY <2>2, <3>2, <3>3 DEF CampaignRow
    <3>5. CampaignFits(q)
      BY <2>1, <3>2, <3>4 DEF CampaignFits, Awaits
    <3>6. CampaignFits(q)'
      BY <1>10, <1>12, <3>5, CampaignStill DEF AssetsInv
    <3>7. Follows(r, q)
      <4>1. r.org /\ r.owner = v => q.owner = Nobody
        BY <3>4
      <4>2. ~(r.org /\ r.owner = v) => q.owner = r.owner
        BY <3>2
      <4> QED
        BY <1>15, <2>2, <3>4, <4>1, <4>2
    <3> QED
      BY <2>1, <3>6, <3>7
  <2>4. CASE ~Of(v, r)
    <3>1. q = r /\ ~(r.org /\ r.owner = v)
      BY <2>1, <2>4 DEF Of
    <3>2. CampaignFits(q)'
      BY <1>10, <1>12, <2>1, <3>1, CampaignStill DEF AssetsInv
    <3>3. Follows(r, q)
      BY <1>15, <2>2, <3>1
    <3> QED
      BY <2>1, <3>2, <3>3
  <2> QED
    BY <2>3, <2>4
<1>18. RowsFit'
  <2>1. \A t \in DOMAIN templates' : TemplateFits(templates[t])'
    <3> SUFFICES ASSUME NEW t \in DOMAIN templates PROVE TemplateFits(templates[t])'
      BY <1>12
    <3>1. PICK q, s : q = templates'[t] /\ s = Shown(templates[t].refs, {})
      OBVIOUS
    <3>2. TemplateFits(q)'
      BY <1>14, <1>16, <3>1
    <3> QED
      BY <3>1, <3>2
  <2>2. \A x \in DOMAIN campaigns' : CampaignFits(campaigns[x])'
    <3> SUFFICES ASSUME NEW x \in DOMAIN campaigns PROVE CampaignFits(campaigns[x])'
      BY <1>12
    <3>1. PICK q : q = campaigns'[x]
      OBVIOUS
    <3>2. CampaignFits(q)'
      BY <1>17, <3>1
    <3> QED
      BY <3>1, <3>2
  <2> QED
    BY <1>10, <2>1, <2>2 DEF RowsFit
<1>19. CopiesFit'
  <2>1. PICK K : K = DOMAIN copied \ gone
    OBVIOUS
  <2>2. \A t \in K \cap DOMAIN templates : t \in DOMAIN templates' /\ Follows(templates[t], templates'[t])
    BY <1>12, <1>16, <2>1
  <2>3. \A x \in K \cap DOMAIN campaigns : x \in DOMAIN campaigns' /\ Follows(campaigns[x], campaigns'[x])
    BY <1>12, <1>17
  <2>4. /\ DOMAIN copied' = K \cup gone /\ K \subseteq DOMAIN copied /\ \A k \in K : copied'[k] = copied[k]
        /\ \A t \in gone : copied'[t] = Shown(templates[t].refs, {})
    BY <1>3, <2>1 DEF Joined
  <2>5. \A k \in K : k \in DOMAIN templates' \cup DOMAIN campaigns' /\ Alone(CopyAt(k), copied[k])'
    <3>1. \A i \in DOMAIN files \cap DOMAIN files' : files'[i].content = files[i].content
      BY <1>8, <1>9 DEF SameFile
    <3>2. \A i \in DOMAIN files' : i <= born /\ i \notin DOMAIN uploads => i \in DOMAIN files
      BY <1>10 DEF IdsGrow
    <3>3. IdsFit /\ RowsFit /\ CopiesFit
      BY DEF AssetsInv
    <3> QED
      BY <1>13, <2>2, <2>3, <2>4, <3>1, <3>2, <3>3, CopiesStay
  <2>6. ASSUME NEW t \in gone PROVE t \in DOMAIN templates' /\ Alone(CopyAt(t), copied[t])'
    <3>1. PICK q, s : q = templates'[t] /\ s = Shown(templates[t].refs, {})
      OBVIOUS
    <3>2. Alone(q, s)' /\ t \in DOMAIN templates' /\ copied'[t] = s
      BY <1>7, <1>12, <1>14, <2>4, <3>1
    <3> QED
      BY <3>1, <3>2 DEF CopyAt, Alone, Own, Contents
  <2> QED
    BY <2>4, <2>5, <2>6 DEF CopiesFit
<1>20. OneDefault'
  <2>1. ASSUME NEW t \in DOMAIN templates', templates'[t].default, templates'[t].owner # Nobody
        PROVE  t \in DOMAIN templates /\ templates'[t] = templates[t]
    <3>1. PICK q, s : q = templates'[t] /\ s = Shown(templates[t].refs, {})
      OBVIOUS
    <3> QED
      BY <1>12, <1>14, <1>16, <2>1, <3>1
  <2> QED
    BY <2>1, DefaultsStay DEF AssetsInv
<1> QED
  BY <1>10, <1>11, <1>13, <1>18, <1>19, <1>20 DEF AssetsInv

-----------------------------------------------------------------------------
(* A step, and the start. *)

LEMMA FolderStepFits ==
    ASSUME AssetsInv, moving = {}, NEW a \in Sessions, FolderStep(a)
    PROVE  AssetsInv'
<1>1. FoldersFit' /\ FiledFit'
  <2>1. FoldersFit /\ FiledFit /\ files' = files
    BY DEF AssetsInv, FolderStep, storeVars
  <2>2. CASE \E parent \in DOMAIN folders \cup {Root}, vis \in Visibilities : CreateFolder(a, parent, vis)
    BY <2>1, <2>2, CreateFolderFits
  <2>3. CASE \E i \in DOMAIN folders, vis \in Visibilities : RenameFolder(a, i, vis)
    BY <2>1, <2>3, RenameFolderFits
  <2>4. CASE \E i \in DOMAIN folders : DeleteFolder(a, i, {k \in DOMAIN files : files[k].folder = i})
    <3>1. PICK i \in DOMAIN folders : DeleteFolder(a, i, {k \in DOMAIN files : files[k].folder = i})
      BY <2>4
    <3> QED
      BY <2>1, <3>1, DeleteFolderFits
  <2> QED
    BY <2>2, <2>3, <2>4 DEF FolderStep
<1> QED
  BY <1>1, RowsSame DEF AssetsInv, FolderStep

LEMMA MoveStepFits ==
    ASSUME AssetsInv, Move
    PROVE  AssetsInv'
<1>1. FoldersFit' /\ FiledFit'
  <2>1. FoldersFit /\ FiledFit /\ files' = files
    BY DEF AssetsInv, Move, storeVars
  <2>2. CASE \E a \in Sessions, i \in DOMAIN folders, parent \in DOMAIN folders \cup {Root} :
                CheckMove(a, i, parent)
    <3>1. FoldersFit' /\ folders' = folders
      BY <2>1, <2>2, CheckMoveFits DEF CheckMove
    <3> QED
      BY <2>1, <3>1 DEF FiledFit, SameWorkspace
  <2>3. CASE \E mv \in moving : MoveFolder(mv)
    BY <2>1, <2>3, MoveFolderFits
  <2> QED
    BY <2>2, <2>3 DEF Move
<1> QED
  BY <1>1, RowsSame DEF AssetsInv, Move

LEMMA FileStepFits ==
    ASSUME AssetsInv, NEW a \in Sessions, FileStep(a)
    PROVE  AssetsInv'
  BY StartUploadFits, MoveMediaFits DEF FileStep

LEMMA StoreStepFits ==
    ASSUME AssetsInv, StoreStep
    PROVE  AssetsInv'
<1>1. UNCHANGED <<folderVars, assetVars>>
  BY DEF StoreStep
<1>2. CASE \E k \in DOMAIN uploads : InsertMedia(k)
  BY <1>1, <1>2, InsertMediaFits
<1>3. CASE \E k \in DOMAIN uploads : FailUpload(k)
  BY <1>1, <1>3, FailUploadFits
<1>4. CASE \E r \in removals : RemoveObject(r)
  BY <1>1, <1>4, RemoveObjectFits
<1>5. CASE IssueLink
  BY <1>1, <1>5, IssueLinkFits
<1> QED
  BY <1>2, <1>3, <1>4, <1>5 DEF StoreStep

LEMMA TemplateStepFits ==
    ASSUME AssetsInv, NEW a \in Sessions, TemplateStep(a)
    PROVE  AssetsInv'
<1>1. CASE \E kind \in {"campaign", "visual"}, vis \in Visibilities, refs \in Authored :
              CreateTemplate(a, kind, vis, refs)
  BY <1>1, CreateTemplateFits
<1>2. CASE \E t \in DOMAIN templates : \E vis \in Visibilities, refs \in Authored : UpdateTemplate(a, t, vis, refs)
  BY <1>2, UpdateTemplateFits
<1>3. CASE \E t \in DOMAIN templates : SetDefault(a, t)
  BY <1>3, SetDefaultFits
<1>4. CASE \E t \in DOMAIN templates : DeleteTemplate(a, t)
  BY <1>4, DeleteTemplateFits
<1>5. CASE \E t \in DOMAIN templates : \E b \in Sessions : CloneTemplate(a, b, t)
  BY <1>5, CloneTemplateFits
<1> QED
  BY <1>1, <1>2, <1>3, <1>4, <1>5 DEF TemplateStep

LEMMA CampaignStepFits ==
    ASSUME AssetsInv, NEW a \in Sessions, CampaignStep(a)
    PROVE  AssetsInv'
<1>1. CASE \E t \in DOMAIN templates \cup {None}, refs \in Authored : CreateCampaign(a, t, refs)
  BY <1>1, CreateCampaignFits
<1>2. CASE \E c \in DOMAIN campaigns : \E t \in DOMAIN templates \cup {None}, refs \in Authored :
              UpdateCampaign(a, c, t, refs)
  BY <1>2, UpdateCampaignFits
<1>3. CASE \E c \in DOMAIN campaigns : \E t \in DOMAIN templates : ImportVisual(a, c, t)
  BY <1>3, ImportVisualFits
<1>4. CASE \E c \in DOMAIN campaigns : StartCampaign(a, c)
  BY <1>4, StartCampaignFits
<1>5. CASE \E c \in DOMAIN campaigns : \E b \in Sessions : CloneCampaign(a, b, c)
  BY <1>5, CloneCampaignFits
<1> QED
  BY <1>1, <1>2, <1>3, <1>4, <1>5 DEF CampaignStep

LEMMA MemberStepFits ==
    ASSUME AssetsInv, MemberStep
    PROVE  AssetsInv'
<1>1. CASE \E v \in Users : RemoveMember(v)
  BY <1>1, RemoveMemberFits
<1>2. CASE \E w \in Users : TransferPendingOrganizationResources(w)
  BY <1>2, InheritFits
<1>3. CASE \E t \in DOMAIN templates, w \in Users : TransferOrganizationTemplate(t, w)
  BY <1>3, HandTemplateFits
<1> QED
  BY <1>1, <1>2, <1>3 DEF MemberStep

LEMMA StepFits ==
    ASSUME AssetsInv, [Next]_vars
    PROVE  AssetsInv'
<1>1. CASE Move
  BY <1>1, MoveStepFits
<1>2. CASE moving = {} /\ \E a \in Sessions : SessionStep(a)
  <2>1. PICK a \in Sessions : SessionStep(a)
    BY <1>2
  <2>2. CASE FolderStep(a)
    BY <1>2, <2>2, FolderStepFits
  <2>3. CASE FileStep(a)
    BY <2>3, FileStepFits
  <2>4. CASE \E i \in DOMAIN files : DeleteFile(a, i)
    BY <2>4, DeleteFileFits
  <2>5. CASE TemplateStep(a)
    BY <2>5, TemplateStepFits
  <2>6. CASE CampaignStep(a)
    BY <2>6, CampaignStepFits
  <2> QED
    BY <2>1, <2>2, <2>3, <2>4, <2>5, <2>6 DEF SessionStep
<1>3. CASE MemberStep
  BY <1>3, MemberStepFits
<1>4. CASE StoreStep
  BY <1>4, StoreStepFits
<1>5. CASE \E c \in DOMAIN campaigns : \E i \in DOMAIN files : SendAttachment(c, i)
  BY <1>5, SendAttachmentFits
<1>6. CASE UNCHANGED vars
  <2>1. UNCHANGED <<storeVars, born, assetVars>> /\ UNCHANGED folderVars
    BY <1>6 DEF vars, storeVars, assetVars, folderVars
  <2>2. FoldersFit' /\ FiledFit'
    <3>1. folders' = folders /\ moving' = moving /\ members' = members /\ files' = files
      BY <2>1 DEF folderVars, storeVars
    <3>2. FiledFit'
      BY <3>1 DEF AssetsInv, FiledFit, SameWorkspace
    <3> QED
      BY <3>1, <3>2, FoldersStill DEF AssetsInv
  <2> QED
    BY <2>1, <2>2, RowsSame DEF AssetsInv
<1> QED
  BY <1>1, <1>2, <1>3, <1>4, <1>5, <1>6 DEF Next

\* The tree at the start has no cycle, as depths are counted in it.
LEMMA DepthsAcyclic ==
    ASSUME NEW f, NEW n \in Nat, ParentsFit(f), NEW depth \in [DOMAIN f -> 0..n],
           \A i \in DOMAIN f : f[i].parent # Root => depth[f[i].parent] < depth[i]
    PROVE  Acyclic(f)
<1> SUFFICES ASSUME NEW i \in DOMAIN f, f[i].parent # Root
             PROVE  i \notin Above(f, f[i].parent)
  BY DEF Acyclic
<1>1. PICK p \in DOMAIN f : p = f[i].parent /\ depth[p] < depth[i]
  BY DEF ParentsFit
<1>2. PICK S \in SUBSET DOMAIN f : S = {j \in DOMAIN f : depth[j] <= depth[p]}
  OBVIOUS
<1>3. p \in S /\ i \notin S
  BY <1>1, <1>2
<1>4. UpwardIn(f, S)
  <2> SUFFICES ASSUME NEW j \in S, f[j].parent # Root PROVE f[j].parent \in S
    BY DEF UpwardIn
  <2>1. f[j].parent \in DOMAIN f /\ depth[f[j].parent] < depth[j] /\ depth[j] <= depth[p]
    BY <1>2 DEF ParentsFit
  <2> QED
    BY <1>2, <2>1
<1> QED
  BY <1>1, <1>3, <1>4, AboveLeast

LEMMA StartFits ==
    ASSUME Init
    PROVE  AssetsInv
<1>1. /\ left \in Bounds /\ members = Users /\ moving = {} /\ issuing = NoIssue
      /\ folders = left.folders /\ files = left.files /\ templates = left.templates
      /\ campaigns = left.campaigns /\ born = left.born
      /\ uploads = <<>> /\ links = <<>> /\ issued = <<>> /\ copied = <<>>
      /\ removals = {} /\ contested = {}
  BY DEF Init, FoldersInit, FilesInit
<1>2. DOMAIN uploads = {} /\ DOMAIN links = {} /\ DOMAIN copied = {} /\ DOMAIN issued = 1..0
  BY <1>1
<1>3. FoldersFit
  <2>1. /\ DOMAIN folders \subseteq Folders /\ ParentsFit(folders) /\ IsFiniteSet(Folders)
        /\ \A i \in DOMAIN folders : folders[i] \in FolderRow
        /\ \E depth \in [DOMAIN folders -> 0..Cardinality(Folders)] :
              \A i \in DOMAIN folders : folders[i].parent # Root => depth[folders[i].parent] < depth[i]
    BY <1>1, MediaFoldersAssumption DEF ParentsFit
  <2>2. Cardinality(Folders) \in Nat
    BY <2>1, FS_CardinalityType
  <2>3. Acyclic(folders)
    BY <2>1, <2>2, DepthsAcyclic
  <2>4. Managers \subseteq Users
    BY MediaFoldersAssumption
  <2> QED
    BY <1>1, <2>1, <2>3, <2>4 DEF FoldersFit, FoldersTypeOK
<1>4. /\ born \in Nat /\ DOMAIN files \subseteq 1..born
      /\ \A i \in DOMAIN files :
            /\ files[i] \in FileRow(born) /\ files[i].owner \in Users /\ ~files[i].pending
            /\ files[i].folder # Root =>
                  files[i].folder \in DOMAIN folders /\ SameWorkspace(files[i], folders[files[i].folder])
            /\ \A j \in DOMAIN files : files[i].name = files[j].name => files[i].content = files[j].content
  BY <1>1, MediaFilesAssumption
<1>5. FiledFit
  BY <1>4 DEF FiledFit
<1>6. /\ DOMAIN templates \cup DOMAIN campaigns \subseteq 1..born /\ DOMAIN templates \cap DOMAIN campaigns = {}
      /\ \A t \in DOMAIN templates :
            /\ templates[t] \in TemplateRow(born, DOMAIN files)
            /\ templates[t].owner \in Users /\ ~templates[t].pending
            /\ templates[t].refs \cap DOMAIN files \subseteq templates[t].media
      /\ \A c \in DOMAIN campaigns :
            /\ campaigns[c] \in CampaignRow(born, DOMAIN files, DOMAIN templates)
            /\ campaigns[c].owner \in Users /\ ~campaigns[c].pending
  BY <1>1, AssetsAssumption
<1>7. OneDefault
  BY <1>1, AssetsAssumption DEF OneDefault
<1>8. IdsFit
  BY <1>2, <1>4, <1>6 DEF IdsFit
<1>9. RowsFit
  <2>1. Nobody \notin Users
    BY MediaFoldersAssumption
  <2>2. \A i \in DOMAIN files : FileFits(files[i])
    BY <1>4, <2>1 DEF FileFits, Awaits
  <2>3. \A t \in DOMAIN templates : TemplateFits(templates[t])
    BY <1>2, <1>6, <2>1 DEF TemplateFits, Awaits
  <2>4. \A c \in DOMAIN campaigns : CampaignFits(campaigns[c])
    BY <1>2, <1>6, <2>1 DEF CampaignFits, Awaits
  <2> QED
    BY <2>2, <2>3, <2>4 DEF RowsFit
<1>10. StoreFits
  <2>1. \A n \in Names : /\ store[n] \in 0..born
                         /\ \A i \in DOMAIN files : files[i].name = n => store[n] = files[i].content
    <3> SUFFICES ASSUME NEW n \in Names
                 PROVE  /\ store[n] \in 0..born
                        /\ \A i \in DOMAIN files : files[i].name = n => store[n] = files[i].content
      OBVIOUS
    <3>1. PICK here : here = {i \in DOMAIN files : files[i].name = n}
      OBVIOUS
    <3>2. store[n] = IF here = {} THEN 0 ELSE files[CHOOSE i \in here : TRUE].content
      BY <3>1 DEF Init, FilesInit
    <3>3. CASE here = {}
      BY <1>4, <3>1, <3>2, <3>3
    <3>4. CASE here # {}
      <4>1. PICK i \in here : i = CHOOSE j \in here : TRUE
        BY <3>4
      <4>2. store[n] = files[i].content /\ i \in DOMAIN files /\ files[i].name = n
        BY <3>1, <3>2, <3>4, <4>1
      <4>3. files[i].content \in 1..born
        BY <1>4, <4>2 DEF FileRow
      <4> QED
        BY <1>4, <4>2, <4>3
    <3> QED
      BY <3>3, <3>4
  <2>2. store \in [Names -> 0..born]
    BY <2>1 DEF Init, FilesInit
  <2>3. \A i \in DOMAIN files : files[i].name \in Names
    BY <1>4 DEF FileRow
  <2>4. NamesFit
    BY <1>1, <1>2, <2>1, <2>3 DEF NamesFit
  <2> QED
    BY <1>1, <1>2, <2>2, <2>4 DEF StoreFits
<1>11. LinksFit
  <2>1. 0 \in Nat /\ DOMAIN issued = 1..0
    BY <1>2
  <2> QED
    BY <1>1, <1>2, <2>1 DEF LinksFit
<1>12. CopiesFit
  BY <1>2 DEF CopiesFit
<1> QED
  BY <1>3, <1>5, <1>7, <1>8, <1>9, <1>10, <1>11, <1>12 DEF AssetsInv

-----------------------------------------------------------------------------
(* What follows from it. *)

LEMMA TreeFits ==
    ASSUME AssetsInv
    PROVE  LibraryTree
<1>1. AssetsTypeOK
  <2>1. \A i \in DOMAIN files : files[i] \in FileRow(born)
    BY DEF AssetsInv, RowsFit, FileFits
  <2>2. \A t \in DOMAIN templates : templates[t] \in TemplateRow(born, DOMAIN files)
    BY DEF AssetsInv, RowsFit, TemplateFits
  <2>3. \A c \in DOMAIN campaigns : campaigns[c] \in CampaignRow(born, DOMAIN files, DOMAIN templates)
    BY DEF AssetsInv, RowsFit, CampaignFits
  <2>4. FilesTypeOK
    BY <2>1 DEF AssetsInv, FilesTypeOK, StoreFits, LinksFit
  <2>5. FoldersTypeOK /\ DOMAIN copied \subseteq DOMAIN templates \cup DOMAIN campaigns
    BY DEF AssetsInv, FoldersFit, CopiesFit
  <2> QED
    BY <2>2, <2>3, <2>4, <2>5 DEF AssetsTypeOK
<1>2. ParentsFit(folders) /\ Acyclic(folders) /\ FiledFit
  BY DEF AssetsInv, FoldersFit
<1>3. \A i \in DOMAIN folders : folders[i].parent # Root =>
         /\ folders[i].parent \in DOMAIN folders
         /\ SameWorkspace(folders[i], folders[folders[i].parent])
         /\ folders[i].org => i \notin Ancestors(folders[i].parent)
  BY <1>2, AncestorsAbove DEF ParentsFit, Acyclic
<1> QED
  BY <1>1, <1>2, <1>3 DEF LibraryTree, FiledFit

LEMMA KeptFits ==
    ASSUME AssetsInv
    PROVE  FilesKept
<1>1. \A i \in DOMAIN files : files[i].name \notin contested => store[files[i].name] = files[i].content
  BY DEF AssetsInv, StoreFits, NamesFit
<1>2. ASSUME NEW token \in DOMAIN issued, Serves(token), NEW was, was = issued[token]
      PROVE  /\ was.id \in DOMAIN files
             /\ files[was.id].owner = was.owner /\ files[was.id].org = was.org
             /\ files[was.id].name \notin contested => store[files[was.id].name] = was.content
  <2>1. PICK i \in DOMAIN links :
           /\ links[i].token = token
           /\ ~files[i].pending /\ files[i].owner = links[i].owner /\ files[i].org = links[i].org
    BY <1>2 DEF Serves
  <2>2. /\ was.id = i /\ was.owner = links[i].owner /\ was.org = links[i].org /\ Was(was, i)
        /\ i \in DOMAIN files
    BY <1>2, <2>1 DEF AssetsInv, LinksFit
  <2> QED
    BY <1>1, <2>1, <2>2 DEF Was
<1> QED
  BY <1>1, <1>2 DEF FilesKept

LEMMA AloneFits ==
    ASSUME AssetsInv
    PROVE  StandsAlone
  BY DEF AssetsInv, CopiesFit, Alone, CopyAt, StandsAlone

\* Only its deletion takes a template away.
LEMMA TemplatesStay ==
    ASSUME [Next]_vars
    PROVE  \/ DOMAIN templates \subseteq DOMAIN templates'
           \/ \E a \in Sessions, x \in DOMAIN templates : DeleteTemplate(a, x)
<1>1. CASE Move
  BY <1>1 DEF Move, assetVars
<1>2. CASE \E a \in Sessions : SessionStep(a)
  <2>1. PICK a \in Sessions : SessionStep(a)
    BY <1>2
  <2>2. CASE FolderStep(a) \/ FileStep(a)
    BY <2>2 DEF FolderStep, FileStep, assetVars
  <2>3. CASE \E i \in DOMAIN files : DeleteFile(a, i)
    BY <2>3 DEF DeleteFile
  <2>4. CASE TemplateStep(a)
    <3>1. CASE \E kind \in {"campaign", "visual"}, vis \in Visibilities, refs \in Authored :
                  CreateTemplate(a, kind, vis, refs)
      <4>1. PICK x, row : templates' = With(templates, x, row)
        BY <3>1 DEF CreateTemplate
      <4> QED
        BY <4>1 DEF With
    <3>2. CASE \E t \in DOMAIN templates : \E vis \in Visibilities, refs \in Authored :
                  UpdateTemplate(a, t, vis, refs)
      BY <3>2 DEF UpdateTemplate
    <3>3. CASE \E t \in DOMAIN templates : SetDefault(a, t)
      BY <3>3 DEF SetDefault
    <3>4. CASE \E t \in DOMAIN templates : DeleteTemplate(a, t)
      BY <3>4
    <3>5. CASE \E t \in DOMAIN templates : \E b \in Sessions : CloneTemplate(a, b, t)
      <4>1. PICK x, row : templates' = With(templates, x, row)
        BY <3>5 DEF CloneTemplate
      <4> QED
        BY <4>1 DEF With
    <3> QED
      BY <2>4, <3>1, <3>2, <3>3, <3>4, <3>5 DEF TemplateStep
  <2>5. CASE CampaignStep(a)
    <3>1. CASE \E t \in DOMAIN templates \cup {None}, refs \in Authored : CreateCampaign(a, t, refs)
      BY <3>1 DEF CreateCampaign
    <3>2. CASE \E c \in DOMAIN campaigns : \E t \in DOMAIN templates \cup {None}, refs \in Authored :
                  UpdateCampaign(a, c, t, refs)
      BY <3>2 DEF UpdateCampaign
    <3>3. CASE \E c \in DOMAIN campaigns : \E t \in DOMAIN templates : ImportVisual(a, c, t)
      BY <3>3 DEF ImportVisual
    <3>4. CASE \E c \in DOMAIN campaigns : StartCampaign(a, c)
      BY <3>4 DEF StartCampaign
    <3>5. CASE \E c \in DOMAIN campaigns : \E b \in Sessions : CloneCampaign(a, b, c)
      <4>1. PICK x, row : templates' = With(templates, x, row) \/ templates' = templates
        BY <3>5 DEF CloneCampaign
      <4> QED
        BY <4>1 DEF With
    <3> QED
      BY <2>5, <3>1, <3>2, <3>3, <3>4, <3>5 DEF CampaignStep
  <2> QED
    BY <2>1, <2>2, <2>3, <2>4, <2>5 DEF SessionStep
<1>3. CASE MemberStep
  BY <1>3 DEF MemberStep, RemoveMember, TransferPendingOrganizationResources, TransferOrganizationTemplate
<1>4. CASE StoreStep
  BY <1>4 DEF StoreStep, assetVars
<1>5. CASE \E c \in DOMAIN campaigns : \E i \in DOMAIN files : SendAttachment(c, i)
  BY <1>5 DEF SendAttachment
<1>6. CASE UNCHANGED vars
  BY <1>6 DEF vars
<1> QED
  BY <1>1, <1>2, <1>3, <1>4, <1>5, <1>6 DEF Next

DefaultsStep ==
    /\ \A u \in Users, org \in BOOLEAN :
          Cardinality({t \in DOMAIN templates' :
             templates'[t].default /\ templates'[t].owner = u /\ templates'[t].org = org}) <= 1
    /\ \A c \in DOMAIN campaigns, t \in DOMAIN templates \ DOMAIN templates' :
          campaigns[c].template = t =>
             campaigns'[c].template = None \/ MayUse(OwnerOf(campaigns[c]), campaigns'[c].template)

LEMMA DefaultsFit ==
    ASSUME AssetsInv, AssetsInv', [Next]_vars
    PROVE  DefaultsStep
<1>1. ASSUME NEW u \in Users, NEW org \in BOOLEAN
      PROVE  Cardinality({t \in DOMAIN templates' :
                templates'[t].default /\ templates'[t].owner = u /\ templates'[t].org = org}) <= 1
  <2>1. PICK D : D = {t \in DOMAIN templates' :
                         templates'[t].default /\ templates'[t].owner = u /\ templates'[t].org = org}
    OBVIOUS
  <2>2. \A s, t \in D : s = t
    <3>1. u # Nobody /\ OneDefault'
      BY MediaFoldersAssumption DEF AssetsInv
    <3> QED
      BY <2>1, <3>1 DEF OneDefault
  <2>3. Cardinality(D) <= 1
    <3>1. CASE D = {}
      BY <3>1, FS_EmptySet
    <3>2. CASE D # {}
      <4>1. PICK x \in D : TRUE
        BY <3>2
      <4>2. D = {x}
        BY <2>2, <4>1
      <4>3. Cardinality({x}) = 1
        BY FS_Singleton
      <4> QED
        BY <4>2, <4>3
    <3> QED
      BY <3>1, <3>2
  <2> QED
    BY <2>1, <2>3
<1>2. ASSUME NEW c \in DOMAIN campaigns, NEW t \in DOMAIN templates \ DOMAIN templates',
             campaigns[c].template = t
      PROVE  campaigns'[c].template = None \/ MayUse(OwnerOf(campaigns[c]), campaigns'[c].template)
  <2>1. PICK a \in Sessions, x \in DOMAIN templates : DeleteTemplate(a, x)
    BY <1>2, TemplatesStay
  <2>2. t = x
    BY <1>2, <2>1 DEF DeleteTemplate, Without
  <2>3. PICK r, q, d : r = campaigns[c] /\ q = campaigns'[c] /\ d = DefaultFor(r.owner, r.org)
    OBVIOUS
  <2>4. q = [r EXCEPT !.template = d]
    BY <1>2, <2>1, <2>2, <2>3 DEF DeleteTemplate, Fallback
  <2>5. r \in CampaignRow(born, DOMAIN files, DOMAIN templates)
    BY <2>3 DEF AssetsInv, RowsFit, CampaignFits
  <2>6. q.template = d
    BY <2>4, <2>5 DEF CampaignRow
  <2>7. d # None => Usable([user |-> r.owner, org |-> r.org], templates[d], templates[d].vis)
    BY <2>3, DefaultFacts DEF AssetsInv
  <2> QED
    BY <2>3, <2>6, <2>7 DEF MayUse, OwnerOf
<1> QED
  BY <1>1, <1>2 DEF DefaultsStep

-----------------------------------------------------------------------------
(* The theorems. *)

\* What the proofs rest on holds in every state, for every number of folders, names, files
\* and members.
THEOREM AssetsHold == Spec => []AssetsInv
<1>1. Init => AssetsInv
  BY StartFits
<1>2. AssetsInv /\ [Next]_vars => AssetsInv'
  BY StepFits
<1> QED
  BY <1>1, <1>2, PTL DEF Spec

\* No folder of the organization comes to lie below itself and nothing leaves its workspace,
\* for every number of moves at a time: a move in the organization is checked and written
\* under one lock, media_folders.go:310-322 and 465-523.
THEOREM LibraryIsTree == Spec => []LibraryTree
<1>1. AssetsInv => LibraryTree
  BY TreeFits
<1> QED
  BY <1>1, AssetsHold, PTL

\* A file shows what was uploaded for it, however its copies are deleted and late removals
\* and other uploads interleave; and a link serves what its sender attached, or nothing
\* (core/media.go:207-248, cmd/email_media.go:36-58).
THEOREM FilesAreKept == Spec => []FilesKept
<1>1. AssetsInv => FilesKept
  BY KeptFits
<1> QED
  BY <1>1, AssetsHold, PTL

\* A copied template or campaign shows what its source showed, by files of its own owner,
\* through clones, departures, inheritance and handed-over templates
\* (core/workspace_actions.go:107-121, core/organizations.go:1054-1060).
THEOREM CopiesStandAlone == Spec => []StandsAlone
<1>1. AssetsInv => StandsAlone
  BY AloneFits
<1> QED
  BY <1>1, AssetsHold, PTL

\* An owner has one default for each workspace, and a campaign whose template is deleted gets
\* one that its owner may send (core/templates.go:198-201).
THEOREM DefaultsAreKept == Spec => DefaultsKept
<1>1. AssetsInv /\ AssetsInv' /\ [Next]_vars => [DefaultsStep]_vars
  BY DefaultsFit
<1>2. [][DefaultsStep]_vars => DefaultsKept
  BY DEF DefaultsStep, DefaultsKept
<1> QED
  BY <1>1, <1>2, AssetsHold, PTL DEF Spec
=============================================================================
