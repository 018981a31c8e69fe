---------------------------- MODULE FileTreeProofs ----------------------------
(***************************************************************************)
(* Directories implements FileTree, for every set of inodes, names and     *)
(* paths, so long as none of the circumstances in Oddities has occurred.   *)
(*                                                                         *)
(* What FileTree keeps is a function of the state of Directories: NamesOf, *)
(* NodesOf, StoredOf and HandlesOf.  Each call has a lemma here that says  *)
(* which step of FileTree it is, from what DirectoriesProofs says of the   *)
(* call.                                                                   *)
(***************************************************************************)
EXTENDS DirectoriesProofs

-----------------------------------------------------------------------------
(* Files and their names, as FileTree sees them.                             *)

\* The files that are known to FileTree.
Shown == INode \ {Root}

\* The names, the nodes in core and on disk, and the open files in a state.
IsUsed(s, i) == s.newest[i].links > 0 \/ i \in DOMAIN s.table

Led(s) == {p \in Seq(Key) : Len(p) \in 1 .. 2 /\ \E i \in INode : LeadsTo(s, p, i)}

NamesOf(s)  == [p \in Led(s) |-> CHOOSE i \in INode : LeadsTo(s, p, i)]
NodesOf(s)  == [i \in Shown |-> IF IsUsed(s, i) THEN NodeOf(s.newest[i])
                                ELSE NodeOf(Node("FREE", 0))]
StoredOf(s) == [i \in Shown |-> IF s.newest[i].links > 0 THEN NodeOf(s.disk[i])
                                ELSE NodeOf(Node("FREE", 0))]
OpenPathsOf(s) == {s.open[k].path : k \in DOMAIN s.open}
HandlesOf(s) == [p \in OpenPathsOf(s) |->
                   LET k == Min(EntryOf(s, p))
                   IN  [file |-> s.open[k].id, ops |-> s.open[k].ops]]

\* The paths as Directories builds them from the slots.
SlotsIn(D, d, p) ==
  {<<Append(p, D[d][k].key), D[d][k].id>> : k \in {k \in DOMAIN D[d] : D[d][k].id # Removed}}

LeadsIn(D) == LET top == SlotsIn(D, Root, <<>>)
              IN  top \union UNION {SlotsIn(D, x[2], x[1]) : x \in top}

\* They follow from the slots.
LEMMA LeadsNow == /\ Leads = LeadsIn(dir)
                  /\ Leads' = LeadsIn(dir')
BY DEF Leads, LeadsIn, SlotsOf, SlotsIn

\* A slot of a directory that leads to an inode, with the path to it.
LEMMA SlotsInAt ==
  ASSUME NEW s, Sound(s), NEW d \in INode, NEW p, NEW x
  PROVE  x \in SlotsIn(s.dir, d, p)
           <=> \E m \in Key, j \in INode : At(s, d, m, j) /\ x = <<Append(p, m), j>>
<1>1. s.dir[d] \in Seq(Slot)
  BY StatesFields DEF Sound
<1>2. \A k \in DOMAIN s.dir[d] : /\ s.dir[d][k].id \in INode \union {Removed}
                                 /\ s.dir[d][k].key \in Key
  BY <1>1, LiveSlots, Zenon DEF Key
<1>3. \A j \in INode : j # Removed
  BY PathAssumption, Zenon
<1>4. ASSUME x \in SlotsIn(s.dir, d, p)
      PROVE  \E m \in Key, j \in INode : At(s, d, m, j) /\ x = <<Append(p, m), j>>
  <2>1. PICK k \in DOMAIN s.dir[d] : /\ s.dir[d][k].id # Removed
                                     /\ x = <<Append(p, s.dir[d][k].key), s.dir[d][k].id>>
    BY <1>4 DEF SlotsIn
  <2>2. At(s, d, s.dir[d][k].key, s.dir[d][k].id)
    BY DEF At, Entry
  <2> QED BY <1>2, <2>1, <2>2
<1>5. ASSUME NEW m \in Key, NEW j \in INode, At(s, d, m, j), x = <<Append(p, m), j>>
      PROVE  x \in SlotsIn(s.dir, d, p)
  <2>1. PICK k \in DOMAIN s.dir[d] : s.dir[d][k].key = m /\ s.dir[d][k].id = j
    BY <1>5 DEF At, Entry
  <2> QED BY <1>3, <1>5, <2>1 DEF SlotsIn
<1> QED BY <1>4, <1>5

\* Some path facts.
LEMMA OnePath ==
  ASSUME NEW m \in Key
  PROVE  /\ IsPath(Append(<<>>, m)) /\ Len(Append(<<>>, m)) = 1
         /\ Append(<<>>, m)[1] = m
         /\ Append(<<>>, m) = <<m>>
BY DEF IsPath

\* A path is its one or two names.
LEMMA PathShape ==
  ASSUME NEW p, IsPath(p)
  PROVE  /\ p \in Seq(Key) /\ p[1] \in Key
         /\ Len(p) = 1 => p = Append(<<>>, p[1])
         /\ Len(p) = 2 => p[2] \in Key /\ p = Append(Append(<<>>, p[1]), p[2])
<1>1. p \in Seq(Key) /\ Len(p) \in 1 .. 2 /\ p[1] \in Key
  BY DEF IsPath
<1>2. CASE Len(p) = 1
  <2>1. /\ IsPath(Append(<<>>, p[1])) /\ Len(Append(<<>>, p[1])) = 1
        /\ Append(<<>>, p[1])[1] = p[1]
    BY <1>1, OnePath
  <2>2. p = Append(<<>>, p[1])
    BY <1>2, <2>1, PathEq
  <2> QED BY <1>1, <1>2, <2>2
<1>3. CASE Len(p) = 2
  <2> DEFINE a == Append(<<>>, p[1])
             b == Append(a, p[2])
  <2>1. /\ IsPath(a) /\ Len(a) = 1 /\ a[1] = p[1]
    BY <1>1, OnePath
  <2>2. p[2] \in Key
    BY <1>1, <1>3
  <2> HIDE DEF a
  <2>3. IsPath(b) /\ Len(b) = 2 /\ b[1] = a[1] /\ b[2] = p[2]
    BY <2>1, <2>2, ChildPath
  <2> HIDE DEF b
  <2>4. p = b
    BY <1>3, <2>1, <2>3, PathEq
  <2> QED BY <1>1, <1>3, <2>2, <2>4 DEF a, b
<1> QED BY <1>1, <1>2, <1>3 DEF IsPath

\* The paths that are built from the slots are those that lead somewhere.
LEMMA LeadsInIs ==
  ASSUME NEW s, Sound(s), NEW x
  PROVE  x \in LeadsIn(s.dir)
           <=> \E p, i : /\ x = <<p, i>> /\ IsPath(p) /\ i \in INode
                         /\ LeadsTo(s, p, i)
<1> DEFINE top == SlotsIn(s.dir, Root, <<>>)
<1>1. Root \in INode
  BY PathAssumption, Zenon
<1>2. \A y : y \in top <=> \E m \in Key, j \in INode :
                 At(s, Root, m, j) /\ y = <<Append(<<>>, m), j>>
  <2> SUFFICES ASSUME NEW y
               PROVE  y \in top <=> \E m \in Key, j \in INode :
                 At(s, Root, m, j) /\ y = <<Append(<<>>, m), j>>
    OBVIOUS
  <2> DEFINE e == <<>>
  <2>1. top = SlotsIn(s.dir, Root, e)
    OBVIOUS
  <2> HIDE DEF top, e
  <2>2. y \in SlotsIn(s.dir, Root, e) <=> \E m \in Key, j \in INode :
                 At(s, Root, m, j) /\ y = <<Append(e, m), j>>
    BY <1>1, SlotsInAt
  <2> QED BY <2>1, <2>2 DEF e
<1> HIDE DEF top
<1>3. x \in LeadsIn(s.dir) <=> \/ x \in top
                               \/ \E y \in top : x \in SlotsIn(s.dir, y[2], y[1])
  BY DEF LeadsIn, top
<1>4. ASSUME x \in top
      PROVE  \E p, i : x = <<p, i>> /\ IsPath(p) /\ i \in INode /\ LeadsTo(s, p, i)
  <2>1. PICK m \in Key, j \in INode : At(s, Root, m, j) /\ x = <<Append(<<>>, m), j>>
    BY <1>2, <1>4
  <2> DEFINE p == Append(<<>>, m)
  <2>2. IsPath(p) /\ Len(p) = 1 /\ p[1] = m
    BY OnePath
  <2>3. x = <<p, j>>
    BY <2>1
  <2> HIDE DEF p
  <2>4. LeadsTo(s, p, j)
    BY <2>1, <2>2 DEF LeadsTo
  <2> QED BY <2>2, <2>3, <2>4
<1>5. ASSUME NEW y \in top, x \in SlotsIn(s.dir, y[2], y[1])
      PROVE  \E p, i : x = <<p, i>> /\ IsPath(p) /\ i \in INode /\ LeadsTo(s, p, i)
  <2>1. PICK m \in Key, d \in INode : At(s, Root, m, d) /\ y = <<Append(<<>>, m), d>>
    BY <1>2
  <2> DEFINE a == Append(<<>>, m)
  <2>2. IsPath(a) /\ Len(a) = 1 /\ a[1] = m
    BY OnePath
  <2>3. y[1] = a /\ y[2] = d
    BY <2>1
  <2> HIDE DEF a
  <2>4. PICK n \in Key, j \in INode : At(s, d, n, j) /\ x = <<Append(a, n), j>>
    BY <1>5, <2>3, SlotsInAt
  <2> DEFINE p == Append(a, n)
  <2>5. IsPath(p) /\ Len(p) = 2 /\ p[1] = m /\ p[2] = n
    BY <2>2, ChildPath
  <2>6. x = <<p, j>>
    BY <2>4
  <2> HIDE DEF p
  <2>7. LeadsTo(s, p, j)
    BY <2>1, <2>4, <2>5 DEF LeadsTo
  <2> QED BY <2>5, <2>6, <2>7
<1>6. ASSUME NEW p, NEW i \in INode, x = <<p, i>>, IsPath(p), LeadsTo(s, p, i)
      PROVE  x \in LeadsIn(s.dir)
  <2>1. /\ p \in Seq(Key) /\ p[1] \in Key
        /\ Len(p) = 1 => p = Append(<<>>, p[1])
        /\ Len(p) = 2 => p[2] \in Key /\ p = Append(Append(<<>>, p[1]), p[2])
    BY <1>6, PathShape
  <2>2. CASE Len(p) = 1
    <3>1. At(s, Root, p[1], i)
      BY <1>6, <2>2 DEF LeadsTo
    <3>2. x \in top
      BY <1>2, <1>6, <2>1, <2>2, <3>1
    <3> QED BY <1>3, <3>2
  <2>3. CASE Len(p) = 2
    <3>1. PICK d \in INode : At(s, Root, p[1], d) /\ At(s, d, p[2], i)
      BY <1>6, <2>3 DEF LeadsTo
    <3> DEFINE a == Append(<<>>, p[1])
               y == <<a, d>>
    <3>2. y \in top
      BY <1>2, <2>1, <3>1
    <3>3. y[1] = a /\ y[2] = d
      OBVIOUS
    <3>4. x = <<Append(a, p[2]), i>> /\ p[2] \in Key
      BY <1>6, <2>1, <2>3
    <3> HIDE DEF a, y
    <3>5. x \in SlotsIn(s.dir, d, a)
      BY <3>1, <3>4, SlotsInAt
    <3> QED BY <1>3, <3>2, <3>3, <3>5
  <2> QED BY <1>6, <2>2, <2>3 DEF IsPath
<1> QED BY <1>3, <1>4, <1>5, <1>6

\* A path that leads somewhere leads there only.
LEMMA NamesOfIs ==
  ASSUME NEW s, OneEntry(s), NEW p, IsPath(p), NEW i \in INode, LeadsTo(s, p, i)
  PROVE  p \in DOMAIN NamesOf(s) /\ NamesOf(s)[p] = i
<1>1. p \in Led(s)
  BY DEF Led, IsPath
<1>2. NamesOf(s)[p] = CHOOSE j \in INode : LeadsTo(s, p, j)
  BY <1>1 DEF NamesOf
<1>3. \A j \in INode : LeadsTo(s, p, j) => j = i
  BY LeadsOne
<1> QED BY <1>1, <1>2, <1>3 DEF NamesOf

\* And all paths that are shown lead somewhere.
LEMMA NamesOfDomain ==
  ASSUME NEW s, OneEntry(s), NEW p \in DOMAIN NamesOf(s)
  PROVE  IsPath(p) /\ NamesOf(s)[p] \in INode /\ LeadsTo(s, p, NamesOf(s)[p])
<1>1. IsPath(p) /\ \E i \in INode : LeadsTo(s, p, i)
  BY DEF NamesOf, Led, IsPath
<1> QED BY <1>1, NamesOfIs

\* The names are those of the slots.
LEMMA LeadsInNames ==
  ASSUME NEW s, Sound(s), OneEntry(s)
  PROVE  PathsTo(LeadsIn(s.dir)) = NamesOf(s)
<1> DEFINE E == LeadsIn(s.dir)
           paths == {x[1] : x \in E}
<1>1. \A x : x \in E <=> \E p, i : x = <<p, i>> /\ IsPath(p) /\ i \in INode /\ LeadsTo(s, p, i)
  BY LeadsInIs
<1> HIDE DEF E
<1>2. paths = Led(s)
  <2>1. ASSUME NEW x \in E PROVE x[1] \in Led(s)
    <3>1. PICK p, i : x = <<p, i>> /\ IsPath(p) /\ i \in INode /\ LeadsTo(s, p, i)
      BY <1>1
    <3> QED BY <3>1 DEF Led, IsPath
  <2>2. ASSUME NEW p \in Led(s) PROVE p \in paths
    <3>1. PICK i \in INode : LeadsTo(s, p, i)
      BY DEF Led
    <3>2. <<p, i>> \in E
      BY <1>1, <3>1 DEF Led, IsPath
    <3>3. <<p, i>>[1] = p
      OBVIOUS
    <3> QED BY <3>2, <3>3
  <2> QED BY <2>1, <2>2
<1>3. ASSUME NEW p \in Led(s)
      PROVE  (CHOOSE x \in E : x[1] = p)[2] = CHOOSE i \in INode : LeadsTo(s, p, i)
  <2> DEFINE y == CHOOSE x \in E : x[1] = p
  <2>1. \E x \in E : x[1] = p
    BY <1>2
  <2>2. y \in E /\ y[1] = p
    BY <2>1
  <2> HIDE DEF y
  <2>3. PICK q, i : y = <<q, i>> /\ IsPath(q) /\ i \in INode /\ LeadsTo(s, q, i)
    BY <1>1, <2>2
  <2>4. q = p /\ y[2] = i
    BY <2>2, <2>3
  <2>5. NamesOf(s)[p] = i
    BY <2>3, <2>4, NamesOfIs
  <2>6. NamesOf(s)[p] = CHOOSE j \in INode : LeadsTo(s, p, j)
    BY DEF NamesOf
  <2> QED BY <2>4, <2>5, <2>6 DEF y
<1> HIDE DEF paths
<1>4. PathsTo(E) = [p \in paths |-> (CHOOSE x \in E : x[1] = p)[2]]
  BY DEF PathsTo, paths
<1>5. PathsTo(E) = NamesOf(s)
  BY <1>2, <1>3, <1>4 DEF NamesOf
<1> QED BY <1>5 DEF E

\* What FileTree sees of the state before and after a call.
LEMMA ShownNow ==
  ASSUME Sound(State), Named(State)
  PROVE  /\ PathsTo(Leads) = NamesOf(State)
         /\ [i \in INode \ {Root} |->
               IF InUse(i) \/ i \in DOMAIN table THEN NodeOf(InCore(State, i))
                                                ELSE NodeOf(Node("FREE", 0))] = NodesOf(State)
         /\ [i \in INode \ {Root} |->
               IF InUse(i) THEN NodeOf(disk[i]) ELSE NodeOf(Node("FREE", 0))] = StoredOf(State)
         /\ [p \in {open[k].path : k \in DOMAIN open} |->
               LET k == Min(EntryOf(State, p))
               IN  [file |-> open[k].id, ops |-> open[k].ops]] = HandlesOf(State)
<1>1. /\ State.dir = dir /\ State.disk = disk /\ State.table = table /\ State.open = open
      /\ State.newest = newest
  BY DEF State
<1>2. PathsTo(Leads) = NamesOf(State)
  BY <1>1, LeadsNow, LeadsInNames DEF Named
<1>3. \A i \in INode : InCore(State, i) = State.newest[i]
  BY DEF Sound
<1>4. \A i \in INode : InUse(i) <=> State.newest[i].links > 0
  BY <1>3 DEF InUse
<1> QED BY <1>1, <1>2, <1>3, <1>4 DEF NodesOf, StoredOf, HandlesOf, IsUsed, OpenPathsOf, Shown

LEMMA ShownNext ==
  ASSUME NEW t, Become(t), Sound(t), Named(t)
  PROVE  /\ PathsTo(Leads)' = NamesOf(t)
         /\ [i \in INode \ {Root} |->
               IF InUse(i) \/ i \in DOMAIN table THEN NodeOf(InCore(State, i))
                                                ELSE NodeOf(Node("FREE", 0))]' = NodesOf(t)
         /\ [i \in INode \ {Root} |->
               IF InUse(i) THEN NodeOf(disk[i]) ELSE NodeOf(Node("FREE", 0))]' = StoredOf(t)
         /\ [p \in {open[k].path : k \in DOMAIN open} |->
               LET k == Min(EntryOf(State, p))
               IN  [file |-> open[k].id, ops |-> open[k].ops]]' = HandlesOf(t)
<1>1. State' = t
  BY BecomeState DEF Sound
<1>2. /\ dir' = t.dir /\ disk' = t.disk /\ table' = t.table /\ open' = t.open
      /\ newest' = t.newest
  BY DEF Become
<1>3. PathsTo(Leads)' = NamesOf(t)
  <2>1. PathsTo(LeadsIn(t.dir)) = NamesOf(t)
    BY LeadsInNames DEF Named
  <2>2. Leads' = LeadsIn(t.dir)
    BY <1>2, LeadsNow
  <2> DEFINE E == LeadsIn(t.dir)
  <2>3. [p \in {x[1] : x \in E} |-> (CHOOSE x \in E : x[1] = p)[2]] = NamesOf(t)
    BY <2>1 DEF PathsTo
  <2> HIDE DEF E
  <2>4. Leads' = E
    BY <2>2 DEF E
  <2> QED BY <2>3, <2>4 DEF PathsTo
<1>4. \A i \in INode : InCore(State, i)' = t.newest[i]
  BY <1>1 DEF Sound
<1>5. \A i \in INode : InUse(i)' <=> t.newest[i].links > 0
  BY <1>4 DEF InUse
<1> QED BY <1>1, <1>2, <1>3, <1>4, <1>5
        DEF NodesOf, StoredOf, HandlesOf, IsUsed, OpenPathsOf, Shown

-----------------------------------------------------------------------------
(* The steps of FileTree, in terms of what a state shows.                    *)

\* An open file is shown under its path.
LEMMA HandlesOfIs ==
  ASSUME NEW s, Sound(s), OpenNamed(s), NEW k \in DOMAIN s.open
  PROVE  /\ s.open[k].path \in DOMAIN HandlesOf(s)
         /\ HandlesOf(s)[s.open[k].path] = [file |-> s.open[k].id, ops |-> s.open[k].ops]
<1> DEFINE p == s.open[k].path
<1>1. p \in OpenPathsOf(s) /\ EntryOf(s, p) # {}
  BY DEF OpenPathsOf, EntryOf
<1>2. Min(EntryOf(s, p)) \in DOMAIN s.open /\ s.open[Min(EntryOf(s, p))].path = p
  BY <1>1, EntryIn
<1>3. Min(EntryOf(s, p)) = k
  BY <1>2 DEF OpenNamed
<1> QED BY <1>1, <1>3 DEF HandlesOf

\* And what is shown is an open file.
LEMMA HandlesOfDomain ==
  ASSUME NEW s, Sound(s), OpenNamed(s), NEW p \in DOMAIN HandlesOf(s)
  PROVE  \E k \in DOMAIN s.open : /\ s.open[k].path = p
                                  /\ HandlesOf(s)[p].file = s.open[k].id
                                  /\ HandlesOf(s)[p].ops = s.open[k].ops
<1>1. PICK k \in DOMAIN s.open : s.open[k].path = p
  BY DEF HandlesOf, OpenPathsOf
<1>2. HandlesOf(s)[p] = [file |-> s.open[k].id, ops |-> s.open[k].ops]
  BY <1>1, HandlesOfIs
<1> QED BY <1>1, <1>2

\* The files with a path are those with a link; those that are open are those
\* in the inode table.
LEMMA NamedFiles ==
  ASSUME NEW s, InOrder(s), NEW f \in Shown
  PROVE  f \in Files!Range(NamesOf(s)) <=> s.newest[f].links > 0
<1>1. OneEntry(s) /\ f \in INode /\ f # Root
  BY DEF InOrder, Named, Shown
<1>2. ASSUME NEW p \in DOMAIN NamesOf(s), NamesOf(s)[p] = f
      PROVE  s.newest[f].links > 0
  <2>1. IsPath(p) /\ LeadsTo(s, p, f)
    BY <1>1, <1>2, NamesOfDomain
  <2>2. p \in Seq(Key) /\ Len(p) \in 0 .. 2
    BY <2>1 DEF IsPath
  <2> QED BY <1>1, <2>1, <2>2, LeadsInUse DEF InOrder
<1>3. ASSUME s.newest[f].links > 0
      PROVE  \E p \in DOMAIN NamesOf(s) : NamesOf(s)[p] = f
  <2>1. PICK d \in INode, n \in Key : At(s, d, n, f)
    BY <1>1, <1>3 DEF InOrder, Named, AllEntered
  <2>2. \E p : IsPath(p) /\ LeadsTo(s, p, f)
    <3>1. CASE d = Root
      <4> DEFINE a == Append(<<>>, n)
      <4>1. IsPath(a) /\ Len(a) = 1 /\ a[1] = n
        BY OnePath
      <4> HIDE DEF a
      <4> QED BY <2>1, <3>1, <4>1 DEF LeadsTo
    <3>2. CASE d # Root
      <4>1. s.newest[d].links > 0
        BY <1>1, <2>1 DEF InOrder, Named, EntriesInUse
      <4>2. PICK e \in INode, m \in Key : At(s, e, m, d)
        BY <3>2, <4>1 DEF InOrder, Named, AllEntered
      <4>3. e = Root
        <5>1. s.newest[d].type = "DIRECTORY"
          BY <1>1, <2>1 DEF InOrder, Named, EntriesInUse
        <5> QED BY <4>2, <5>1 DEF InOrder, Named, EntriesInUse
      <4> DEFINE a == Append(<<>>, m)
                 b == Append(a, n)
      <4>4. IsPath(a) /\ Len(a) = 1 /\ a[1] = m
        BY OnePath
      <4> HIDE DEF a
      <4>5. IsPath(b) /\ Len(b) = 2 /\ b[1] = m /\ b[2] = n
        BY <4>4, ChildPath
      <4> HIDE DEF b
      <4>6. LeadsTo(s, b, f)
        BY <2>1, <4>2, <4>3, <4>5 DEF LeadsTo
      <4> QED BY <4>5, <4>6
    <3> QED BY <3>1, <3>2
  <2> QED BY <1>1, <2>2, NamesOfIs
<1> QED BY <1>2, <1>3 DEF Files!Range

LEMMA OpenShown ==
  ASSUME NEW s, InOrder(s), NEW f \in Shown
  PROVE  (\E p \in DOMAIN HandlesOf(s) : HandlesOf(s)[p].file = f) <=> f \in DOMAIN s.table
<1>1. Sound(s) /\ OpenNamed(s) /\ OpenAgree(s)
  BY DEF InOrder, Sound
<1>2. ASSUME NEW p \in DOMAIN HandlesOf(s), HandlesOf(s)[p].file = f
      PROVE  f \in DOMAIN s.table
  <2>1. PICK k \in DOMAIN s.open : HandlesOf(s)[p].file = s.open[k].id
    BY <1>1, HandlesOfDomain
  <2> QED BY <1>1, <1>2, <2>1 DEF OpenAgree
<1>3. ASSUME f \in DOMAIN s.table
      PROVE  \E p \in DOMAIN HandlesOf(s) : HandlesOf(s)[p].file = f
  <2>1. PICK k \in DOMAIN s.open : s.open[k].id = f
    BY <1>1, <1>3 DEF OpenAgree
  <2>2. /\ s.open[k].path \in DOMAIN HandlesOf(s)
        /\ HandlesOf(s)[s.open[k].path] = [file |-> s.open[k].id, ops |-> s.open[k].ops]
    BY <1>1, HandlesOfIs
  <2>3. HandlesOf(s)[s.open[k].path].file = f
    BY <2>1, <2>2
  <2> QED BY <2>2, <2>3
<1> QED BY <1>2, <1>3

\* FileTree keeps the nodes of those that are either.
LEMMA UsedFiles ==
  ASSUME NEW s, InOrder(s), NEW f \in Shown
  PROVE  f \in Files!Used(NamesOf(s), HandlesOf(s)) <=> IsUsed(s, f)
<1>1. f \in Files!Range(NamesOf(s)) <=> s.newest[f].links > 0
  BY NamedFiles
<1>2. f \in {HandlesOf(s)[p].file : p \in DOMAIN HandlesOf(s)} <=> f \in DOMAIN s.table
  BY OpenShown
<1> QED BY <1>1, <1>2 DEF Files!Used, IsUsed

\* The state after a call shows what FileTree says, if it shows the right nodes.
LEMMA StepBecomes ==
  ASSUME NEW t, Become(t), InOrder(t), NEW node, NEW stored,
         \A f \in Shown : IsUsed(t, f) => node[f] = NodeOf(t.newest[f]),
         \A f \in Shown : t.newest[f].links > 0 => stored[f] = NodeOf(t.disk[f])
  PROVE  Files!Becomes(NamesOf(t), HandlesOf(t), node, stored)
<1> DEFINE n == NamesOf(t)
           h == HandlesOf(t)
<1>1. \A f \in Shown : /\ f \in Files!Used(n, h) <=> IsUsed(t, f)
                       /\ f \in Files!Range(n) <=> t.newest[f].links > 0
  BY UsedFiles, NamedFiles
<1>2. Files!Blank = NodeOf(Node("FREE", 0))
  BY DEF Files!Blank, Files!Node, NodeOf, Node
<1> HIDE DEF n, h
<1>3. NodesOf(t) = [f \in Shown |-> IF f \in Files!Used(n, h) THEN node[f] ELSE Files!Blank]
  BY <1>1, <1>2 DEF NodesOf
<1>4. StoredOf(t) = [f \in Shown |-> IF f \in Files!Range(n) THEN stored[f] ELSE Files!Blank]
  BY <1>1, <1>2 DEF StoredOf
<1>5. /\ PathsTo(Leads)' = n
      /\ [i \in INode \ {Root} |->
            IF InUse(i) \/ i \in DOMAIN table THEN NodeOf(InCore(State, i))
                                             ELSE NodeOf(Node("FREE", 0))]' = NodesOf(t)
      /\ [i \in INode \ {Root} |->
            IF InUse(i) THEN NodeOf(disk[i]) ELSE NodeOf(Node("FREE", 0))]' = StoredOf(t)
      /\ [p \in {open[k].path : k \in DOMAIN open} |->
            LET k == Min(EntryOf(State, p))
            IN  [file |-> open[k].id, ops |-> open[k].ops]]' = h
  BY ShownNext DEF InOrder, n, h
<1>6. Files!Becomes(n, h, node, stored)
  BY <1>3, <1>4, <1>5 DEF Files!Becomes, Shown, Files!Range
<1> QED BY <1>6 DEF n, h

\* The file at a path.
LEMMA LookUp ==
  ASSUME NEW s, InOrder(s), NEW p \in Path
  PROVE  LET i == Namei(s, p).id
         IN  /\ EntryOf(s, p) # {} <=> p \in DOMAIN HandlesOf(s)
             /\ Found(i) <=> p \in DOMAIN NamesOf(s) \/ p \in DOMAIN HandlesOf(s)
             /\ Found(i) => /\ i \in Shown /\ IsUsed(s, i)
                            /\ i = IF p \in DOMAIN HandlesOf(s) THEN HandlesOf(s)[p].file
                                   ELSE NamesOf(s)[p]
<1> DEFINE i == Namei(s, p).id
<1>1. /\ Sound(s) /\ Named(s) /\ OpenNamed(s) /\ OneEntry(s)
      /\ p \in Seq(Key) /\ Len(p) \in 0 .. 2 /\ Len(p) \in Nat /\ IsPath(p) /\ Len(p) > 0
  BY PathLengths, PathFields DEF InOrder, Named, IsPath
<1>2. EntryOf(s, p) # {} <=> p \in DOMAIN HandlesOf(s)
  BY DEF HandlesOf, OpenPathsOf, EntryOf
<1>3. \A j \in INode : Found(j)
  BY PathAssumption, Zenon DEF Found
<1>4. CASE EntryOf(s, p) # {}
  <2>1. i = s.open[Min(EntryOf(s, p))].id
    BY <1>4 DEF Namei
  <2>2. Min(EntryOf(s, p)) \in DOMAIN s.open
    BY <1>1, <1>4, EntryIn
  <2>3. i \in INode /\ i # Root /\ i \in DOMAIN s.table
    BY <1>1, <2>1, <2>2, OpenIds
  <2>4. HandlesOf(s)[p] = [file |-> s.open[Min(EntryOf(s, p))].id,
                           ops |-> s.open[Min(EntryOf(s, p))].ops]
    BY <1>2, <1>4 DEF HandlesOf
  <2>5. i = HandlesOf(s)[p].file
    BY <2>1, <2>4
  <2> HIDE DEF i
  <2> QED BY <1>2, <1>3, <1>4, <2>3, <2>5 DEF i, Shown, IsUsed
<1>5. CASE EntryOf(s, p) = {}
  <2>1. i = Walk(s, p).id
    BY <1>5 DEF Namei
  <2>2. /\ \A j \in INode : i = j <=> LeadsTo(s, p, j)
        /\ Found(i) => i \in INode
    <3>1. \A k \in 1 .. Len(p) : p[k] \in Key
      BY <1>1
    <3> QED BY <1>1, <2>1, <3>1, WalkLeads
  <2>3. i # Root
    BY <1>1, <2>1, WalkReads
  <2> HIDE DEF i
  <2>4. ASSUME Found(i)
        PROVE  p \in DOMAIN NamesOf(s) /\ NamesOf(s)[p] = i /\ s.newest[i].links > 0
    BY <1>1, <2>2, <2>4, NamesOfIs, LeadsInUse
  <2>5. ASSUME p \in DOMAIN NamesOf(s) PROVE Found(i)
    <3>1. NamesOf(s)[p] \in INode /\ LeadsTo(s, p, NamesOf(s)[p])
      BY <1>1, <2>5, NamesOfDomain
    <3> QED BY <1>3, <2>2, <3>1
  <2> QED BY <1>2, <1>5, <2>2, <2>3, <2>4, <2>5 DEF i, Shown, IsUsed
<1> QED BY <1>4, <1>5

-----------------------------------------------------------------------------
(* What holds besides: directories are always stored.                        *)

DirsStored(s) ==
  \A i \in INode : s.newest[i].type = "DIRECTORY" => s.disk[i] = s.newest[i]

\* The state after a call that has left the names in order.
LEMMA SettledIs ==
  ASSUME NEW t, SettlesAt(t)
  PROVE  State' = t /\ Become(t) /\ InOrder(t)
<1>1. Become(t) /\ Sound(t) /\ Named(t) /\ OpenNamed(t)
  BY DEF SettlesAt
<1>2. State' = t
  BY <1>1, BecomeState DEF Sound
<1> QED BY <1>1, <1>2 DEF InOrder

\* Names and open files follow from the slots and the open file table.
LEMMA SameNamesOf ==
  ASSUME NEW s, NEW t, t.dir = s.dir
  PROVE  NamesOf(t) = NamesOf(s)
<1>1. \A p, i : LeadsTo(t, p, i) <=> LeadsTo(s, p, i)
  BY DEF LeadsTo, At
<1> QED BY <1>1 DEF NamesOf, Led

LEMMA SameHandlesOf ==
  ASSUME NEW s, NEW t, t.open = s.open
  PROVE  HandlesOf(t) = HandlesOf(s)
BY DEF HandlesOf, OpenPathsOf, EntryOf

\* A call that leaves the names, what is open and the links.
LEMMA SameShown ==
  ASSUME NEW t, SettlesAt(t), t.dir = State.dir, t.open = State.open,
         DOMAIN t.table = DOMAIN State.table,
         \A f \in INode : t.newest[f].links = State.newest[f].links,
         NEW node, NEW stored,
         \A f \in Shown : IsUsed(State, f) => node[f] = NodeOf(t.newest[f]),
         \A f \in Shown : State.newest[f].links > 0 => stored[f] = NodeOf(t.disk[f])
  PROVE  Files!Becomes(NamesOf(State), HandlesOf(State), node, stored)
<1>1. Become(t) /\ InOrder(t)
  BY SettledIs
<1>2. NamesOf(t) = NamesOf(State) /\ HandlesOf(t) = HandlesOf(State)
  BY SameNamesOf, SameHandlesOf
<1>3. \A f \in Shown : IsUsed(t, f) <=> IsUsed(State, f)
  BY DEF IsUsed, Shown
<1>4. Files!Becomes(NamesOf(t), HandlesOf(t), node, stored)
  <2>1. \A f \in Shown : IsUsed(t, f) => node[f] = NodeOf(t.newest[f])
    BY <1>3
  <2>2. \A f \in Shown : t.newest[f].links > 0 => stored[f] = NodeOf(t.disk[f])
    BY DEF Shown
  <2> QED BY <1>1, <2>1, <2>2, StepBecomes
<1> QED BY <1>2, <1>4

\* The nodes that are shown.
LEMMA NodesNow ==
  ASSUME NEW s, NEW f \in Shown
  PROVE  /\ IsUsed(s, f) => NodesOf(s)[f] = NodeOf(s.newest[f])
         /\ s.newest[f].links > 0 => StoredOf(s)[f] = NodeOf(s.disk[f])
BY DEF NodesOf, StoredOf

\* The names, nodes and open files of FileTree, by name.
LEMMA FilesNow ==
  ASSUME InOrder(State)
  PROVE  /\ \A p : Files!Known(p) <=> p \in DOMAIN NamesOf(State) \union DOMAIN HandlesOf(State)
         /\ \A p : Files!FileAt(p) = IF p \in DOMAIN HandlesOf(State)
                                       THEN HandlesOf(State)[p].file ELSE NamesOf(State)[p]
         /\ \A f : Files!Change(f)
                     = Files!With(NodesOf(State), f, Files!Changed(NodesOf(State)[f]))
<1>1. Sound(State) /\ Named(State)
  BY DEF InOrder
<1> QED BY <1>1, ShownNow DEF Files!Known, Files!FileAt, Files!Change

\* What a lookup finds is what the path leads to.
LEMMA KnownIs ==
  ASSUME InOrder(State), NEW p \in Path
  PROVE  LET i == Namei(State, p).id
         IN  /\ Files!Known(p) <=> Found(i)
             /\ Found(i) => Files!FileAt(p) = i /\ i \in Shown /\ IsUsed(State, i)
<1> DEFINE i == Namei(State, p).id
<1>1. /\ Found(i) <=> p \in DOMAIN NamesOf(State) \/ p \in DOMAIN HandlesOf(State)
      /\ Found(i) => /\ i \in Shown /\ IsUsed(State, i)
                     /\ i = IF p \in DOMAIN HandlesOf(State) THEN HandlesOf(State)[p].file
                            ELSE NamesOf(State)[p]
  BY LookUp
<1> HIDE DEF i
<1>2. Files!Known(p) <=> Found(i)
  BY <1>1, FilesNow
<1>3. Found(i) => Files!FileAt(p) = i
  BY <1>1, FilesNow
<1> QED BY <1>1, <1>2, <1>3 DEF i

\* A changed node.
LEMMA ChangedNode ==
  ASSUME NEW node \in INodeType
  PROVE  Files!Changed(NodeOf(node)) = NodeOf(Changed(node))
BY DEF Files!Changed, NodeOf, Changed, INodeType

\* Storing a node.
LEMMA WithAt ==
  ASSUME NEW f, NEW r, NEW x
  PROVE  /\ Files!With(f, r, x)[r] = x
         /\ \A q \in DOMAIN f : q # r => Files!With(f, r, x)[q] = f[q]
         /\ DOMAIN Files!With(f, r, x) = DOMAIN f \union {r}
BY DEF Files!With

-----------------------------------------------------------------------------
(* Each call as a step of FileTree.                                          *)

\* A call that changes the inode cache at most does not show.
LEMMA AllSameShown ==
  ASSUME InOrder(State), DirsStored(State), NEW t, SettlesAt(t), AllSame(State, t)
  PROVE  DirsStored(State)' /\ UNCHANGED Files!vars
<1>1. State' = t /\ Become(t) /\ InOrder(t)
  BY SettledIs
<1>2. DirsStored(t)
  BY DEF AllSame, DirsStored
<1>3. NamesOf(t) = NamesOf(State) /\ HandlesOf(t) = HandlesOf(State)
  BY SameNamesOf, SameHandlesOf DEF AllSame
<1>4. NodesOf(t) = NodesOf(State) /\ StoredOf(t) = StoredOf(State)
  BY DEF AllSame, NodesOf, StoredOf, IsUsed
<1>5. Sound(State) /\ Named(State) /\ Sound(t) /\ Named(t)
  BY <1>1 DEF InOrder
<1>6. UNCHANGED Files!vars
  BY <1>1, <1>3, <1>4, <1>5, ShownNow, ShownNext DEF Files!vars
<1> QED BY <1>1, <1>2, <1>6

\* l2_getattr does not show.
LEMMA GetAttrShown ==
  ASSUME InOrder(State), DirsStored(State), NEW p \in Path, GetAttr(p)
  PROVE  DirsStored(State)' /\ UNCHANGED Files!vars
<1>1. PICK t : SettlesAt(t) /\ AllSame(State, t)
  BY GetAttrSettles DEF InOrder
<1> QED BY <1>1, AllSameShown

\* Another node for one file.
LEMMA WithShown ==
  ASSUME NEW s, NEW i \in Shown, NEW x
  PROVE  /\ Files!With(NodesOf(s), i, x)[i] = x
         /\ \A f \in Shown : f # i => Files!With(NodesOf(s), i, x)[f] = NodesOf(s)[f]
         /\ Files!With(StoredOf(s), i, x)[i] = x
         /\ \A f \in Shown : f # i => Files!With(StoredOf(s), i, x)[f] = StoredOf(s)[f]
<1>1. DOMAIN NodesOf(s) = Shown /\ DOMAIN StoredOf(s) = Shown
  BY DEF NodesOf, StoredOf
<1> QED BY <1>1 DEF Files!With

\* A node is stored in an inode, if there is room on disk too.
LEMMA MarkedShown ==
  ASSUME InOrder(State), DirsStored(State), NEW t, SettlesAt(t),
         NEW i \in Shown, NEW node, Marked(State, t, i, node), NEW room \in BOOLEAN,
         t.disk = IF room THEN With(State.disk, i, node) ELSE State.disk,
         ~room => State.newest[i].type # "DIRECTORY",
         NEW N, N = Files!With(NodesOf(State), i, NodeOf(node)),
         NEW S, S = IF room THEN Files!With(StoredOf(State), i, NodeOf(node))
                            ELSE StoredOf(State)
  PROVE  DirsStored(State)' /\ Files!Becomes(NamesOf(State), HandlesOf(State), N, S)
<1>1. State' = t /\ Become(t) /\ InOrder(t)
  BY SettledIs
<1>2. /\ State.newest \in [INode -> INodeType] /\ State.disk \in [INode -> INodeType]
      /\ i \in INode
  BY StatesFields DEF InOrder, Sound, Shown
<1>3. /\ t.dir = State.dir /\ t.open = State.open /\ DOMAIN t.table = DOMAIN State.table
      /\ t.newest = With(State.newest, i, node)
      /\ node.type = State.newest[i].type /\ node.links = State.newest[i].links
  BY DEF Marked
<1>4. t.newest[i] = node /\ \A f \in INode \ {i} : t.newest[f] = State.newest[f]
  BY <1>2, <1>3 DEF With
<1>5. /\ room => t.disk[i] = node
      /\ ~room => t.disk[i] = State.disk[i]
      /\ \A f \in INode \ {i} : t.disk[f] = State.disk[f]
  BY <1>2 DEF With
<1>6. DirsStored(t)
  BY <1>3, <1>4, <1>5 DEF DirsStored
<1>7. \A f \in INode : t.newest[f].links = State.newest[f].links
  BY <1>3, <1>4
<1>8. \A f \in Shown : IsUsed(State, f) => N[f] = NodeOf(t.newest[f])
  <2>1. N[i] = NodeOf(node) /\ \A f \in Shown : f # i => N[f] = NodesOf(State)[f]
    BY WithShown
  <2> QED BY <1>4, <2>1, NodesNow DEF Shown
<1>9. \A f \in Shown : State.newest[f].links > 0 => S[f] = NodeOf(t.disk[f])
  <2>1. room => S[i] = NodeOf(node) /\ \A f \in Shown : f # i => S[f] = StoredOf(State)[f]
    BY WithShown
  <2>2. ~room => S = StoredOf(State)
    OBVIOUS
  <2> QED BY <1>5, <2>1, <2>2, NodesNow DEF Shown
<1>10. t.dir = State.dir /\ t.open = State.open /\ DOMAIN t.table = DOMAIN State.table
  BY <1>3
<1>11. Files!Becomes(NamesOf(State), HandlesOf(State), N, S)
  BY <1>7, <1>8, <1>9, <1>10, SameShown
<1> QED BY <1>1, <1>6, <1>11

\* The state variables of FileTree.
LEMMA MapNow ==
  ASSUME InOrder(State)
  PROVE  /\ PathsTo(Leads) = NamesOf(State)
         /\ [i \in INode \ {Root} |->
               IF InUse(i) \/ i \in DOMAIN table THEN NodeOf(InCore(State, i))
                                                ELSE NodeOf(Node("FREE", 0))] = NodesOf(State)
         /\ [i \in INode \ {Root} |->
               IF InUse(i) THEN NodeOf(disk[i]) ELSE NodeOf(Node("FREE", 0))] = StoredOf(State)
         /\ [p \in {open[k].path : k \in DOMAIN open} |->
               LET k == Min(EntryOf(State, p))
               IN  [file |-> open[k].id, ops |-> open[k].ops]] = HandlesOf(State)
BY ShownNow DEF InOrder

\* l2_chmod changes the file that is known by the path.
LEMMA ChmodShown ==
  ASSUME InOrder(State), DirsStored(State), NEW p \in Path, Chmod(p)
  PROVE  DirsStored(State)' /\ Files!Chmod(p)
<1> DEFINE i == Namei(State, p).id
           node == Changed(newest[i])
<1>1. PICK t : /\ SettlesAt(t) /\ Marked(State, t, i, node)
               /\ t.disk = With(disk, i, node)
  BY ChmodSettles DEF InOrder
<1>2. Found(i)
  BY DEF Chmod
<1>3. Files!Known(p) /\ Files!FileAt(p) = i /\ i \in Shown /\ IsUsed(State, i)
  BY <1>2, KnownIs
<1>4. State.newest = newest /\ State.disk = disk
  BY DEF State
<1>5. /\ newest[i] \in INodeType /\ newest \in [INode -> INodeType]
  BY <1>3, <1>4, StatesFields DEF InOrder, Sound, Shown
<1>6. Files!Changed(NodesOf(State)[i]) = NodeOf(node)
  BY <1>3, <1>4, <1>5, NodesNow, ChangedNode
<1> HIDE DEF i, node
<1>7. PICK N, S : /\ N = Files!With(NodesOf(State), i, NodeOf(node))
                  /\ S = IF TRUE THEN Files!With(StoredOf(State), i, NodeOf(node))
                                 ELSE StoredOf(State)
  OBVIOUS
<1>8. DirsStored(State)' /\ Files!Becomes(NamesOf(State), HandlesOf(State), N, S)
  <2>1. t.disk = IF TRUE THEN With(State.disk, i, node) ELSE State.disk
    BY <1>1, <1>4
  <2> QED BY <1>1, <1>3, <1>7, <2>1, MarkedShown
<1>9. /\ N = Files!Change(Files!FileAt(p))
      /\ S = Files!With(StoredOf(State), Files!FileAt(p),
                        Files!Changed(NodesOf(State)[Files!FileAt(p)]))
  BY <1>3, <1>6, <1>7, FilesNow
<1>10. Files!Chmod(p)
  BY <1>3, <1>8, <1>9, MapNow DEF Files!Chmod, Files!Becomes
<1> QED BY <1>8, <1>10

\* The inode of an open path.
LEMMA OpenPathIsKnown ==
  ASSUME InOrder(State), NEW p \in Path, EntryOf(State, p) # {}
  PROVE  LET i == open[Min(EntryOf(State, p))].id
         IN  /\ p \in DOMAIN HandlesOf(State) /\ HandlesOf(State)[p].file = i
             /\ i \in Shown /\ IsUsed(State, i) /\ i \in DOMAIN State.table
             /\ newest[i] \in INodeType /\ newest[i].type = "REGULAR"
<1> DEFINE k == Min(EntryOf(State, p))
           i == open[k].id
<1>1. Sound(State)
  BY DEF InOrder
<1>2. p \in DOMAIN HandlesOf(State)
  BY LookUp
<1>3. HandlesOf(State)[p].file = i
  <2>1. HandlesOf(State)[p] = [file |-> State.open[k].id, ops |-> State.open[k].ops]
    BY <1>2 DEF HandlesOf
  <2> QED BY <2>1 DEF State
<1>4. /\ i \in INode /\ i \in DOMAIN table /\ i # Root
      /\ newest[i] \in INodeType /\ newest[i].type = "REGULAR"
  BY <1>1, OpenEntry
<1>5. State.table = table
  BY DEF State
<1> HIDE DEF i
<1> QED BY <1>2, <1>3, <1>4, <1>5 DEF i, Shown, IsUsed

\* l2_write changes the open file; on disk only if there is room.
LEMMA WriteShown ==
  ASSUME InOrder(State), DirsStored(State), NEW p \in Path, NEW room \in BOOLEAN,
         Write(p, room)
  PROVE  DirsStored(State)' /\ Files!Write(p)
<1> DEFINE i == open[Min(EntryOf(State, p))].id
           node == Changed(newest[i])
<1>1. PICK t : /\ SettlesAt(t) /\ Marked(State, t, i, node)
               /\ t.disk = IF room THEN With(disk, i, node) ELSE disk
  BY WriteSettles DEF InOrder
<1>2. EntryOf(State, p) # {}
  BY DEF Write
<1>3. /\ p \in DOMAIN HandlesOf(State) /\ HandlesOf(State)[p].file = i
      /\ i \in Shown /\ IsUsed(State, i)
      /\ newest[i] \in INodeType /\ newest[i].type = "REGULAR"
  BY <1>2, OpenPathIsKnown
<1>4. State.newest = newest /\ State.disk = disk
  BY DEF State
<1>6. Files!Changed(NodesOf(State)[i]) = NodeOf(node)
  BY <1>3, <1>4, NodesNow, ChangedNode
<1> HIDE DEF i, node
<1>7. PICK N, S : /\ N = Files!With(NodesOf(State), i, NodeOf(node))
                  /\ S = IF room THEN Files!With(StoredOf(State), i, NodeOf(node))
                                 ELSE StoredOf(State)
  OBVIOUS
<1>8. DirsStored(State)' /\ Files!Becomes(NamesOf(State), HandlesOf(State), N, S)
  <2>1. /\ t.disk = IF room THEN With(State.disk, i, node) ELSE State.disk
        /\ State.newest[i].type # "DIRECTORY"
    BY <1>1, <1>3, <1>4
  <2> QED BY <1>1, <1>3, <1>7, <2>1, MarkedShown
<1>9. /\ N = Files!Change(HandlesOf(State)[p].file)
      /\ room => S = Files!With(StoredOf(State), HandlesOf(State)[p].file,
                               Files!Changed(NodesOf(State)[HandlesOf(State)[p].file]))
      /\ ~room => S = StoredOf(State)
  BY <1>3, <1>6, <1>7, FilesNow
<1>10. CASE room
  <2>1. S = Files!With(StoredOf(State), HandlesOf(State)[p].file,
                       Files!Changed(NodesOf(State)[HandlesOf(State)[p].file]))
    BY <1>9, <1>10
  <2> QED BY <1>3, <1>8, <1>9, <2>1, MapNow DEF Files!Write, Files!Becomes
<1>11. CASE ~room
  <2>1. S = StoredOf(State)
    BY <1>9, <1>11
  <2> QED BY <1>3, <1>8, <1>9, <2>1, MapNow DEF Files!Write, Files!Becomes
<1> QED BY <1>10, <1>11

\* l2_read stores the open file.
LEMMA ReadShown ==
  ASSUME InOrder(State), DirsStored(State), NEW p \in Path, Read(p)
  PROVE  DirsStored(State)' /\ Files!Read(p)
<1> DEFINE i == open[Min(EntryOf(State, p))].id
           node == newest[i]
<1>1. PICK t : /\ SettlesAt(t) /\ Marked(State, t, i, node)
               /\ t.disk = With(disk, i, node)
  BY ReadCallSettles DEF InOrder
<1>2. EntryOf(State, p) # {}
  BY DEF Read
<1>3. /\ p \in DOMAIN HandlesOf(State) /\ HandlesOf(State)[p].file = i
      /\ i \in Shown /\ IsUsed(State, i)
  BY <1>2, OpenPathIsKnown
<1>4. State.newest = newest /\ State.disk = disk
  BY DEF State
<1>6. NodesOf(State)[i] = NodeOf(node)
  BY <1>3, <1>4, NodesNow
<1> HIDE DEF i, node
<1>7. PICK N, S : /\ N = Files!With(NodesOf(State), i, NodeOf(node))
                  /\ S = IF TRUE THEN Files!With(StoredOf(State), i, NodeOf(node))
                                 ELSE StoredOf(State)
  OBVIOUS
<1>8. DirsStored(State)' /\ Files!Becomes(NamesOf(State), HandlesOf(State), N, S)
  <2>1. t.disk = IF TRUE THEN With(State.disk, i, node) ELSE State.disk
    BY <1>1, <1>4
  <2> QED BY <1>1, <1>3, <1>7, <2>1, MarkedShown
<1>9. N = NodesOf(State)
  BY <1>3, <1>6, <1>7 DEF Files!With, NodesOf
<1>10. S = Files!With(StoredOf(State), HandlesOf(State)[p].file,
                      NodesOf(State)[HandlesOf(State)[p].file])
  BY <1>3, <1>6, <1>7
<1>11. Files!Read(p)
  BY <1>3, <1>8, <1>9, <1>10, MapNow DEF Files!Read, Files!Becomes
<1> QED BY <1>8, <1>11

\* The names of a state are any names that say what its paths say.
LEMMA NamesEq ==
  ASSUME NEW s, OneEntry(s), NEW S, NEW n, n = [q \in S |-> n[q]],
         \A q \in S : IsPath(q) /\ n[q] \in INode /\ LeadsTo(s, q, n[q]),
         \A q, j : IsPath(q) /\ j \in INode /\ LeadsTo(s, q, j) => q \in S
  PROVE  NamesOf(s) = n
<1>1. \A q \in S : q \in DOMAIN NamesOf(s) /\ NamesOf(s)[q] = n[q]
  BY NamesOfIs
<1>2. DOMAIN NamesOf(s) \subseteq S
  BY NamesOfDomain
<1>3. NamesOf(s) = [q \in DOMAIN NamesOf(s) |-> NamesOf(s)[q]]
  BY DEF NamesOf
<1>4. DOMAIN NamesOf(s) = S
  BY <1>1, <1>2
<1> QED BY <1>1, <1>3, <1>4

\* Likewise the open files.
LEMMA HandlesEq ==
  ASSUME NEW s, NEW S, NEW h, h = [q \in S |-> h[q]],
         \A q \in S : q \in DOMAIN HandlesOf(s) /\ HandlesOf(s)[q] = h[q],
         DOMAIN HandlesOf(s) \subseteq S
  PROVE  HandlesOf(s) = h
<1>1. HandlesOf(s) = [q \in DOMAIN HandlesOf(s) |-> HandlesOf(s)[q]]
  BY DEF HandlesOf
<1>2. DOMAIN HandlesOf(s) = S
  OBVIOUS
<1> QED BY <1>1, <1>2

\* A remount.
LEMMA MountShown ==
  ASSUME InOrder(State), InOrder(State'), ~aborted, Mount
  PROVE  DirsStored(State)' /\ Files!Remount
<1>1. PICK t : t = State'
  OBVIOUS
<1>2. /\ t.dir = dir' /\ t.disk = disk' /\ t.table = table' /\ t.cache = cache'
      /\ t.open = open' /\ t.newest = newest'
  BY <1>1 DEF State
<1>3. /\ t.dir = State.dir /\ t.disk = State.disk /\ t.newest = State.disk
      /\ t.open = <<>> /\ DOMAIN t.table = {} /\ aborted' = FALSE
  BY <1>2 DEF Mount, StartOver, State
<1>4. Become(t)
  BY <1>2, <1>3 DEF Become
<1>5. InOrder(t)
  BY <1>1
<1>6. DirsStored(State)'
  BY <1>3, <1>1 DEF DirsStored
<1>7. NamesOf(t) = NamesOf(State)
  BY <1>3, SameNamesOf
<1>8. HandlesOf(t) = Files!Nothing
  <2>1. DOMAIN t.open = {}
    BY <1>3
  <2> QED BY <2>1 DEF HandlesOf, OpenPathsOf, Files!Nothing
<1>9. PICK S : S = StoredOf(State)
  OBVIOUS
<1>10. Files!Becomes(NamesOf(t), HandlesOf(t), S, S)
  <2>1. \A f \in Shown : State.disk[f].links = State.newest[f].links
    BY DEF InOrder, Sound, Shown
  <2>2. \A f \in Shown : t.newest[f].links > 0 => S[f] = NodeOf(t.disk[f])
    BY <1>3, <1>9, <2>1, NodesNow
  <2>3. \A f \in Shown : IsUsed(t, f) => S[f] = NodeOf(t.newest[f])
    BY <1>3, <2>2 DEF IsUsed
  <2> QED BY <1>4, <1>5, <2>2, <2>3, StepBecomes
<1>11. Files!Becomes(NamesOf(State), Files!Nothing, S, S)
  BY <1>7, <1>8, <1>10
<1>12. Files!Remount
  BY <1>9, <1>11, MapNow DEF Files!Remount, Files!Becomes
<1> QED BY <1>6, <1>12

\* One path is at or below another one.
LEMMA PrefixIs ==
  ASSUME NEW p, IsPath(p), NEW q, IsPath(q)
  PROVE  Files!IsPrefix(p, q) <=> p = q \/ (Len(p) = 1 /\ Len(q) = 2 /\ p[1] = q[1])
<1>1. /\ p \in Seq(Key) /\ q \in Seq(Key) /\ Len(p) \in 1 .. 2 /\ Len(q) \in 1 .. 2
  BY DEF IsPath
<1>2. ASSUME Files!IsPrefix(p, q)
      PROVE  p = q \/ (Len(p) = 1 /\ Len(q) = 2 /\ p[1] = q[1])
  <2>1. Len(p) <= Len(q) /\ \A k \in 1 .. Len(p) : p[k] = q[k]
    BY <1>1, <1>2 DEF Files!IsPrefix
  <2>2. p[1] = q[1] /\ (Len(p) = 2 => p[2] = q[2])
    BY <1>1, <2>1
  <2>3. Len(p) = Len(q) => p = q
    BY <2>2, PathEq
  <2> QED BY <1>1, <2>1, <2>2, <2>3
<1>3. ASSUME p = q
      PROVE  Files!IsPrefix(p, q)
  BY <1>1, <1>3 DEF Files!IsPrefix
<1>4. ASSUME Len(p) = 1, Len(q) = 2, p[1] = q[1]
      PROVE  Files!IsPrefix(p, q)
  BY <1>1, <1>4 DEF Files!IsPrefix
<1> QED BY <1>2, <1>3, <1>4

\* What an unlink takes away leads below the path it was called with.
LEMMA GoneIsBelow ==
  ASSUME NEW s, InOrder(s), NEW p, IsPath(p), NEW i \in INode, LeadsTo(s, p, i), i # Root,
         NEW gone, \A j \in INode : j \in gone <=> j = i \/ \E m \in Key : At(s, i, m, j),
         NEW q, IsPath(q), NEW j \in INode, LeadsTo(s, q, j)
  PROVE  /\ j \in gone <=> Files!IsPrefix(p, q)
         /\ Len(q) = 2 =>
              \A d \in INode : At(s, Root, q[1], d) /\ At(s, d, q[2], j) /\ d \in gone
                                 => j \in gone
<1>1. /\ Sound(s) /\ OneEntry(s) /\ EntriesInUse(s) /\ Root \in INode
      /\ \A d \in INode : \A n : ~At(s, d, n, Root)
  BY PathAssumption, NotTheRoot, Zenon DEF InOrder, Named
<1>2. Files!IsPrefix(p, q) <=> p = q \/ (Len(p) = 1 /\ Len(q) = 2 /\ p[1] = q[1])
  BY PrefixIs
<1>3. Len(q) \in 1 .. 2 /\ q[1] \in Key /\ (Len(q) = 2 => q[2] \in Key)
  BY PathShape DEF IsPath
<1>4. ASSUME j \in gone
      PROVE  Files!IsPrefix(p, q)
  <2>1. CASE j = i
    BY <1>1, <1>2, <2>1, PathOne
  <2>2. CASE j # i
    <3>1. PICK m \in Key : At(s, i, m, j)
      BY <1>4, <2>2
    <3>2. CASE Len(q) = 1
      <4>1. At(s, Root, q[1], j)
        BY <3>2 DEF LeadsTo
      <4> QED BY <1>1, <1>3, <3>1, <4>1 DEF OneEntry
    <3>3. CASE Len(q) = 2
      <4>1. PICK d \in INode : At(s, Root, q[1], d) /\ At(s, d, q[2], j)
        BY <3>3 DEF LeadsTo
      <4>2. d = i
        BY <1>1, <1>3, <3>1, <3>3, <4>1 DEF OneEntry
      <4> DEFINE a == Append(<<>>, q[1])
      <4>3. IsPath(a) /\ Len(a) = 1 /\ a[1] = q[1]
        BY <1>3, OnePath
      <4> HIDE DEF a
      <4>4. LeadsTo(s, a, i)
        BY <4>1, <4>2, <4>3 DEF LeadsTo
      <4>5. p = a
        BY <1>1, <4>3, <4>4, PathOne
      <4> QED BY <1>2, <3>3, <4>3, <4>5
    <3> QED BY <1>3, <3>2, <3>3
  <2> QED BY <2>1, <2>2
<1>5. ASSUME Files!IsPrefix(p, q)
      PROVE  j \in gone
  <2>1. CASE p = q
    BY <1>1, <2>1, LeadsOne
  <2>2. CASE Len(p) = 1 /\ Len(q) = 2 /\ p[1] = q[1]
    <3>1. PICK d \in INode : At(s, Root, q[1], d) /\ At(s, d, q[2], j)
      BY <2>2 DEF LeadsTo
    <3>2. At(s, Root, q[1], i)
      BY <2>2 DEF LeadsTo
    <3>3. d = i
      BY <1>1, <3>1, <3>2, AtOne
    <3> QED BY <1>3, <2>2, <3>1, <3>3
  <2> QED BY <1>2, <1>5, <2>1, <2>2
<1>6. ASSUME Len(q) = 2, NEW d \in INode, At(s, Root, q[1], d), At(s, d, q[2], j), d \in gone
      PROVE  j \in gone
  <2>1. q[2] \in Key /\ d # Root
    BY <1>1, <1>3, <1>6
  <2>2. CASE d = i
    BY <1>6, <2>1, <2>2
  <2>3. CASE d # i
    <3>1. PICK m \in Key : At(s, i, m, d)
      BY <1>6, <2>3
    <3>2. s.newest[d].type # "DIRECTORY"
      BY <1>1, <3>1 DEF EntriesInUse
    <3>3. s.newest[d].type = "DIRECTORY"
      BY <1>1, <1>6, <2>1 DEF EntriesInUse
    <3> QED BY <3>2, <3>3
  <2> QED BY <2>2, <2>3
<1> QED BY <1>4, <1>5, <1>6

\* An unlink takes away the path and all that is below it, and nothing else.
LEMMA UnlinkedNames ==
  ASSUME NEW s, InOrder(s), NEW t, InOrder(t), NEW p, IsPath(p), NEW i \in INode, NEW gone,
         Unlinked(s, t, p, i, gone)
  PROVE  NamesOf(t) = Files!Restrict(NamesOf(s), {q \in DOMAIN NamesOf(s) : ~Files!IsPrefix(p, q)})
<1>1. /\ LeadsTo(s, p, i) /\ i # Root /\ Root \notin gone
      /\ \A j \in INode : j \in gone <=> j = i \/ \E m \in Key : At(s, i, m, j)
      /\ \A x, j \in INode, m \in Key : At(t, x, m, j) <=> At(s, x, m, j) /\ j \notin gone
      /\ Root \in INode
  BY PathAssumption, Zenon DEF Unlinked, Lost
<1>2. ASSUME NEW q, IsPath(q), NEW j \in INode
      PROVE  LeadsTo(t, q, j) <=> LeadsTo(s, q, j) /\ ~Files!IsPrefix(p, q)
  <2>1. Len(q) \in 1 .. 2 /\ q[1] \in Key /\ (Len(q) = 2 => q[2] \in Key)
    BY <1>2, PathShape DEF IsPath
  <2>2. LeadsTo(s, q, j) =>
          /\ j \in gone <=> Files!IsPrefix(p, q)
          /\ Len(q) = 2 =>
               \A d \in INode : At(s, Root, q[1], d) /\ At(s, d, q[2], j) /\ d \in gone
                                  => j \in gone
    BY <1>1, <1>2, GoneIsBelow
  <2>3. LeadsTo(t, q, j) <=> LeadsTo(s, q, j) /\ j \notin gone
    <3>1. CASE Len(q) = 1
      BY <1>1, <2>1, <3>1 DEF LeadsTo
    <3>2. CASE Len(q) = 2
      <4>1. ASSUME LeadsTo(t, q, j) PROVE LeadsTo(s, q, j) /\ j \notin gone
        BY <1>1, <2>1, <3>2, <4>1 DEF LeadsTo
      <4>2. ASSUME LeadsTo(s, q, j), j \notin gone PROVE LeadsTo(t, q, j)
        <5>1. PICK d \in INode : At(s, Root, q[1], d) /\ At(s, d, q[2], j)
          BY <3>2, <4>2 DEF LeadsTo
        <5>2. d \notin gone
          BY <2>2, <3>2, <4>2, <5>1
        <5>3. At(t, Root, q[1], d) /\ At(t, d, q[2], j)
          BY <1>1, <2>1, <3>2, <4>2, <5>1, <5>2
        <5> QED BY <3>2, <5>3 DEF LeadsTo
      <4> QED BY <4>1, <4>2
    <3> QED BY <2>1, <3>1, <3>2
  <2> QED BY <2>2, <2>3
<1> DEFINE S == {q \in DOMAIN NamesOf(s) : ~Files!IsPrefix(p, q)}
           n == Files!Restrict(NamesOf(s), S)
<1>3. OneEntry(s) /\ OneEntry(t)
  BY DEF InOrder, Named
<1>4. n = [q \in S |-> n[q]] /\ \A q \in S : n[q] = NamesOf(s)[q]
  BY DEF Files!Restrict
<1>5. \A q \in S : IsPath(q) /\ NamesOf(s)[q] \in INode /\ LeadsTo(t, q, NamesOf(s)[q])
  BY <1>2, <1>3, NamesOfDomain
<1>6. \A q, j : IsPath(q) /\ j \in INode /\ LeadsTo(t, q, j) => q \in S
  BY <1>2, <1>3, NamesOfIs
<1> HIDE DEF S, n
<1>7. \A q \in S : IsPath(q) /\ n[q] \in INode /\ LeadsTo(t, q, n[q])
  BY <1>4, <1>5
<1>8. n = [q \in S |-> n[q]]
  BY <1>4
<1>9. NamesOf(t) = n
  BY <1>3, <1>6, <1>7, <1>8, NamesEq
<1> QED BY <1>9 DEF n, S

\* l2_unlink takes away the path and all that is below it, or does nothing.
LEMMA UnlinkShown ==
  ASSUME InOrder(State), DirsStored(State), odd' \subseteq Harmless, NEW p \in Path, Unlink(p)
  PROVE  DirsStored(State)' /\ (Files!Unlink(p) \/ UNCHANGED Files!vars)
<1>1. PICK t : /\ SettlesAt(t)
               /\ \/ AllSame(State, t)
                  \/ \E i \in INode, gone \in SUBSET INode : Unlinked(State, t, p, i, gone)
  BY UnlinkSettles DEF InOrder
<1>2. CASE AllSame(State, t)
  BY <1>1, <1>2, AllSameShown
<1>3. ASSUME NEW i \in INode, NEW gone \in SUBSET INode, Unlinked(State, t, p, i, gone)
      PROVE  DirsStored(State)' /\ Files!Unlink(p)
  <2>1. State' = t /\ Become(t) /\ InOrder(t) /\ IsPath(p)
    BY <1>1, SettledIs, PathIs
  <2>2. /\ LeadsTo(State, p, i) /\ Root \notin gone
        /\ t.open = State.open /\ DOMAIN t.table = DOMAIN State.table
        /\ \A j \in INode \ gone : t.newest[j] = State.newest[j] /\ t.disk[j] = State.disk[j]
        /\ \A j \in gone : Shed(State, t, j)
    BY <1>3 DEF Unlinked, Lost
  <2>3. NamesOf(t) = Files!Restrict(NamesOf(State),
                                    {q \in DOMAIN NamesOf(State) : ~Files!IsPrefix(p, q)})
    BY <1>3, <2>1, UnlinkedNames
  <2>4. HandlesOf(t) = HandlesOf(State)
    BY <2>2, SameHandlesOf
  <2>5. p \in DOMAIN NamesOf(State)
    BY <2>1, <2>2, NamesOfIs DEF InOrder, Named
  <2>6. \A j \in gone : t.newest[j].type # "DIRECTORY"
    <3>1. \A j \in DOMAIN t.table : t.newest[j].type = "REGULAR"
      BY <2>1 DEF InOrder, Sound, OpenAgree
    <3> QED BY <2>2, <3>1 DEF Shed
  <2>7. DirsStored(t)
    BY <2>2, <2>6 DEF DirsStored
  <2>8. PICK N, S : N = NodesOf(State) /\ S = StoredOf(State)
    OBVIOUS
  <2>9. Files!Becomes(NamesOf(t), HandlesOf(t), N, S)
    <3>1. ASSUME NEW f \in Shown, IsUsed(t, f)
          PROVE  N[f] = NodeOf(t.newest[f])
      <4>1. CASE f \in gone
        <5>1. t.newest[f].links = 0 /\ f \in DOMAIN State.table
          BY <2>2, <3>1, <4>1 DEF Shed, IsUsed
        <5>2. NodeOf(t.newest[f]) = NodeOf(State.newest[f])
          BY <2>2, <4>1, <5>1 DEF Shed
        <5> QED BY <2>8, <5>1, <5>2, NodesNow DEF IsUsed
      <4>2. CASE f \notin gone
        <5>1. t.newest[f] = State.newest[f] /\ IsUsed(State, f)
          BY <2>2, <3>1, <4>2 DEF IsUsed, Shown
        <5> QED BY <2>8, <5>1, NodesNow
      <4> QED BY <4>1, <4>2
    <3>2. ASSUME NEW f \in Shown, t.newest[f].links > 0
          PROVE  S[f] = NodeOf(t.disk[f])
      <4>1. f \notin gone
        BY <2>2, <3>2 DEF Shed
      <4>2. t.newest[f] = State.newest[f] /\ t.disk[f] = State.disk[f]
        BY <2>2, <4>1 DEF Shown
      <4> QED BY <2>8, <3>2, <4>2, NodesNow
    <3> QED BY <2>1, <3>1, <3>2, StepBecomes
  <2>10. Files!Unlink(p)
    BY <2>3, <2>4, <2>5, <2>8, <2>9, MapNow DEF Files!Unlink, Files!Becomes
  <2> QED BY <2>1, <2>7, <2>10
<1> QED BY <1>1, <1>2, <1>3

\* A new entry in the directory that path p is in adds that path.
LEMMA CreatedLeads ==
  ASSUME NEW s, InOrder(s), NEW t, NEW p, IsPath(p), NEW i \in INode, NEW d \in INode,
         LeadsTo(s, Front(p), d), s.newest[d].type = "DIRECTORY", s.newest[i].type = "FREE",
         \A x, j \in INode, m \in Key :
           At(t, x, m, j) <=> At(s, x, m, j) \/ (x = d /\ m = Last(p) /\ j = i),
         NEW q, IsPath(q), NEW j \in INode
  PROVE  LeadsTo(t, q, j) <=> LeadsTo(s, q, j) \/ (q = p /\ j = i)
<1>1. /\ Sound(s) /\ OneEntry(s) /\ EntriesInUse(s) /\ Root \in INode
      /\ \A x \in INode : \A m : ~At(s, x, m, Root)
  BY PathAssumption, NotTheRoot, Zenon DEF InOrder, Named
<1>2. /\ Len(q) \in 1 .. 2 /\ q[1] \in Key /\ (Len(q) = 2 => q[2] \in Key)
      /\ Len(p) \in 1 .. 2 /\ p[1] \in Key
  BY PathShape DEF IsPath
<1>3. /\ Front(p) \in Seq(Key) /\ Len(Front(p)) = Len(p) - 1 /\ Last(p) = p[Len(p)]
      /\ Last(p) \in Key /\ (Len(p) = 2 => Front(p)[1] = p[1])
  BY <1>1, LeadsFront
<1>4. /\ Len(p) = 1 <=> d = Root
      /\ Len(p) = 2 => At(s, Root, p[1], d)
  <2>1. CASE Len(p) = 1
    <3>1. Len(Front(p)) = 0
      BY <1>3, <2>1
    <3> QED BY <2>1, <3>1 DEF LeadsTo
  <2>2. CASE Len(p) = 2
    <3>1. Len(Front(p)) = 1
      BY <1>3, <2>2
    <3>2. At(s, Root, p[1], d)
      BY <1>3, <2>2, <3>1 DEF LeadsTo
    <3> QED BY <1>1, <2>2, <3>2
  <2> QED BY <1>2, <2>1, <2>2
<1>5. \A m \in Key, k \in INode : ~At(s, i, m, k)
  BY <1>1 DEF EntriesInUse
<1>6. d # i
  OBVIOUS
<1>7. ASSUME LeadsTo(s, q, j) PROVE LeadsTo(t, q, j)
  <2>1. CASE Len(q) = 1
    BY <1>1, <1>2, <1>7, <2>1 DEF LeadsTo
  <2>2. CASE Len(q) = 2
    BY <1>1, <1>2, <1>7, <2>2 DEF LeadsTo
  <2> QED BY <1>2, <2>1, <2>2
<1>8. ASSUME q = p, j = i PROVE LeadsTo(t, q, j)
  <2>1. At(t, d, Last(p), i)
    BY <1>3
  <2>2. CASE Len(p) = 1
    BY <1>3, <1>4, <1>8, <2>1, <2>2 DEF LeadsTo
  <2>3. CASE Len(p) = 2
    <3>1. At(t, Root, p[1], d)
      BY <1>1, <1>2, <1>4, <2>3
    <3> QED BY <1>3, <1>8, <2>1, <2>3, <3>1 DEF LeadsTo
  <2> QED BY <1>2, <2>2, <2>3
<1>9. ASSUME LeadsTo(t, q, j), ~LeadsTo(s, q, j)
      PROVE  q = p /\ j = i
  <2>1. CASE Len(q) = 1
    <3>1. At(t, Root, q[1], j) /\ ~At(s, Root, q[1], j)
      BY <1>9, <2>1 DEF LeadsTo
    <3>2. Root = d /\ q[1] = Last(p) /\ j = i
      BY <1>1, <1>2, <3>1
    <3>3. Len(p) = 1 /\ q[1] = p[1]
      BY <1>3, <1>4, <3>2
    <3> QED BY <2>1, <3>2, <3>3, PathEq
  <2>2. CASE Len(q) = 2
    <3>1. PICK x \in INode : At(t, Root, q[1], x) /\ At(t, x, q[2], j)
      BY <1>9, <2>2 DEF LeadsTo
    <3>2. ~(At(s, Root, q[1], x) /\ At(s, x, q[2], j))
      BY <1>9, <2>2 DEF LeadsTo
    <3>3. x # i
      <4>1. At(s, i, q[2], j) \/ i = d \/ x # i
        BY <1>2, <2>2, <3>1
      <4> QED BY <1>2, <1>5, <1>6, <2>2, <4>1
    <3>4. At(s, Root, q[1], x)
      BY <1>1, <1>2, <3>1, <3>3
    <3>5. x = d /\ q[2] = Last(p) /\ j = i
      BY <1>2, <2>2, <3>1, <3>2, <3>4
    <3>6. d # Root
      BY <1>1, <3>4, <3>5
    <3>7. Len(p) = 2 /\ At(s, Root, p[1], d)
      BY <1>2, <1>4, <3>6
    <3>8. q[1] = p[1]
      BY <1>1, <1>2, <3>4, <3>5, <3>7 DEF OneEntry
    <3>9. q[2] = p[2]
      BY <1>3, <3>5, <3>7
    <3> QED BY <2>2, <3>5, <3>7, <3>8, <3>9, PathEq
  <2> QED BY <1>2, <2>1, <2>2
<1> QED BY <1>7, <1>8, <1>9

\* The names after l2_mknod and l2_mkdir.
LEMMA CreatedNames ==
  ASSUME NEW s, InOrder(s), NEW t, InOrder(t), NEW p, IsPath(p), NEW i \in INode,
         NEW d \in INode, NEW type, Created(s, t, p, type, i, d)
  PROVE  NamesOf(t) = Files!With(NamesOf(s), p, i)
<1>1. /\ LeadsTo(s, Front(p), d) /\ s.newest[d].type = "DIRECTORY" /\ s.newest[i].type = "FREE"
      /\ \A x, j \in INode, m \in Key :
           At(t, x, m, j) <=> At(s, x, m, j) \/ (x = d /\ m = Last(p) /\ j = i)
      /\ \A j \in INode : ~LeadsTo(s, p, j)
  BY DEF Created
<1>2. ASSUME NEW q, IsPath(q), NEW j \in INode
      PROVE  LeadsTo(t, q, j) <=> LeadsTo(s, q, j) \/ (q = p /\ j = i)
  BY <1>1, <1>2, CreatedLeads
<1> DEFINE S == DOMAIN NamesOf(s) \union {p}
           n == Files!With(NamesOf(s), p, i)
<1>3. OneEntry(s) /\ OneEntry(t)
  BY DEF InOrder, Named
<1>4. /\ n = [q \in S |-> n[q]] /\ n[p] = i
      /\ \A q \in DOMAIN NamesOf(s) : q # p => n[q] = NamesOf(s)[q]
  BY DEF Files!With
<1> HIDE DEF n
<1>5. ASSUME NEW q \in S PROVE IsPath(q) /\ n[q] \in INode /\ LeadsTo(t, q, n[q])
  <2>1. CASE q = p
    BY <1>2, <1>4, <2>1
  <2>2. CASE q # p
    BY <1>2, <1>3, <1>4, <1>5, <2>2, NamesOfDomain
  <2> QED BY <2>1, <2>2
<1>6. \A q, j : IsPath(q) /\ j \in INode /\ LeadsTo(t, q, j) => q \in S
  BY <1>2, <1>3, NamesOfIs
<1> HIDE DEF S
<1>7. n = [q \in S |-> n[q]]
  BY <1>4
<1>8. NamesOf(t) = n
  BY <1>3, <1>5, <1>6, <1>7, NamesEq
<1> QED BY <1>8 DEF n

\* An inode that is FREE is not shown.
LEMMA FreeUnused ==
  ASSUME NEW s, InOrder(s), NEW i \in INode, s.newest[i].type = "FREE"
  PROVE  ~IsUsed(s, i)
<1>1. i \notin DOMAIN s.table
  <2>1. s.disk[i].type = "FREE" /\ Sound(s)
    BY DEF InOrder, Sound
  <2> QED BY <2>1, DiskType
<1>2. ~(s.newest[i].links > 0)
  BY DEF InOrder, Named, OneLink
<1> QED BY <1>1, <1>2 DEF IsUsed

\* There is a directory to put a path in.
LEMMA HasParentIs ==
  ASSUME InOrder(State), NEW p, IsPath(p), NEW d \in INode,
         LeadsTo(State, Front(p), d), State.newest[d].type = "DIRECTORY"
  PROVE  Files!HasParent(p)
<1>1. /\ OneEntry(State) /\ Sound(State) /\ Len(p) \in 1 .. 2
      /\ Front(p) = Files!Front(p)
  BY DEF InOrder, Named, IsPath, Front, Files!Front
<1>2. Front(p) \in Seq(Key) /\ Len(Front(p)) = Len(p) - 1
  BY PathAssumption, LeadsFront, Zenon
<1>3. CASE Len(p) = 1
  BY <1>3 DEF Files!HasParent
<1>4. CASE Len(p) = 2
  <2>1. IsPath(Front(p))
    BY <1>2, <1>4 DEF IsPath
  <2>2. Front(p) \in DOMAIN NamesOf(State) /\ NamesOf(State)[Front(p)] = d
    BY <1>1, <2>1, NamesOfIs
  <2>3. d # Root /\ State.newest[d].links > 0
    <3>1. At(State, Root, Front(p)[1], d)
      BY <1>2, <1>4 DEF LeadsTo
    <3>2. d # Root
      BY <1>1, <3>1, PathAssumption, NotTheRoot, Zenon
    <3>3. Front(p)[1] \in Key
      BY <1>2, <1>4
    <3> QED BY <3>1, <3>2, <3>3, PathAssumption, Zenon DEF InOrder, Named, EntriesInUse
  <2>4. NodesOf(State)[d].type = "DIRECTORY"
    <3>1. NodesOf(State)[d] = NodeOf(State.newest[d])
      BY <2>3, NodesNow DEF Shown, IsUsed
    <3> QED BY <3>1 DEF NodeOf
  <2> QED BY <1>1, <2>2, <2>4, MapNow DEF Files!HasParent
<1> QED BY <1>1, <1>3, <1>4

\* What FileTree says of a create, in terms of what is shown.
LEMMA CreateIs ==
  ASSUME InOrder(State), NEW r, ~Files!Known(r), Files!HasParent(r),
         NEW nm, nm = NamesOf(State), NEW hd, hd = HandlesOf(State),
         NEW nd, nd = NodesOf(State), NEW st, st = StoredOf(State),
         \E f \in (INode \ {Root}) \ Files!Used(nm, hd), type \in {"REGULAR", "DIRECTORY"} :
           Files!Becomes(Files!With(nm, r, f), hd, Files!With(nd, f, Files!Node(type)),
                         Files!With(st, f, Files!Node(type)))
  PROVE  Files!Create(r)
<1> DEFINE hd0 == [p \in {open[k].path : k \in DOMAIN open} |->
                    LET k == Min(EntryOf(State, p))
                    IN  [file |-> open[k].id, ops |-> open[k].ops]]
           nd0 == [i \in INode \ {Root} |->
                    IF InUse(i) \/ i \in DOMAIN table THEN NodeOf(InCore(State, i))
                                                     ELSE NodeOf(Node("FREE", 0))]
           st0 == [i \in INode \ {Root} |->
                    IF InUse(i) THEN NodeOf(disk[i]) ELSE NodeOf(Node("FREE", 0))]
<1>1. PathsTo(Leads) = nm /\ hd0 = hd /\ nd0 = nd /\ st0 = st
  BY MapNow
<1>2. ASSUME \E f \in (INode \ {Root}) \ Files!Used(PathsTo(Leads), hd0),
                type \in {"REGULAR", "DIRECTORY"} :
                Files!Becomes(Files!With(PathsTo(Leads), r, f), hd0,
                              Files!With(nd0, f, Files!Node(type)),
                              Files!With(st0, f, Files!Node(type)))
      PROVE  Files!Create(r)
  BY <1>2 DEF Files!Create
<1> HIDE DEF hd0, nd0, st0
<1>3. \E f \in (INode \ {Root}) \ Files!Used(PathsTo(Leads), hd0),
         type \in {"REGULAR", "DIRECTORY"} :
        Files!Becomes(Files!With(PathsTo(Leads), r, f), hd0,
                      Files!With(nd0, f, Files!Node(type)),
                      Files!With(st0, f, Files!Node(type)))
  BY <1>1 DEF Files!Becomes
<1> QED BY <1>2, <1>3

\* l2_mknod and l2_mkdir make a new file or directory.
LEMMA CreateShown ==
  ASSUME InOrder(State), DirsStored(State), odd' \subseteq Harmless, NEW p \in Path,
         NEW type \in {"REGULAR", "DIRECTORY"}, NEW i \in INode,
         type = "DIRECTORY" => Len(p) = 1, Create(p, type, i)
  PROVE  DirsStored(State)' /\ Files!Create(p)
<1>1. PICK t, d : SettlesAt(t) /\ d \in INode /\ Created(State, t, p, type, i, d)
  BY CreateSettles DEF InOrder
<1>2. State' = t /\ Become(t) /\ InOrder(t) /\ IsPath(p) /\ Len(p) \in 1 .. 2
  BY <1>1, SettledIs, PathIs DEF IsPath
<1>3. /\ State.newest[i].type = "FREE" /\ i # Root
      /\ LeadsTo(State, Front(p), d) /\ State.newest[d].type = "DIRECTORY"
      /\ \A j \in INode : ~LeadsTo(State, p, j)
      /\ \A k \in DOMAIN State.open : State.open[k].path # p
      /\ \A j \in INode \ {i} :
           /\ t.newest[j] = State.newest[j]
           /\ t.disk[j] = State.disk[j] \/ (j = d /\ t.disk[j] = State.newest[j])
      /\ t.newest[i] = Node(type, 1) /\ t.disk[i] = Node(type, 1)
      /\ t.open = State.open /\ DOMAIN t.table = DOMAIN State.table
  BY <1>1 DEF Created
<1>4. DirsStored(t)
  BY <1>3 DEF DirsStored
<1>5. PICK n : n = Files!With(NamesOf(State), p, i)
  OBVIOUS
<1>6. NamesOf(t) = n /\ HandlesOf(t) = HandlesOf(State)
  BY <1>1, <1>2, <1>3, <1>5, CreatedNames, SameHandlesOf
<1>7. ~Files!Known(p)
  <2>1. p \notin DOMAIN NamesOf(State)
    BY <1>3, NamesOfDomain DEF InOrder, Named
  <2>2. p \notin DOMAIN HandlesOf(State)
    BY <1>3, HandlesOfDomain DEF InOrder
  <2> QED BY <2>1, <2>2, FilesNow
<1>8. i \in Shown /\ i \notin Files!Used(NamesOf(State), HandlesOf(State))
  BY <1>3, FreeUnused, UsedFiles DEF Shown
<1>9. Files!HasParent(p)
  BY <1>1, <1>2, <1>3, HasParentIs
<1>10. PICK N, S : /\ N = Files!With(NodesOf(State), i, Files!Node(type))
                   /\ S = Files!With(StoredOf(State), i, Files!Node(type))
  OBVIOUS
<1>11. Files!Node(type) = NodeOf(Node(type, 1))
  BY DEF Files!Node, NodeOf, Node
<1>12. /\ N[i] = NodeOf(Node(type, 1)) /\ S[i] = NodeOf(Node(type, 1))
       /\ \A f \in Shown : f # i => N[f] = NodesOf(State)[f] /\ S[f] = StoredOf(State)[f]
  BY <1>8, <1>10, <1>11, WithShown
<1>13. Files!Becomes(NamesOf(t), HandlesOf(t), N, S)
  <2>1. ASSUME NEW f \in Shown, IsUsed(t, f)
        PROVE  N[f] = NodeOf(t.newest[f])
    <3>1. CASE f = i
      BY <1>3, <1>12, <3>1
    <3>2. CASE f # i
      <4>1. t.newest[f] = State.newest[f] /\ IsUsed(State, f)
        BY <1>3, <2>1, <3>2 DEF IsUsed, Shown
      <4> QED BY <1>12, <3>2, <4>1, NodesNow
    <3> QED BY <3>1, <3>2
  <2>2. ASSUME NEW f \in Shown, t.newest[f].links > 0
        PROVE  S[f] = NodeOf(t.disk[f])
    <3>1. CASE f = i
      BY <1>3, <1>12, <3>1
    <3>2. CASE f # i
      <4>1. t.newest[f] = State.newest[f] /\ t.disk[f] = State.disk[f]
        BY <1>3, <3>2 DEF Shown, DirsStored
      <4> QED BY <1>12, <2>2, <3>2, <4>1, NodesNow
    <3> QED BY <3>1, <3>2
  <2> QED BY <1>2, <2>1, <2>2, StepBecomes
<1>14. PICK nm, hd, nd, st : /\ nm = NamesOf(State) /\ hd = HandlesOf(State)
                             /\ nd = NodesOf(State) /\ st = StoredOf(State)
  OBVIOUS
<1>15. Files!Create(p)
  <2>1. Files!Becomes(n, hd, N, S)
    BY <1>6, <1>13, <1>14
  <2>2. /\ n = Files!With(nm, p, i)
        /\ N = Files!With(nd, i, Files!Node(type))
        /\ S = Files!With(st, i, Files!Node(type))
    BY <1>5, <1>10, <1>14
  <2>3. i \in (INode \ {Root}) \ Files!Used(nm, hd)
    BY <1>8, <1>14 DEF Shown
  <2>4. \E f \in (INode \ {Root}) \ Files!Used(nm, hd), ty \in {"REGULAR", "DIRECTORY"} :
          Files!Becomes(Files!With(nm, p, f), hd, Files!With(nd, f, Files!Node(ty)),
                        Files!With(st, f, Files!Node(ty)))
    BY <2>1, <2>2, <2>3
  <2> QED BY <1>7, <1>9, <1>14, <2>4, CreateIs
<1> QED BY <1>2, <1>4, <1>15

\* Where FileTree says a path is moved to.
LEMMA MovedIs ==
  ASSUME NEW p, IsPath(p), NEW q, IsPath(q), NEW r, IsPath(r)
  PROVE  /\ Files!Moved(p, q, p) = q
         /\ ~Files!IsPrefix(p, r) => Files!Moved(p, q, r) = r
         /\ Len(p) = 1 /\ Len(q) = 1 /\ Len(r) = 2 /\ p[1] = r[1] =>
              /\ IsPath(Files!Moved(p, q, r)) /\ Len(Files!Moved(p, q, r)) = 2
              /\ Files!Moved(p, q, r)[1] = q[1] /\ Files!Moved(p, q, r)[2] = r[2]
<1>1. /\ p \in Seq(Key) /\ q \in Seq(Key) /\ r \in Seq(Key)
      /\ Len(p) \in 1 .. 2 /\ Len(q) \in 1 .. 2 /\ Len(r) \in 1 .. 2
  BY DEF IsPath
<1>2. Files!Moved(p, q, p) = q
  <2>1. Files!IsPrefix(p, p)
    BY PrefixIs
  <2>2. SubSeq(p, Len(p) + 1, Len(p)) = <<>>
    BY <1>1
  <2>3. q \o <<>> = q
    BY <1>1
  <2> QED BY <2>1, <2>2, <2>3 DEF Files!Moved
<1>3. ~Files!IsPrefix(p, r) => Files!Moved(p, q, r) = r
  BY DEF Files!Moved
<1>4. ASSUME Len(p) = 1, Len(q) = 1, Len(r) = 2, p[1] = r[1]
      PROVE  /\ IsPath(Files!Moved(p, q, r)) /\ Len(Files!Moved(p, q, r)) = 2
             /\ Files!Moved(p, q, r)[1] = q[1] /\ Files!Moved(p, q, r)[2] = r[2]
  <2> DEFINE a == SubSeq(r, 2, 2)
             b == q \o a
  <2>1. Files!IsPrefix(p, r)
    BY <1>4, PrefixIs
  <2>2. a \in Seq(Key) /\ Len(a) = 1 /\ a[1] = r[2]
    BY <1>1, <1>4
  <2> HIDE DEF a
  <2>3. q \in Seq(Key) /\ Len(q) = 1
    BY <1>1, <1>4
  <2>4. Files!Moved(p, q, r) = b
    BY <1>4, <2>1 DEF Files!Moved, a
  <2>5. b \in Seq(Key)
    BY <2>2, <2>3
  <2>6. Len(b) = 2
    BY <2>2, <2>3
  <2>7. b[1] = q[1]
    BY <2>2, <2>3
  <2>8. b[2] = a[1]
    BY <2>2, <2>3
  <2> HIDE DEF b
  <2> QED BY <2>2, <2>4, <2>5, <2>6, <2>7, <2>8 DEF IsPath
<1> QED BY <1>2, <1>3, <1>4

\* What a rename moves, and where to.
Relinked(s, t, p, q, i, e) ==
  /\ i # Root /\ LeadsTo(s, p, i)
  /\ LeadsTo(s, Front(q), e) /\ s.newest[e].type = "DIRECTORY"
  /\ p # q /\ Front(q) # p
  /\ Len(q) = 2 => s.newest[i].type # "DIRECTORY"
  /\ \A j \in INode : ~LeadsTo(s, q, j)
  /\ \A y, j \in INode, m \in Key :
       At(t, y, m, j) <=> (At(s, y, m, j) /\ j # i) \/ (y = e /\ m = Last(q) /\ j = i)

\* The new directory is not what is moved; if it is not the root, the new path
\* goes through it.
LEMMA RelinkedTo ==
  ASSUME NEW s, InOrder(s), NEW t, NEW p, IsPath(p), NEW q, IsPath(q),
         NEW i \in INode, NEW e \in INode, Relinked(s, t, p, q, i, e)
  PROVE  /\ e # i /\ Last(q) = q[Len(q)] /\ Last(q) \in Key
         /\ Len(q) = 1 <=> e = Root
         /\ Len(q) = 2 => At(s, Root, q[1], e)
         /\ ~Files!IsPrefix(p, q)
<1>1. /\ Sound(s) /\ OneEntry(s) /\ Root \in INode
      /\ \A x \in INode : \A m : ~At(s, x, m, Root)
      /\ LeadsTo(s, p, i) /\ LeadsTo(s, Front(q), e) /\ p # q /\ Front(q) # p /\ i # Root
  BY PathAssumption, NotTheRoot, Zenon DEF InOrder, Named, Relinked
<1>2. Len(p) \in 1 .. 2 /\ Len(q) \in 1 .. 2
  BY DEF IsPath
<1>3. /\ Front(q) \in Seq(Key) /\ Len(Front(q)) = Len(q) - 1
      /\ Last(q) = q[Len(q)] /\ Last(q) \in Key /\ (Len(q) = 2 => Front(q)[1] = q[1])
  BY <1>1, LeadsFront
<1>4. CASE Len(q) = 1
  <2>1. Len(Front(q)) = 0
    BY <1>3, <1>4
  <2>2. e = Root
    BY <1>1, <2>1 DEF LeadsTo
  <2>3. ~Files!IsPrefix(p, q)
    BY <1>1, <1>4, PrefixIs
  <2> QED BY <1>1, <1>3, <1>4, <2>2, <2>3
<1>5. CASE Len(q) = 2
  <2>1. Len(Front(q)) = 1 /\ IsPath(Front(q))
    BY <1>3, <1>5 DEF IsPath
  <2>2. At(s, Root, q[1], e)
    BY <1>1, <1>3, <1>5, <2>1 DEF LeadsTo
  <2>3. e # i
    BY <1>1, <2>1, PathOne
  <2>4. ~Files!IsPrefix(p, q)
    <3>1. Len(p) = 1 /\ p[1] = q[1] => p = Front(q)
      BY <1>3, <1>5, <2>1, PathEq
    <3> QED BY <1>1, <3>1, PrefixIs
  <2> QED BY <1>1, <1>3, <1>5, <2>2, <2>3, <2>4
<1> QED BY <1>2, <1>4, <1>5

\* Every path is where FileTree moves it to.
LEMMA RelinkedLeads ==
  ASSUME NEW s, InOrder(s), NEW t, NEW p, IsPath(p), NEW q, IsPath(q),
         NEW i \in INode, NEW e \in INode, Relinked(s, t, p, q, i, e),
         NEW r, IsPath(r), NEW j \in INode, LeadsTo(s, r, j)
  PROVE  IsPath(Files!Moved(p, q, r)) /\ LeadsTo(t, Files!Moved(p, q, r), j)
<1>1. /\ Sound(s) /\ OneEntry(s) /\ EntriesInUse(s) /\ Root \in INode
      /\ \A x \in INode : \A m : ~At(s, x, m, Root)
      /\ LeadsTo(s, p, i) /\ i # Root
      /\ Len(q) = 2 => s.newest[i].type # "DIRECTORY"
      /\ \A y, k \in INode, m \in Key :
           At(t, y, m, k) <=> (At(s, y, m, k) /\ k # i) \/ (y = e /\ m = Last(q) /\ k = i)
  BY PathAssumption, NotTheRoot, Zenon DEF InOrder, Named, Relinked
<1>2. /\ Len(p) \in 1 .. 2 /\ Len(q) \in 1 .. 2 /\ Len(r) \in 1 .. 2
      /\ q[1] \in Key /\ r[1] \in Key /\ (Len(r) = 2 => r[2] \in Key)
      /\ Len(q) = 2 => q[2] \in Key
  BY PathShape DEF IsPath
<1>3. /\ e # i /\ Last(q) = q[Len(q)] /\ Last(q) \in Key
      /\ Len(q) = 1 <=> e = Root
      /\ Len(q) = 2 => At(s, Root, q[1], e)
  BY RelinkedTo
<1>4. At(t, e, Last(q), i)
  BY <1>1, <1>3
<1>5. CASE r = p
  <2>1. Files!Moved(p, q, r) = q /\ j = i
    BY <1>1, <1>5, MovedIs, LeadsOne
  <2>2. LeadsTo(t, q, i)
    <3>1. CASE Len(q) = 1
      BY <1>3, <1>4, <3>1 DEF LeadsTo
    <3>2. CASE Len(q) = 2
      <4>1. At(t, Root, q[1], e)
        BY <1>1, <1>2, <1>3, <3>2
      <4> QED BY <1>3, <1>4, <3>2, <4>1 DEF LeadsTo
    <3> QED BY <1>2, <3>1, <3>2
  <2> QED BY <2>1, <2>2
<1>6. CASE r # p /\ Len(p) = 1 /\ Len(r) = 2 /\ p[1] = r[1]
  <2>1. At(s, Root, r[1], i)
    BY <1>1, <1>6 DEF LeadsTo
  <2>2. PICK d \in INode : At(s, Root, r[1], d) /\ At(s, d, r[2], j)
    BY <1>6 DEF LeadsTo
  <2>3. d = i
    BY <1>1, <2>1, <2>2, AtOne
  <2>4. s.newest[i].type = "DIRECTORY"
    BY <1>1, <1>2, <1>6, <2>2, <2>3 DEF EntriesInUse
  <2>5. Len(q) = 1 /\ e = Root
    BY <1>1, <1>2, <1>3, <2>4
  <2>6. j # i
    BY <1>1, <1>2, <1>6, <2>1, <2>2, <2>3 DEF OneEntry
  <2>7. At(t, i, r[2], j)
    BY <1>1, <1>2, <1>6, <2>2, <2>3, <2>6
  <2>8. At(t, Root, q[1], i)
    BY <1>3, <1>4, <2>5
  <2> DEFINE u == Files!Moved(p, q, r)
  <2>9. IsPath(u) /\ Len(u) = 2 /\ u[1] = q[1] /\ u[2] = r[2]
    BY <1>6, <2>5, MovedIs
  <2> HIDE DEF u
  <2>10. LeadsTo(t, u, j)
    BY <2>7, <2>8, <2>9 DEF LeadsTo
  <2> QED BY <2>9, <2>10 DEF u
<1>7. CASE r # p /\ ~(Len(p) = 1 /\ Len(r) = 2 /\ p[1] = r[1])
  <2>1. Files!Moved(p, q, r) = r
    BY <1>7, PrefixIs, MovedIs
  <2>2. j # i
    BY <1>1, <1>7, PathOne
  <2>3. LeadsTo(t, r, j)
    <3>1. CASE Len(r) = 1
      BY <1>1, <1>2, <2>2, <3>1 DEF LeadsTo
    <3>2. CASE Len(r) = 2
      <4>1. PICK d \in INode : At(s, Root, r[1], d) /\ At(s, d, r[2], j)
        BY <3>2 DEF LeadsTo
      <4>2. d # i
        <5> SUFFICES ASSUME d = i PROVE FALSE
          OBVIOUS
        <5> DEFINE a == Append(<<>>, r[1])
        <5>1. IsPath(a) /\ Len(a) = 1 /\ a[1] = r[1]
          BY <1>2, OnePath
        <5> HIDE DEF a
        <5>2. LeadsTo(s, a, i)
          BY <4>1, <5>1 DEF LeadsTo
        <5>3. p = a
          BY <1>1, <5>1, <5>2, PathOne
        <5> QED BY <1>7, <3>2, <5>1, <5>3
      <4>3. At(t, Root, r[1], d) /\ At(t, d, r[2], j)
        BY <1>1, <1>2, <2>2, <3>2, <4>1, <4>2
      <4> QED BY <3>2, <4>3 DEF LeadsTo
    <3> QED BY <1>2, <3>1, <3>2
  <2> QED BY <2>1, <2>3
<1> QED BY <1>5, <1>6, <1>7

\* And only those paths are.
LEMMA RelinkedOnly ==
  ASSUME NEW s, InOrder(s), NEW t, NEW p, IsPath(p), NEW q, IsPath(q),
         NEW i \in INode, NEW e \in INode, Relinked(s, t, p, q, i, e),
         NEW u, IsPath(u), NEW j \in INode, LeadsTo(t, u, j)
  PROVE  \E r : IsPath(r) /\ LeadsTo(s, r, j) /\ Files!Moved(p, q, r) = u
<1>1. /\ Sound(s) /\ OneEntry(s) /\ EntriesInUse(s) /\ Root \in INode
      /\ \A x \in INode : \A m : ~At(s, x, m, Root)
      /\ LeadsTo(s, p, i) /\ i # Root
      /\ \A y, k \in INode, m \in Key :
           At(t, y, m, k) <=> (At(s, y, m, k) /\ k # i) \/ (y = e /\ m = Last(q) /\ k = i)
  BY PathAssumption, NotTheRoot, Zenon DEF InOrder, Named, Relinked
<1>2. /\ Len(p) \in 1 .. 2 /\ Len(q) \in 1 .. 2 /\ Len(u) \in 1 .. 2
      /\ q[1] \in Key /\ u[1] \in Key /\ (Len(u) = 2 => u[2] \in Key)
      /\ Len(q) = 2 => q[2] \in Key
  BY PathShape DEF IsPath
<1>3. /\ e # i /\ Last(q) = q[Len(q)] /\ Last(q) \in Key
      /\ Len(q) = 1 <=> e = Root
      /\ Len(q) = 2 => At(s, Root, q[1], e)
  BY RelinkedTo
<1>4. CASE u = q /\ j = i
  <2>1. Files!Moved(p, q, p) = q
    BY MovedIs
  <2> QED BY <1>1, <1>4, <2>1
<1>5. ASSUME LeadsTo(s, u, j), ~Files!IsPrefix(p, u)
      PROVE  \E r : IsPath(r) /\ LeadsTo(s, r, j) /\ Files!Moved(p, q, r) = u
  <2>1. Files!Moved(p, q, u) = u
    BY <1>5, MovedIs
  <2> QED BY <1>5, <2>1
<1>6. CASE Len(u) = 1
  <2>1. At(t, Root, u[1], j)
    BY <1>6 DEF LeadsTo
  <2>2. CASE At(s, Root, u[1], j) /\ j # i
    <3>1. LeadsTo(s, u, j)
      BY <1>6, <2>2 DEF LeadsTo
    <3>2. u # p
      BY <1>1, <2>2, <3>1, LeadsOne
    <3>3. ~Files!IsPrefix(p, u)
      BY <1>6, <3>2, PrefixIs
    <3> QED BY <1>5, <3>1, <3>3
  <2>3. CASE Root = e /\ u[1] = Last(q) /\ j = i
    <3>1. Len(q) = 1 /\ u[1] = q[1]
      BY <1>3, <2>3
    <3>2. u = q
      BY <1>6, <3>1, PathEq
    <3> QED BY <1>4, <2>3, <3>2
  <2> QED BY <1>1, <1>2, <2>1, <2>2, <2>3
<1>7. CASE Len(u) = 2
  <2>1. PICK x \in INode : At(t, Root, u[1], x) /\ At(t, x, u[2], j)
    BY <1>7 DEF LeadsTo
  <2>2. \/ At(s, Root, u[1], x) /\ x # i
        \/ Root = e /\ u[1] = Last(q) /\ x = i
    BY <1>1, <1>2, <2>1
  <2>3. \/ At(s, x, u[2], j) /\ j # i
        \/ x = e /\ u[2] = Last(q) /\ j = i
    BY <1>1, <1>2, <1>7, <2>1
  <2>4. CASE At(s, Root, u[1], x) /\ x # i /\ At(s, x, u[2], j) /\ j # i
    <3>1. LeadsTo(s, u, j)
      BY <1>7, <2>4 DEF LeadsTo
    <3>2. u # p
      BY <1>1, <2>4, <3>1, LeadsOne
    <3>3. ~(Len(p) = 1 /\ p[1] = u[1])
      <4> SUFFICES ASSUME Len(p) = 1, p[1] = u[1] PROVE FALSE
        OBVIOUS
      <4>1. At(s, Root, u[1], i)
        BY <1>1 DEF LeadsTo
      <4> QED BY <1>1, <2>4, <4>1, AtOne
    <3>4. ~Files!IsPrefix(p, u)
      BY <3>2, <3>3, PrefixIs
    <3> QED BY <1>5, <3>1, <3>4
  <2>5. CASE At(s, Root, u[1], x) /\ x # i /\ x = e /\ u[2] = Last(q) /\ j = i
    <3>1. e # Root
      BY <1>1, <2>5
    <3>2. Len(q) = 2 /\ At(s, Root, q[1], e)
      BY <1>2, <1>3, <3>1
    <3>3. u[1] = q[1]
      BY <1>1, <1>2, <2>5, <3>2 DEF OneEntry
    <3>4. u[2] = q[2]
      BY <1>3, <2>5, <3>2
    <3>5. u = q
      BY <1>7, <3>2, <3>3, <3>4, PathEq
    <3> QED BY <1>4, <2>5, <3>5
  <2>6. CASE Root = e /\ u[1] = Last(q) /\ x = i
    <3>1. Len(q) = 1 /\ u[1] = q[1]
      BY <1>3, <2>6
    <3>2. At(s, i, u[2], j) /\ j # i
      BY <1>3, <2>3, <2>6
    <3>3. Len(p) = 1
      <4>1. s.newest[i].type = "DIRECTORY"
        BY <1>1, <1>2, <1>7, <3>2 DEF EntriesInUse
      <4>2. ASSUME Len(p) = 2 PROVE FALSE
        <5>1. PICK d \in INode : At(s, Root, p[1], d) /\ At(s, d, p[2], i)
          BY <1>1, <4>2 DEF LeadsTo
        <5>2. d = Root
          BY <4>1, <4>2, <5>1, PathShape DEF EntriesInUse, InOrder, Named
        <5> QED BY <1>1, <5>1, <5>2
      <4> QED BY <1>2, <4>2
    <3>4. At(s, Root, p[1], i)
      BY <1>1, <3>3 DEF LeadsTo
    <3> DEFINE r == Append(p, u[2])
    <3>5. IsPath(r) /\ Len(r) = 2 /\ r[1] = p[1] /\ r[2] = u[2]
      BY <1>2, <1>7, <3>3, ChildPath
    <3> HIDE DEF r
    <3>6. LeadsTo(s, r, j)
      BY <3>2, <3>4, <3>5 DEF LeadsTo
    <3> DEFINE v == Files!Moved(p, q, r)
    <3>7. IsPath(v) /\ Len(v) = 2 /\ v[1] = q[1] /\ v[2] = r[2]
      BY <3>1, <3>3, <3>5, MovedIs
    <3> HIDE DEF v
    <3>8. v = u
      BY <1>7, <3>1, <3>5, <3>7, PathEq
    <3> QED BY <3>5, <3>6, <3>8 DEF v
  <2> QED BY <2>2, <2>3, <2>4, <2>5, <2>6
<1> QED BY <1>2, <1>6, <1>7

\* A rename moves the names.
LEMMA RenamedNames ==
  ASSUME NEW s, InOrder(s), NEW t, InOrder(t), NEW p, IsPath(p), NEW q, IsPath(q),
         NEW i \in INode, NEW e \in INode, Relinked(s, t, p, q, i, e)
  PROVE  NamesOf(t) = Files!Renamed(NamesOf(s), p, q)
<1> DEFINE f == NamesOf(s)
           S == {Files!Moved(p, q, r) : r \in DOMAIN f}
           n == Files!Renamed(f, p, q)
<1>1. OneEntry(s) /\ OneEntry(t)
  BY DEF InOrder, Named
<1>2. n = [u \in S |-> f[CHOOSE r \in DOMAIN f : Files!Moved(p, q, r) = u]]
  BY DEF Files!Renamed
<1>3. ASSUME NEW u \in S
      PROVE  IsPath(u) /\ n[u] \in INode /\ LeadsTo(t, u, n[u])
  <2> DEFINE r == CHOOSE r \in DOMAIN f : Files!Moved(p, q, r) = u
  <2>1. \E x \in DOMAIN f : Files!Moved(p, q, x) = u
    BY <1>3
  <2>2. r \in DOMAIN f /\ Files!Moved(p, q, r) = u
    BY <2>1
  <2>3. n[u] = f[r]
    BY <1>2
  <2> HIDE DEF r, n
  <2>4. IsPath(r) /\ f[r] \in INode /\ LeadsTo(s, r, f[r])
    BY <1>1, <2>2, NamesOfDomain
  <2> HIDE DEF f
  <2>5. IsPath(Files!Moved(p, q, r)) /\ LeadsTo(t, Files!Moved(p, q, r), f[r])
    BY <2>4, RelinkedLeads
  <2> QED BY <2>2, <2>3, <2>4, <2>5
<1>4. ASSUME NEW u, NEW j, IsPath(u), j \in INode, LeadsTo(t, u, j)
      PROVE  u \in S
  <2>1. PICK r : IsPath(r) /\ LeadsTo(s, r, j) /\ Files!Moved(p, q, r) = u
    BY <1>4, RelinkedOnly
  <2>2. r \in DOMAIN f
    BY <1>1, <1>4, <2>1, NamesOfIs
  <2> QED BY <2>1, <2>2
<1>5. n = [u \in S |-> n[u]]
  BY <1>2
<1> HIDE DEF S, n
<1>6. NamesOf(t) = n
  BY <1>1, <1>3, <1>4, <1>5, NamesEq
<1> QED BY <1>6 DEF n

\* And the paths of the open files.
LEMMA RenamedHandles ==
  ASSUME NEW s, InOrder(s), NEW t, InOrder(t), NEW p, IsPath(p), NEW q, IsPath(q),
         NEW i, NEW e, MovedTo(s, t, p, q, i, e)
  PROVE  HandlesOf(t) = Files!Renamed(HandlesOf(s), p, q)
<1> DEFINE f == HandlesOf(s)
           S == {Files!Moved(p, q, r) : r \in DOMAIN f}
           h == Files!Renamed(f, p, q)
<1>1. /\ Sound(s) /\ OpenNamed(s) /\ Sound(t) /\ OpenNamed(t)
      /\ DOMAIN t.open = DOMAIN s.open
  BY DEF InOrder, MovedTo
<1>2. ASSUME NEW k \in DOMAIN s.open
      PROVE  /\ t.open[k].id = s.open[k].id /\ t.open[k].ops = s.open[k].ops
             /\ t.open[k].path = Files!Moved(p, q, s.open[k].path)
  <2> DEFINE r == s.open[k].path
  <2>1. IsPath(r)
    BY <1>1, OpenPathIs
  <2>2. /\ t.open[k].id = s.open[k].id /\ t.open[k].ops = s.open[k].ops
        /\ t.open[k].path = IF r = p THEN q ELSE r
        /\ Len(r) = 2 => <<r[1]>> # p
    BY <1>2 DEF MovedTo
  <2> HIDE DEF r
  <2>3. CASE r = p
    BY <2>2, <2>3, MovedIs DEF r
  <2>4. CASE r # p
    <3>1. ~(Len(p) = 1 /\ Len(r) = 2 /\ p[1] = r[1])
      <4>1. Len(p) = 1 => p = Append(<<>>, p[1])
        BY PathShape
      <4>2. Append(<<>>, r[1]) = <<r[1]>>
        OBVIOUS
      <4> QED BY <2>2, <4>1, <4>2
    <3>2. Files!Moved(p, q, r) = r
      BY <2>1, <2>4, <3>1, PrefixIs, MovedIs
    <3> QED BY <2>2, <2>4, <3>2 DEF r
  <2> QED BY <2>3, <2>4
<1>3. h = [u \in S |-> f[CHOOSE r \in DOMAIN f : Files!Moved(p, q, r) = u]]
  BY DEF Files!Renamed
<1>4. ASSUME NEW u \in S
      PROVE  \E k \in DOMAIN t.open :
               t.open[k].path = u /\ h[u] = [file |-> t.open[k].id, ops |-> t.open[k].ops]
  <2> DEFINE r == CHOOSE r \in DOMAIN f : Files!Moved(p, q, r) = u
  <2>1. \E x \in DOMAIN f : Files!Moved(p, q, x) = u
    BY <1>4
  <2>2. r \in DOMAIN f /\ Files!Moved(p, q, r) = u
    BY <2>1
  <2>3. h[u] = f[r]
    BY <1>3
  <2> HIDE DEF r, h
  <2>4. PICK k \in DOMAIN s.open : s.open[k].path = r
    BY <1>1, <2>2, HandlesOfDomain
  <2>5. f[s.open[k].path] = [file |-> s.open[k].id, ops |-> s.open[k].ops]
    BY <1>1, HandlesOfIs
  <2> HIDE DEF f
  <2>6. h[u] = [file |-> t.open[k].id, ops |-> t.open[k].ops]
    BY <1>2, <2>3, <2>4, <2>5
  <2>7. t.open[k].path = u
    BY <1>2, <2>2, <2>4
  <2> QED BY <1>1, <2>6, <2>7
<1>5. ASSUME NEW k \in DOMAIN t.open PROVE t.open[k].path \in S
  <2>1. s.open[k].path \in DOMAIN f
    BY <1>1, HandlesOfIs
  <2>2. t.open[k].path = Files!Moved(p, q, s.open[k].path)
    BY <1>1, <1>2
  <2> QED BY <2>1, <2>2
<1>6. h = [u \in S |-> h[u]]
  BY <1>3
<1> HIDE DEF S, h
<1>7. ASSUME NEW u \in S
      PROVE  u \in DOMAIN HandlesOf(t) /\ HandlesOf(t)[u] = h[u]
  <2>1. PICK k \in DOMAIN t.open :
          t.open[k].path = u /\ h[u] = [file |-> t.open[k].id, ops |-> t.open[k].ops]
    BY <1>4
  <2> QED BY <1>1, <2>1, HandlesOfIs
<1>8. DOMAIN HandlesOf(t) \subseteq S
  BY <1>1, <1>5, HandlesOfDomain
<1>9. HandlesOf(t) = h
  BY <1>6, <1>7, <1>8, HandlesEq
<1> QED BY <1>9 DEF h

\* l2_rename moves names and open files.
LEMMA RenameShown ==
  ASSUME InOrder(State), DirsStored(State), odd' \subseteq Harmless, NEW p \in Path,
         NEW q \in Path, Rename(p, q)
  PROVE  DirsStored(State)' /\ Files!Rename(p, q)
<1>1. PICK t, i, e : /\ SettlesAt(t) /\ i \in INode /\ e \in INode
                     /\ MovedTo(State, t, p, q, i, e)
  BY RenameSettles DEF InOrder
<1>2. State' = t /\ Become(t) /\ InOrder(t) /\ IsPath(p) /\ IsPath(q)
  BY <1>1, SettledIs, PathIs
<1>3. /\ LeadsTo(State, p, i)
      /\ LeadsTo(State, Front(q), e) /\ State.newest[e].type = "DIRECTORY"
      /\ \A j \in INode : ~LeadsTo(State, q, j)
      /\ t.newest = State.newest /\ DOMAIN t.table = DOMAIN State.table
      /\ \A j \in INode : \/ t.disk[j] = State.disk[j]
                          \/ j = e /\ t.disk[j] = State.newest[j]
      /\ \A k \in DOMAIN State.open : State.open[k].path # q
  BY <1>1 DEF MovedTo
<1>4. Relinked(State, t, p, q, i, e)
  BY <1>1 DEF MovedTo, Relinked
<1>5. DirsStored(t)
  BY <1>3 DEF DirsStored
<1>6. PICK n, h : /\ n = Files!Renamed(NamesOf(State), p, q)
                  /\ h = Files!Renamed(HandlesOf(State), p, q)
  OBVIOUS
<1>7. NamesOf(t) = n /\ HandlesOf(t) = h
  BY <1>1, <1>2, <1>4, <1>6, RenamedNames, RenamedHandles
<1>8. p \in DOMAIN NamesOf(State)
  BY <1>1, <1>2, <1>3, NamesOfIs DEF InOrder, Named
<1>9. ~Files!Known(q)
  <2>1. q \notin DOMAIN NamesOf(State)
    BY <1>3, NamesOfDomain DEF InOrder, Named
  <2>2. q \notin DOMAIN HandlesOf(State)
    BY <1>3, HandlesOfDomain DEF InOrder
  <2> QED BY <2>1, <2>2, FilesNow
<1>10. Files!HasParent(q)
  BY <1>1, <1>2, <1>3, HasParentIs
<1>11. ~Files!IsPrefix(p, q)
  BY <1>1, <1>2, <1>4, RelinkedTo
<1>12. PICK N, S : N = NodesOf(State) /\ S = StoredOf(State)
  OBVIOUS
<1>13. Files!Becomes(n, h, N, S)
  <2>1. ASSUME NEW f \in Shown, IsUsed(t, f)
        PROVE  N[f] = NodeOf(t.newest[f])
    BY <1>3, <1>12, <2>1, NodesNow DEF IsUsed
  <2>2. ASSUME NEW f \in Shown, t.newest[f].links > 0
        PROVE  S[f] = NodeOf(t.disk[f])
    <3>1. t.disk[f] = State.disk[f]
      BY <1>3 DEF Shown, DirsStored
    <3> QED BY <1>3, <1>12, <2>2, <3>1, NodesNow
  <2>3. Files!Becomes(NamesOf(t), HandlesOf(t), N, S)
    BY <1>2, <2>1, <2>2, StepBecomes
  <2> QED BY <1>7, <2>3
<1>14. Files!Rename(p, q)
  BY <1>6, <1>8, <1>9, <1>10, <1>11, <1>12, <1>13, MapNow DEF Files!Rename, Files!Becomes
<1> QED BY <1>2, <1>5, <1>14

\* One open file more, or one operation more for one.
LEMMA OpenedHandles ==
  ASSUME NEW s, InOrder(s), NEW t, InOrder(t), NEW p, NEW i, NEW op \in Op,
         OneMore(s, t, p, i, op), NEW ops,
         ops = IF p \in DOMAIN HandlesOf(s) THEN HandlesOf(s)[p].ops ELSE [o \in Op |-> 0]
  PROVE  HandlesOf(t) = Files!With(HandlesOf(s), p,
                          [file |-> i, ops |-> [ops EXCEPT ![op] = ops[op] + 1]])
<1> DEFINE new == [file |-> i, ops |-> [ops EXCEPT ![op] = ops[op] + 1]]
           S == DOMAIN HandlesOf(s) \union {p}
           h == Files!With(HandlesOf(s), p, new)
<1>1. Sound(s) /\ OpenNamed(s) /\ Sound(t) /\ OpenNamed(t)
  BY DEF InOrder
<1>2. 0 \notin DOMAIN s.open
  <2>1. s.open \in Seq(OpenFile)
    BY <1>1, StatesFields DEF Sound
  <2> QED BY <2>1
<1>3. PICK j \in DOMAIN t.open, k \in {0} \union DOMAIN s.open :
        /\ t.open[j].path = p /\ t.open[j].id = i
        /\ OthersStay(s, t, k, j)
        /\ LET was == IF k = 0 THEN [o \in Op |-> 0] ELSE s.open[k].ops
           IN  t.open[j].ops = With(was, op, was[op] + 1)
        /\ IF k = 0 THEN EntryOf(s, p) = {} ELSE s.open[k].path = p
  BY DEF OneMore
<1>4. \A m \in DOMAIN s.open : s.open[m].path = p => m = k /\ k # 0
  <2>1. CASE k = 0
    BY <1>3, <2>1 DEF EntryOf
  <2>2. CASE k # 0
    BY <1>1, <1>3, <2>2 DEF OpenNamed
  <2> QED BY <2>1, <2>2
<1>5. HandlesOf(t)[p] = new /\ p \in DOMAIN HandlesOf(t)
  <2>1. t.open[j].ops = [ops EXCEPT ![op] = ops[op] + 1]
    <3>1. CASE k = 0
      <4>1. p \notin DOMAIN HandlesOf(s)
        BY <1>1, <1>4, <3>1, HandlesOfDomain
      <4> QED BY <1>3, <3>1, <4>1 DEF With
    <3>2. CASE k # 0
      <4>1. HandlesOf(s)[s.open[k].path] = [file |-> s.open[k].id, ops |-> s.open[k].ops]
            /\ s.open[k].path \in DOMAIN HandlesOf(s)
        BY <1>1, <1>3, <3>2, HandlesOfIs
      <4>2. ops = s.open[k].ops
        BY <1>3, <3>2, <4>1
      <4> QED BY <1>3, <3>2, <4>2 DEF With
    <3> QED BY <3>1, <3>2
  <2>2. /\ t.open[j].path \in DOMAIN HandlesOf(t)
        /\ HandlesOf(t)[t.open[j].path] = [file |-> t.open[j].id, ops |-> t.open[j].ops]
    BY <1>1, HandlesOfIs
  <2> QED BY <1>3, <2>1, <2>2
<1>6. /\ h = [u \in S |-> h[u]] /\ h[p] = new
      /\ \A u \in DOMAIN HandlesOf(s) : u # p => h[u] = HandlesOf(s)[u]
  BY DEF Files!With
<1> HIDE DEF h, new
<1>7. ASSUME NEW u \in S PROVE u \in DOMAIN HandlesOf(t) /\ HandlesOf(t)[u] = h[u]
  <2>1. CASE u = p
    BY <1>5, <1>6, <2>1
  <2>2. CASE u # p
    <3>1. PICK m \in DOMAIN s.open : s.open[m].path = u
      BY <1>1, <1>7, <2>2, HandlesOfDomain
    <3>2. m # k
      BY <1>3, <1>2, <2>2, <3>1
    <3>3. PICK l \in DOMAIN t.open : t.open[l] = s.open[m]
      BY <1>3, <3>2 DEF OthersStay
    <3>4. HandlesOf(s)[u] = [file |-> s.open[m].id, ops |-> s.open[m].ops]
      BY <1>1, <3>1, HandlesOfIs
    <3>5. /\ u \in DOMAIN HandlesOf(t)
          /\ HandlesOf(t)[u] = [file |-> t.open[l].id, ops |-> t.open[l].ops]
      <4>1. t.open[l].path = u
        BY <3>1, <3>3
      <4> QED BY <1>1, <4>1, HandlesOfIs
    <3>6. h[u] = HandlesOf(s)[u]
      BY <1>6, <1>7, <2>2
    <3> QED BY <3>3, <3>4, <3>5, <3>6
  <2> QED BY <2>1, <2>2
<1>8. ASSUME NEW u \in DOMAIN HandlesOf(t) PROVE u \in S
  <2>1. PICK l \in DOMAIN t.open : t.open[l].path = u
    BY <1>1, HandlesOfDomain
  <2>2. CASE l = j
    BY <1>3, <2>1, <2>2
  <2>3. CASE l # j
    <3>1. PICK m \in DOMAIN s.open : t.open[l] = s.open[m]
      BY <1>3, <2>3 DEF OthersStay
    <3> QED BY <1>1, <2>1, <3>1, HandlesOfIs
  <2> QED BY <2>2, <2>3
<1> HIDE DEF S
<1>9. DOMAIN HandlesOf(t) \subseteq S
  BY <1>8
<1>10. HandlesOf(t) = h
  BY <1>6, <1>7, <1>9, HandlesEq
<1> QED BY <1>10 DEF h, new

\* l2_open opens the file that is known by the path.
LEMMA OpenCallShown ==
  ASSUME InOrder(State), DirsStored(State), NEW p \in Path, NEW op \in Op, Open(p, op)
  PROVE  DirsStored(State)' /\ Files!Open(p, op)
<1> DEFINE i == Namei(State, p).id
<1>1. PICK t : /\ State.newest[i].type = "REGULAR"
               /\ SettlesAt(t) /\ Opened(State, t, p, i) /\ OneMore(State, t, p, i, op)
  BY OpenSettles DEF InOrder
<1>2. Found(i)
  BY DEF Open
<1>3. Files!Known(p) /\ Files!FileAt(p) = i /\ i \in Shown /\ IsUsed(State, i)
  BY <1>2, KnownIs
<1> HIDE DEF i
<1>4. State' = t /\ Become(t) /\ InOrder(t)
  BY <1>1, SettledIs
<1>5. /\ t.dir = State.dir /\ t.newest = State.newest /\ t.disk = State.disk
      /\ DOMAIN t.table = DOMAIN State.table \union {i}
  BY <1>1 DEF Opened, OneMore
<1>6. DirsStored(t)
  BY <1>5 DEF DirsStored
<1>7. NamesOf(t) = NamesOf(State)
  BY <1>5, SameNamesOf
<1>8. PICK ops : ops = IF p \in DOMAIN HandlesOf(State) THEN HandlesOf(State)[p].ops
                       ELSE [o \in Op |-> 0]
  OBVIOUS
<1>9. PICK h : h = Files!With(HandlesOf(State), p,
                     [file |-> i, ops |-> [ops EXCEPT ![op] = ops[op] + 1]])
  OBVIOUS
<1>10. HandlesOf(t) = h
  BY <1>1, <1>4, <1>8, <1>9, OpenedHandles
<1>11. NodesOf(State)[i].type = "REGULAR"
  <2>1. NodesOf(State)[i] = NodeOf(State.newest[i])
    BY <1>3, NodesNow
  <2> QED BY <1>1, <2>1 DEF NodeOf
<1>12. PICK N, S : N = NodesOf(State) /\ S = StoredOf(State)
  OBVIOUS
<1>13. Files!Becomes(NamesOf(State), h, N, S)
  <2>1. ASSUME NEW f \in Shown, IsUsed(t, f)
        PROVE  N[f] = NodeOf(t.newest[f])
    <3>1. IsUsed(State, f)
      BY <1>3, <1>5, <2>1 DEF IsUsed
    <3> QED BY <1>5, <1>12, <3>1, NodesNow
  <2>2. ASSUME NEW f \in Shown, t.newest[f].links > 0
        PROVE  S[f] = NodeOf(t.disk[f])
    BY <1>5, <1>12, <2>2, NodesNow
  <2>3. Files!Becomes(NamesOf(t), HandlesOf(t), N, S)
    BY <1>4, <2>1, <2>2, StepBecomes
  <2> QED BY <1>7, <1>10, <2>3
<1>14. Files!Open(p, op)
  BY <1>3, <1>8, <1>9, <1>11, <1>12, <1>13, MapNow DEF Files!Open, Files!Becomes
<1> QED BY <1>4, <1>6, <1>14

\* One operation less of an open file, and with the last one it is closed.
LEMMA ClosedHandles ==
  ASSUME NEW s, InOrder(s), NEW t, InOrder(t), NEW p, NEW i, NEW op \in Op,
         OneLess(s, t, p, i, op)
  PROVE  /\ p \in DOMAIN HandlesOf(s) /\ HandlesOf(s)[p].ops[op] > 0
         /\ \E ops : /\ ops = [HandlesOf(s)[p].ops EXCEPT ![op] = HandlesOf(s)[p].ops[op] - 1]
                     /\ HandlesOf(t) =
                          IF \A o \in Op : ops[o] = 0
                            THEN Files!Restrict(HandlesOf(s), DOMAIN HandlesOf(s) \ {p})
                            ELSE Files!With(HandlesOf(s), p,
                                            [HandlesOf(s)[p] EXCEPT !.ops = ops])
         /\ DOMAIN t.table \subseteq DOMAIN s.table
<1>1. Sound(s) /\ OpenNamed(s) /\ Sound(t) /\ OpenNamed(t)
  BY DEF InOrder
<1>2. PICK k \in DOMAIN s.open, j \in {0} \union DOMAIN t.open :
        /\ s.open[k].path = p /\ s.open[k].id = i /\ s.open[k].ops[op] > 0
        /\ OthersStay(s, t, k, j)
        /\ LET ops == With(s.open[k].ops, op, s.open[k].ops[op] - 1)
           IN  IF j = 0 THEN Count(ops) = 0 /\ DOMAIN t.table = DOMAIN s.table \ {i}
               ELSE /\ Count(ops) # 0 /\ DOMAIN t.table = DOMAIN s.table
                    /\ t.open[j].path = p /\ t.open[j].id = i /\ t.open[j].ops = ops
  BY DEF OneLess
<1>3. 0 \notin DOMAIN t.open
  <2>1. t.open \in Seq(OpenFile)
    BY <1>1, StatesFields DEF Sound
  <2> QED BY <2>1
<1>4. \A m \in DOMAIN s.open : s.open[m].path = p => m = k
  BY <1>1, <1>2 DEF OpenNamed
<1>5. p \in DOMAIN HandlesOf(s) /\ HandlesOf(s)[p] = [file |-> i, ops |-> s.open[k].ops]
  BY <1>1, <1>2, HandlesOfIs
<1>6. HandlesOf(s)[p].ops = s.open[k].ops /\ HandlesOf(s)[p].file = i
  BY <1>5
<1> DEFINE ops == With(s.open[k].ops, op, s.open[k].ops[op] - 1)
<1>7. ops = [HandlesOf(s)[p].ops EXCEPT ![op] = HandlesOf(s)[p].ops[op] - 1]
  BY <1>6 DEF With
<1>8. /\ s.open[k].ops \in [Op -> Nat]
      /\ ops \in [Op -> Nat]
  <2>1. s.open[k].ops \in [Op -> Nat]
    <3>1. s.open \in Seq(OpenFile)
      BY <1>1, StatesFields DEF Sound
    <3>2. s.open[k] \in OpenFile
      BY <3>1
    <3> QED BY <3>2 DEF OpenFile
  <2>2. s.open[k].ops[op] - 1 \in Nat
    BY <1>2, <2>1
  <2> QED BY <2>1, <2>2, CountType
<1>9. (\A o \in Op : ops[o] = 0) <=> Count(ops) = 0
  <2> HIDE DEF ops
  <2>1. "read" \in Op /\ "write" \in Op /\ "readwrite" \in Op
    BY DEF Op
  <2>2. /\ ops["read"] \in Nat /\ ops["write"] \in Nat /\ ops["readwrite"] \in Nat
        /\ \A o \in Op : ops[o] \in Nat /\ ops[o] <= Count(ops)
    BY <1>8, <2>1, CountType
  <2>3. (\A o \in Op : ops[o] = 0) => Count(ops) = 0
    BY <2>1 DEF Count
  <2>4. Count(ops) = 0 => \A o \in Op : ops[o] = 0
    BY <2>2
  <2> QED BY <2>3, <2>4
<1>10. /\ j = 0 => Count(ops) = 0 /\ DOMAIN t.table = DOMAIN s.table \ {i}
       /\ j # 0 => /\ Count(ops) # 0 /\ DOMAIN t.table = DOMAIN s.table
                   /\ t.open[j].path = p /\ t.open[j].id = i /\ t.open[j].ops = ops
  BY <1>2
<1> HIDE DEF ops
\* The other open files.
<1>11. ASSUME NEW u \in DOMAIN HandlesOf(s), u # p
       PROVE  u \in DOMAIN HandlesOf(t) /\ HandlesOf(t)[u] = HandlesOf(s)[u]
  <2>1. PICK m \in DOMAIN s.open : s.open[m].path = u
    BY <1>1, HandlesOfDomain
  <2>2. m # k
    BY <1>2, <1>11, <2>1
  <2>3. PICK l \in DOMAIN t.open : t.open[l] = s.open[m]
    BY <1>2, <2>2 DEF OthersStay
  <2>4. HandlesOf(s)[u] = [file |-> s.open[m].id, ops |-> s.open[m].ops]
    BY <1>1, <2>1, HandlesOfIs
  <2>5. /\ u \in DOMAIN HandlesOf(t)
        /\ HandlesOf(t)[u] = [file |-> t.open[l].id, ops |-> t.open[l].ops]
    <3>1. t.open[l].path = u
      BY <2>1, <2>3
    <3> QED BY <1>1, <3>1, HandlesOfIs
  <2> QED BY <2>3, <2>4, <2>5
<1>12. ASSUME NEW u \in DOMAIN HandlesOf(t)
       PROVE  (u = p /\ j # 0) \/ (u # p /\ u \in DOMAIN HandlesOf(s))
  <2>1. PICK l \in DOMAIN t.open : t.open[l].path = u
    BY <1>1, HandlesOfDomain
  <2>2. CASE l = j
    BY <1>3, <1>10, <2>1, <2>2
  <2>3. CASE l # j
    <3>1. PICK m \in DOMAIN s.open \ {k} : t.open[l] = s.open[m]
      BY <1>2, <2>3 DEF OthersStay
    <3>2. u = s.open[m].path /\ u # p
      BY <1>4, <2>1, <3>1
    <3> QED BY <1>1, <3>1, <3>2, HandlesOfIs
  <2> QED BY <2>2, <2>3
<1>13. HandlesOf(t) = IF \A o \in Op : ops[o] = 0
                        THEN Files!Restrict(HandlesOf(s), DOMAIN HandlesOf(s) \ {p})
                        ELSE Files!With(HandlesOf(s), p,
                                        [HandlesOf(s)[p] EXCEPT !.ops = ops])
  <2>1. CASE j = 0
    <3> DEFINE S == DOMAIN HandlesOf(s) \ {p}
               h == Files!Restrict(HandlesOf(s), S)
    <3>1. h = [u \in S |-> h[u]] /\ \A u \in S : h[u] = HandlesOf(s)[u]
      BY DEF Files!Restrict
    <3> HIDE DEF h
    <3>2. \A u \in S : u \in DOMAIN HandlesOf(t) /\ HandlesOf(t)[u] = h[u]
      BY <1>11, <3>1
    <3>3. DOMAIN HandlesOf(t) \subseteq S
      BY <1>12, <2>1
    <3> HIDE DEF S
    <3>4. HandlesOf(t) = h
      BY <3>1, <3>2, <3>3, HandlesEq
    <3> QED BY <1>9, <1>10, <2>1, <3>4 DEF h, S
  <2>2. CASE j # 0
    <3> DEFINE S == DOMAIN HandlesOf(s) \union {p}
               new == [HandlesOf(s)[p] EXCEPT !.ops = ops]
               h == Files!With(HandlesOf(s), p, new)
    <3>1. new = [file |-> i, ops |-> ops]
      BY <1>5
    <3>2. p \in DOMAIN HandlesOf(t) /\ HandlesOf(t)[p] = new
      <4>1. j \in DOMAIN t.open
        BY <2>2
      <4>2. /\ t.open[j].path \in DOMAIN HandlesOf(t)
            /\ HandlesOf(t)[t.open[j].path] = [file |-> t.open[j].id, ops |-> t.open[j].ops]
        BY <1>1, <4>1, HandlesOfIs
      <4> QED BY <1>10, <2>2, <3>1, <4>2
    <3> HIDE DEF new
    <3>3. /\ h = [u \in S |-> h[u]] /\ h[p] = new
          /\ \A u \in DOMAIN HandlesOf(s) : u # p => h[u] = HandlesOf(s)[u]
      BY DEF Files!With
    <3> HIDE DEF h
    <3>4. ASSUME NEW u \in S PROVE u \in DOMAIN HandlesOf(t) /\ HandlesOf(t)[u] = h[u]
      BY <1>11, <3>2, <3>3, <3>4
    <3>5. DOMAIN HandlesOf(t) \subseteq S
      BY <1>12
    <3> HIDE DEF S
    <3>6. HandlesOf(t) = h
      BY <3>3, <3>4, <3>5, HandlesEq
    <3> QED BY <1>9, <1>10, <2>2, <3>6 DEF h, new
  <2> QED BY <2>1, <2>2
<1>14. DOMAIN t.table \subseteq DOMAIN s.table
  BY <1>10
<1> QED BY <1>2, <1>5, <1>6, <1>7, <1>13, <1>14

\* What is freed when it is closed had no names in it.
LEMMA ClosedNames ==
  ASSUME NEW s, InOrder(s), NEW t, NEW i, Closed(s, t, i)
  PROVE  NamesOf(t) = NamesOf(s)
<1>1. /\ Sound(s) /\ EntriesInUse(s) /\ Root \in INode
      /\ s.dir \in [INode -> Seq(Slot)]
      /\ i \in INode /\ s.newest[i].type = "REGULAR"
      /\ t.dir = s.dir \/ t.dir = With(s.dir, i, <<>>)
  BY PathAssumption, StatesFields, Zenon DEF InOrder, Named, Sound, Closed
<1>2. \A x, j \in INode, m \in Key : At(t, x, m, j) <=> At(s, x, m, j)
  <2>1. CASE t.dir = s.dir
    BY <2>1 DEF At
  <2>2. CASE t.dir = With(s.dir, i, <<>>)
    <3>1. /\ \A x \in INode \ {i} : t.dir[x] = s.dir[x]
          /\ t.dir[i] = <<>>
      BY <1>1, <2>2 DEF With
    <3>2. \A j, m : ~At(t, i, m, j)
      BY <3>1 DEF At, Entry
    <3>3. \A j \in INode, m \in Key : ~At(s, i, m, j)
      BY <1>1 DEF EntriesInUse
    <3> QED BY <3>1, <3>2, <3>3 DEF At
  <2> QED BY <1>1, <2>1, <2>2
<1>3. ASSUME NEW p \in Seq(Key), Len(p) \in 1 .. 2, NEW j \in INode
      PROVE  LeadsTo(t, p, j) <=> LeadsTo(s, p, j)
  <2>1. CASE Len(p) = 1
    <3>1. p[1] \in Key
      BY <2>1
    <3> QED BY <1>1, <1>2, <2>1, <3>1 DEF LeadsTo
  <2>2. CASE Len(p) = 2
    <3>1. p[1] \in Key /\ p[2] \in Key
      BY <2>2
    <3> QED BY <1>1, <1>2, <2>2, <3>1 DEF LeadsTo
  <2> QED BY <1>3, <2>1, <2>2
<1>4. Led(t) = Led(s)
  BY <1>3 DEF Led
<1>5. ASSUME NEW p \in Led(s)
      PROVE  (CHOOSE j \in INode : LeadsTo(t, p, j)) = CHOOSE j \in INode : LeadsTo(s, p, j)
  <2>1. \A j \in INode : LeadsTo(t, p, j) <=> LeadsTo(s, p, j)
    BY <1>3, <1>5 DEF Led
  <2> QED BY <2>1
<1> QED BY <1>4, <1>5 DEF NamesOf

\* What FileTree says of a close, in terms of what is shown.
LEMMA CloseIs ==
  ASSUME InOrder(State), NEW p, NEW op, NEW nm, nm = NamesOf(State),
         NEW hd, hd = HandlesOf(State), NEW nd, nd = NodesOf(State), NEW st, st = StoredOf(State),
         p \in DOMAIN hd, hd[p].ops[op] > 0,
         NEW now, now = [hd[p].ops EXCEPT ![op] = hd[p].ops[op] - 1],
         NEW h, h = IF \A o \in Op : now[o] = 0
                      THEN Files!Restrict(hd, DOMAIN hd \ {p})
                      ELSE Files!With(hd, p, [hd[p] EXCEPT !.ops = now]),
         Files!Becomes(nm, h, nd, st)
  PROVE  Files!Close(p, op)
<1> DEFINE hd0 == [r \in {open[k].path : k \in DOMAIN open} |->
                    LET k == Min(EntryOf(State, r))
                    IN  [file |-> open[k].id, ops |-> open[k].ops]]
           nd0 == [i \in INode \ {Root} |->
                    IF InUse(i) \/ i \in DOMAIN table THEN NodeOf(InCore(State, i))
                                                     ELSE NodeOf(Node("FREE", 0))]
           st0 == [i \in INode \ {Root} |->
                    IF InUse(i) THEN NodeOf(disk[i]) ELSE NodeOf(Node("FREE", 0))]
           now0 == [hd0[p].ops EXCEPT ![op] = hd0[p].ops[op] - 1]
<1>1. PathsTo(Leads) = nm /\ hd0 = hd /\ nd0 = nd /\ st0 = st
  BY MapNow
<1>2. ASSUME p \in DOMAIN hd0, hd0[p].ops[op] > 0,
             Files!Becomes(PathsTo(Leads),
               IF \A o \in Op : now0[o] = 0
                 THEN Files!Restrict(hd0, DOMAIN hd0 \ {p})
                 ELSE Files!With(hd0, p, [hd0[p] EXCEPT !.ops = now0]), nd0, st0)
      PROVE  Files!Close(p, op)
  BY <1>2, Zenon DEF Files!Close
<1>3. now0 = now
  BY <1>1
<1> HIDE DEF hd0, nd0, st0, now0
<1>4. PICK h0 : h0 = IF \A o \in Op : now0[o] = 0
                       THEN Files!Restrict(hd0, DOMAIN hd0 \ {p})
                       ELSE Files!With(hd0, p, [hd0[p] EXCEPT !.ops = now0])
  OBVIOUS
<1>5. h0 = IF \A o \in Op : now[o] = 0
             THEN Files!Restrict(hd, DOMAIN hd \ {p})
             ELSE Files!With(hd, p, [hd[p] EXCEPT !.ops = now])
  BY <1>1, <1>3, <1>4
<1>6. h0 = h
  BY <1>5
<1>7. Files!Becomes(PathsTo(Leads),
        IF \A o \in Op : now0[o] = 0
          THEN Files!Restrict(hd0, DOMAIN hd0 \ {p})
          ELSE Files!With(hd0, p, [hd0[p] EXCEPT !.ops = now0]), nd0, st0)
  BY <1>1, <1>4, <1>6 DEF Files!Becomes
<1> QED BY <1>1, <1>2, <1>7

\* l2_close closes what is open under the path.
LEMMA CloseCallShown ==
  ASSUME InOrder(State), DirsStored(State), NEW p \in Path, NEW op \in Op, Close(p, op)
  PROVE  DirsStored(State)' /\ Files!Close(p, op)
<1>1. PICK t, i : SettlesAt(t) /\ Closed(State, t, i) /\ OneLess(State, t, p, i, op)
  BY CloseSettles DEF InOrder
<1>2. State' = t /\ Become(t) /\ InOrder(t)
  BY <1>1, SettledIs
<1>3. NamesOf(t) = NamesOf(State)
  BY <1>1, ClosedNames
<1>4. /\ \A f \in INode \ {i} : t.newest[f] = State.newest[f] /\ t.disk[f] = State.disk[f]
      /\ \/ t.newest = State.newest /\ t.disk = State.disk
         \/ /\ State.newest[i].links = 0 /\ t.newest[i] = Node("FREE", 0)
            /\ i \notin DOMAIN t.table
  BY <1>1 DEF Closed, OneLess
<1>5. ASSUME NEW f \in INode
      PROVE  \/ t.newest[f] = State.newest[f] /\ t.disk[f] = State.disk[f]
             \/ /\ t.newest[f].type = "FREE" /\ ~(t.newest[f].links > 0)
                /\ f \notin DOMAIN t.table
  BY <1>4 DEF Node
<1>6. DirsStored(t)
  BY <1>5 DEF DirsStored
<1>7. PICK hd : hd = HandlesOf(State)
  OBVIOUS
<1>8. /\ p \in DOMAIN hd /\ hd[p].ops[op] > 0
      /\ DOMAIN t.table \subseteq DOMAIN State.table
      /\ \E ops : /\ ops = [hd[p].ops EXCEPT ![op] = hd[p].ops[op] - 1]
                  /\ HandlesOf(t) = IF \A o \in Op : ops[o] = 0
                                      THEN Files!Restrict(hd, DOMAIN hd \ {p})
                                      ELSE Files!With(hd, p, [hd[p] EXCEPT !.ops = ops])
  <2>1. PICK s : s = State
    OBVIOUS
  <2>2. InOrder(s) /\ InOrder(t) /\ OneLess(s, t, p, i, op) /\ hd = HandlesOf(s)
    BY <1>1, <1>2, <1>7, <2>1
  <2> HIDE <1>1, <1>2, <1>7
  <2>3. /\ p \in DOMAIN HandlesOf(s) /\ HandlesOf(s)[p].ops[op] > 0
        /\ \E ops : /\ ops = [HandlesOf(s)[p].ops EXCEPT ![op] = HandlesOf(s)[p].ops[op] - 1]
                    /\ HandlesOf(t) =
                         IF \A o \in Op : ops[o] = 0
                           THEN Files!Restrict(HandlesOf(s), DOMAIN HandlesOf(s) \ {p})
                           ELSE Files!With(HandlesOf(s), p,
                                           [HandlesOf(s)[p] EXCEPT !.ops = ops])
        /\ DOMAIN t.table \subseteq DOMAIN s.table
    BY <2>2, ClosedHandles
  <2> QED BY <2>1, <2>2, <2>3
<1>9. PICK ops : /\ ops = [hd[p].ops EXCEPT ![op] = hd[p].ops[op] - 1]
                 /\ HandlesOf(t) = IF \A o \in Op : ops[o] = 0
                                     THEN Files!Restrict(hd, DOMAIN hd \ {p})
                                     ELSE Files!With(hd, p, [hd[p] EXCEPT !.ops = ops])
  BY <1>8
<1>10. PICK N, S, h : N = NodesOf(State) /\ S = StoredOf(State) /\ h = HandlesOf(t)
  OBVIOUS
<1>11. Files!Becomes(NamesOf(State), h, N, S)
  <2>1. ASSUME NEW f \in Shown, IsUsed(t, f)
        PROVE  N[f] = NodeOf(t.newest[f])
    <3>1. f \in INode
      BY DEF Shown
    <3>2. t.newest[f] = State.newest[f]
      BY <1>5, <2>1, <3>1 DEF IsUsed
    <3>3. IsUsed(State, f)
      BY <1>8, <2>1, <3>2 DEF IsUsed
    <3> QED BY <1>10, <3>2, <3>3, NodesNow
  <2>2. ASSUME NEW f \in Shown, t.newest[f].links > 0
        PROVE  S[f] = NodeOf(t.disk[f])
    <3>1. t.newest[f] = State.newest[f] /\ t.disk[f] = State.disk[f]
      BY <1>5, <2>2 DEF Shown
    <3> QED BY <1>10, <2>2, <3>1, NodesNow
  <2>3. Files!Becomes(NamesOf(t), HandlesOf(t), N, S)
    BY <1>2, <2>1, <2>2, StepBecomes
  <2> QED BY <1>3, <1>10, <2>3
<1>12. h = IF \A o \in Op : ops[o] = 0 THEN Files!Restrict(hd, DOMAIN hd \ {p})
           ELSE Files!With(hd, p, [hd[p] EXCEPT !.ops = ops])
  BY <1>9, <1>10
<1>13. PICK nm : nm = NamesOf(State)
  OBVIOUS
<1>14. Files!Close(p, op)
  <2>1. Files!Becomes(nm, h, N, S)
    BY <1>11, <1>13
  <2>2. h = IF \A o \in Op : ops[o] = 0 THEN Files!Restrict(hd, DOMAIN hd \ {p})
            ELSE Files!With(hd, p, [hd[p] EXCEPT !.ops = ops])
    BY <1>12
  <2>3. ops = [hd[p].ops EXCEPT ![op] = hd[p].ops[op] - 1]
    BY <1>9
  <2>4. p \in DOMAIN hd /\ hd[p].ops[op] > 0
    BY <1>8
  <2>5. N = NodesOf(State) /\ S = StoredOf(State)
    BY <1>10
  <2> QED BY <1>7, <1>13, <2>1, <2>2, <2>3, <2>4, <2>5, CloseIs
<1> QED BY <1>2, <1>6, <1>14

-----------------------------------------------------------------------------
(* Directories implements FileTree.                                          *)

\* The invariant that the refinement needs.
DirsKept == odd \subseteq Harmless => DirsStored(State)

FInv == NInv /\ DirsKept

\* At first there are no files.
LEMMA InitShown ==
  ASSUME Init
  PROVE  FInv /\ Files!Init
<1>1. NInv
  BY InitNames
<1>2. InOrder(State) /\ State.newest = newest /\ State.disk = disk /\ State.dir = dir
  <2>1. odd = {}
    BY DEF Init
  <2> QED BY <1>1, <2>1 DEF NInv, IInv, NamesInOrder, InOrder, State
<1>3. /\ disk = newest /\ dir = [i \in INode |-> <<>>] /\ open = <<>> /\ DOMAIN table = {}
      /\ \A f \in Shown : newest[f] = Node("FREE", 0)
  BY DEF Init, Shown
<1>4. DirsStored(State)
  BY <1>2, <1>3 DEF DirsStored
<1>5. NamesOf(State) = Files!Nothing
  <2>1. Root \in INode
    BY PathAssumption, Zenon
  <2>2. \A m, i : ~At(State, Root, m, i)
    BY <1>2, <1>3, <2>1 DEF At, Entry
  <2>3. Led(State) = {}
    <3> SUFFICES ASSUME NEW p \in Seq(Key), Len(p) \in 1 .. 2, NEW i \in INode,
                        LeadsTo(State, p, i)
                 PROVE  FALSE
      BY DEF Led
    <3> QED BY <2>2 DEF LeadsTo
  <2> QED BY <2>3 DEF NamesOf, Files!Nothing
<1>6. HandlesOf(State) = Files!Nothing
  <2>1. DOMAIN State.open = {}
    BY <1>3 DEF State
  <2> QED BY <2>1 DEF HandlesOf, OpenPathsOf, Files!Nothing
<1>7. \A f \in Shown : ~IsUsed(State, f) /\ ~(State.newest[f].links > 0)
  <2>1. State.table = table
    BY DEF State
  <2> QED BY <1>2, <1>3, <2>1 DEF IsUsed, Node
<1>8. Files!Blank = NodeOf(Node("FREE", 0))
  BY DEF Files!Blank, Files!Node, NodeOf, Node
<1>9. /\ NodesOf(State) = [f \in Shown |-> Files!Blank]
      /\ StoredOf(State) = NodesOf(State)
  BY <1>7, <1>8 DEF NodesOf, StoredOf
<1>10. Files!Init
  BY <1>2, <1>5, <1>6, <1>9, MapNow DEF Files!Init, Shown
<1> QED BY <1>1, <1>4, <1>10 DEF FInv, DirsKept

\* Each step is a step of FileTree, or does not show.
LEMMA NextShown ==
  ASSUME FInv, [Next]_vars, odd' \subseteq Harmless
  PROVE  DirsStored(State)' /\ (UNCHANGED Files!vars \/ Files!Next)
<1>1. NInv /\ NInv' /\ InOrder(State')
  <2>1. NInv /\ NInv'
    BY NextNames DEF FInv, Ended, Followed, Harmless, Fatal
  <2>2. Sound(State') /\ Named(State') /\ OpenNamed(State')
    BY <2>1 DEF NInv, IInv, NamesInOrder
  <2> QED BY <2>1, <2>2 DEF InOrder
<1>2. odd \subseteq Harmless => InOrder(State) /\ DirsStored(State) /\ ~aborted
  BY <1>1 DEF FInv, DirsKept, NInv, IInv, NamesInOrder, InOrder
<1>3. CASE UNCHANGED vars
  <2>1. /\ dir' = dir /\ disk' = disk /\ table' = table /\ cache' = cache /\ open' = open
        /\ newest' = newest /\ odd' = odd /\ aborted' = aborted
    BY <1>3 DEF vars
  <2>2. State' = State /\ DirsStored(State)
    BY <1>2, <2>1 DEF State
  <2>3. DirsStored(State)'
    BY <2>2 DEF DirsStored
  <2>4. PathsTo(Leads)' = PathsTo(Leads)
    <3>1. Leads' = Leads
      BY <2>1, LeadsNow
    <3> QED BY <3>1 DEF PathsTo
  <2>5. \A i \in INode : InUse(i)' = InUse(i) /\ InCore(State, i)' = InCore(State, i)
    BY <2>1, <2>2 DEF InUse, InCore
  <2>6. UNCHANGED [i \in INode \ {Root} |->
                     IF InUse(i) \/ i \in DOMAIN table THEN NodeOf(InCore(State, i))
                                                      ELSE NodeOf(Node("FREE", 0))]
    BY <2>1, <2>5
  <2>7. UNCHANGED [i \in INode \ {Root} |->
                     IF InUse(i) THEN NodeOf(disk[i]) ELSE NodeOf(Node("FREE", 0))]
    BY <2>1, <2>5
  <2>8. UNCHANGED [p \in {open[k].path : k \in DOMAIN open} |->
                     LET k == Min(EntryOf(State, p))
                     IN  [file |-> open[k].id, ops |-> open[k].ops]]
    BY <2>1, <2>2
  <2> QED BY <2>3, <2>4, <2>6, <2>7, <2>8 DEF Files!vars
<1>4. ASSUME NEW p \in Path, GetAttr(p)
      PROVE  DirsStored(State)' /\ UNCHANGED Files!vars
  <2>1. odd' = odd
    BY <1>4 DEF GetAttr
  <2> QED BY <1>2, <1>4, <2>1, GetAttrShown
<1>5. ASSUME NEW p \in Path, NEW i \in INode, NEW type \in {"REGULAR", "DIRECTORY"},
             type = "DIRECTORY" => Len(p) = 1, Create(p, type, i)
      PROVE  DirsStored(State)' /\ Files!Next
  <2>1. odd \subseteq odd'
    BY <1>5 DEF Create
  <2>2. DirsStored(State)' /\ Files!Create(p)
    BY <1>2, <1>5, <2>1, CreateShown
  <2> QED BY <2>2 DEF Files!Next
<1>6. ASSUME NEW p \in Path, Unlink(p)
      PROVE  DirsStored(State)' /\ (UNCHANGED Files!vars \/ Files!Next)
  <2>1. odd \subseteq odd'
    BY <1>6 DEF Unlink
  <2>2. DirsStored(State)' /\ (Files!Unlink(p) \/ UNCHANGED Files!vars)
    BY <1>2, <1>6, <2>1, UnlinkShown
  <2> QED BY <2>2 DEF Files!Next
<1>7. ASSUME NEW p \in Path, NEW q \in Path, Rename(p, q)
      PROVE  DirsStored(State)' /\ Files!Next
  <2>1. odd \subseteq odd'
    BY <1>7 DEF Rename
  <2>2. DirsStored(State)' /\ Files!Rename(p, q)
    BY <1>2, <1>7, <2>1, RenameShown
  <2> QED BY <2>2 DEF Files!Next
<1>8. ASSUME NEW p \in Path, NEW op \in Op, Open(p, op)
      PROVE  DirsStored(State)' /\ Files!Next
  <2>1. odd' = odd
    BY <1>8 DEF Open, Abort
  <2>2. DirsStored(State)' /\ Files!Open(p, op)
    BY <1>2, <1>8, <2>1, OpenCallShown
  <2> QED BY <2>2 DEF Files!Next
<1>9. ASSUME NEW p \in Path, NEW op \in Op, Close(p, op)
      PROVE  DirsStored(State)' /\ Files!Next
  <2>1. odd' = odd
    BY <1>9 DEF Close, Abort
  <2>2. DirsStored(State)' /\ Files!Close(p, op)
    BY <1>2, <1>9, <2>1, CloseCallShown
  <2> QED BY <2>2 DEF Files!Next
<1>10. ASSUME NEW p \in Path, NEW room \in BOOLEAN, Write(p, room)
       PROVE  DirsStored(State)' /\ Files!Next
  <2>1. odd \subseteq odd'
    BY <1>10 DEF Write
  <2>2. DirsStored(State)' /\ Files!Write(p)
    BY <1>2, <1>10, <2>1, WriteShown
  <2> QED BY <2>2 DEF Files!Next
<1>11. ASSUME NEW p \in Path, Read(p)
       PROVE  DirsStored(State)' /\ Files!Next
  <2>1. odd' = odd
    BY <1>11 DEF Read
  <2>2. DirsStored(State)' /\ Files!Read(p)
    BY <1>2, <1>11, <2>1, ReadShown
  <2> QED BY <2>2 DEF Files!Next
<1>12. ASSUME NEW p \in Path, Chmod(p)
       PROVE  DirsStored(State)' /\ Files!Next
  <2>1. odd' = odd
    BY <1>12 DEF Chmod
  <2>2. DirsStored(State)' /\ Files!Chmod(p)
    BY <1>2, <1>12, <2>1, ChmodShown
  <2> QED BY <2>2 DEF Files!Next
<1>13. ASSUME ~aborted, Mount
       PROVE  DirsStored(State)' /\ Files!Next
  <2>1. odd \subseteq Harmless
    <3>1. odd \ {"write_failed"} \subseteq odd' /\ "write_failed" \in Harmless
      BY <1>13 DEF Mount, Harmless
    <3> QED BY <3>1
  <2>2. DirsStored(State)' /\ Files!Remount
    BY <1>1, <1>2, <1>13, <2>1, MountShown
  <2> QED BY <2>2 DEF Files!Next
<1>14. /\ ~MountWipes
       /\ \A p \in Path, op \in Op : ~CloseRunsOn(p, op)
  BY DEF MountWipes, CloseRunsOn, Harmless
<1>15. ASSUME Next
       PROVE  DirsStored(State)' /\ (UNCHANGED Files!vars \/ Files!Next)
  <2> USE <1>4, <1>5, <1>6, <1>7, <1>8, <1>9, <1>10, <1>11, <1>12, <1>13, <1>14
  <2> QED BY <1>15 DEF Next
<1> QED BY <1>3, <1>15

\* So what holds besides goes on to hold.
LEMMA NextFiles ==
  ASSUME FInv, [Next]_vars
  PROVE  /\ FInv' \/ Ended'
         /\ [odd' \subseteq Harmless => UNCHANGED Files!vars \/ Files!Next]_vars
<1>1. NInv' \/ Ended'
  BY NextNames DEF FInv
<1>2. odd' \subseteq Harmless => DirsStored(State)' /\ (UNCHANGED Files!vars \/ Files!Next)
  BY NextShown
<1>3. DirsKept'
  BY <1>2 DEF DirsKept
<1> QED BY <1>1, <1>2, <1>3 DEF FInv

\* Files have the names and contents that the calls gave them, and open files
\* stay what they are: whatever l2_mknod, l2_mkdir, l2_unlink, l2_rename,
\* l2_open, l2_close, l2_read, l2_write, l2_chmod, l2_unmount and l2_mount do to
\* slots, link counts, tables and inodes, a caller sees FileTree, so long as none
\* of the circumstances in Oddities has occurred but the harmless ones: neither
\* an unmount that zeroes the last block of a full disk, nor an inode that goes
\* to the cache with others behind it in its chain.
THEOREM IsFileTree == Spec => ImplementsFileTree
<1>1. Init => FInv /\ Files!Init
  BY InitShown
<1>2. (FInv \/ Ended) /\ [Next]_vars
        => /\ FInv' \/ Ended'
           /\ [odd' \subseteq Harmless => UNCHANGED Files!vars \/ Files!Next]_vars
  <2>1. Ended => ~Next
    BY DEF Ended, Next
  <2>2. Ended /\ UNCHANGED vars => Ended'
    BY DEF Ended, TypeOK, Followed, vars
  <2> QED BY <2>1, <2>2, NextFiles
<1> QED BY <1>1, <1>2, PTL DEF Spec, ImplementsFileTree
=============================================================================
