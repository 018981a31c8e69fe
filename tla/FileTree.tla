------------------------------ MODULE FileTree -------------------------------
(***************************************************************************)
(* What layer 2 promises of names and open files: paths lead to files and  *)
(* directories, and a file that is open under a path stays the same file,  *)
(* whatever becomes of the path.  Directories implements it, as long as    *)
(* none of its oddities happens.                                           *)
(*                                                                         *)
(* "node" is a file's type and contents (one bit).  Only a write may fail, *)
(* and then only its effect on what the next mount will find.  The remount *)
(* is one of a disk with a free block.                                     *)
(***************************************************************************)
EXTENDS Integers, FiniteSets, Sequences, SequencesExt, Functions

CONSTANTS
  File,       \* files and directories
  Path,       \* the paths the calls are made with
  Op          \* what a file can be opened for

VARIABLES
  names,      \* the file that each path leads to
  nodes,      \* the nodes of all files with a path, and of all that are open
  stored,     \* the nodes of all files with a path, as on disk
  handles     \* the files that are open: file and number of opens by path

vars == <<names, nodes, stored, handles>>

Node(type) == [type |-> type, mark |-> 0]
Blank == Node("FREE")
Changed(node) == [node EXCEPT !.mark = 1 - node.mark]

Nothing == [p \in {} |-> Blank]

Init == /\ names = Nothing /\ handles = Nothing
        /\ nodes = [f \in File |-> Blank] /\ stored = nodes

Known(p)  == p \in DOMAIN names \union DOMAIN handles
FileAt(p) == IF p \in DOMAIN handles THEN handles[p].file ELSE names[p]
Used(n, h) == Range(n) \union {h[p].file : p \in DOMAIN h}

\* Files that have neither a path nor are open any more are gone.
Becomes(n, h, node, disk) ==
  /\ names' = n /\ handles' = h
  /\ nodes' = [f \in File |-> IF f \in Used(n, h) THEN node[f] ELSE Blank]
  /\ stored' = [f \in File |-> IF f \in Range(n) THEN disk[f] ELSE Blank]

\* There is a directory to put path p in.
HasParent(p) == \/ Len(p) = 1
                \/ /\ Front(p) \in DOMAIN names
                   /\ nodes[names[Front(p)]].type = "DIRECTORY"

\* The function with path r leading to x.
With(f, r, x) == [p \in DOMAIN f \union {r} |-> IF p = r THEN x ELSE f[p]]

Create(p) ==
  /\ ~Known(p) /\ HasParent(p)
  /\ \E f \in File \ Used(names, handles), type \in {"REGULAR", "DIRECTORY"} :
       Becomes(With(names, p, f), handles, With(nodes, f, Node(type)),
               With(stored, f, Node(type)))

\* The path and all that is below it.  Open files stay open.
Unlink(p) ==
  /\ p \in DOMAIN names
  /\ Becomes(Restrict(names, {q \in DOMAIN names : ~IsPrefix(p, q)}),
             handles, nodes, stored)

\* Path p, and all that is below it, is now at q; open files too.
Moved(p, q, r) == IF IsPrefix(p, r) THEN q \o SubSeq(r, Len(p) + 1, Len(r)) ELSE r

Renamed(f, p, q) ==
  [r \in {Moved(p, q, s) : s \in DOMAIN f} |->
     f[CHOOSE s \in DOMAIN f : Moved(p, q, s) = r]]

Rename(p, q) ==
  /\ p \in DOMAIN names /\ ~Known(q) /\ HasParent(q)
  /\ ~IsPrefix(p, q)
  /\ Becomes(Renamed(names, p, q), Renamed(handles, p, q), nodes, stored)

Open(p, op) ==
  /\ Known(p) /\ nodes[FileAt(p)].type = "REGULAR"
  /\ LET ops == IF p \in DOMAIN handles THEN handles[p].ops ELSE [o \in Op |-> 0]
         h   == [file |-> FileAt(p), ops |-> [ops EXCEPT ![op] = ops[op] + 1]]
     IN  Becomes(names, With(handles, p, h), nodes, stored)

Close(p, op) ==
  /\ p \in DOMAIN handles /\ handles[p].ops[op] > 0
  /\ LET ops == [handles[p].ops EXCEPT ![op] = handles[p].ops[op] - 1]
     IN  Becomes(names,
                 IF \A o \in Op : ops[o] = 0
                   THEN Restrict(handles, DOMAIN handles \ {p})
                   ELSE With(handles, p, [handles[p] EXCEPT !.ops = ops]),
                 nodes, stored)

\* The change of a file, on disk unless the call fails.
Change(f) == With(nodes, f, Changed(nodes[f]))

Write(p) ==
  /\ p \in DOMAIN handles
  /\ LET f == handles[p].file
     IN  \/ Becomes(names, handles, Change(f), With(stored, f, Changed(nodes[f])))
         \/ Becomes(names, handles, Change(f), stored)

\* A read stores the time of access, and the file with it.
Read(p) ==
  /\ p \in DOMAIN handles
  /\ LET f == handles[p].file
     IN  Becomes(names, handles, nodes, With(stored, f, nodes[f]))

Chmod(p) ==
  /\ Known(p)
  /\ LET f == FileAt(p)
     IN  Becomes(names, handles, Change(f), With(stored, f, Changed(nodes[f])))

Remount == Becomes(names, Nothing, stored, stored)

Next ==
  \/ \E p \in Path : Create(p) \/ Unlink(p) \/ Write(p) \/ Read(p) \/ Chmod(p)
  \/ \E p, q \in Path : Rename(p, q)
  \/ \E p \in Path, op \in Op : Open(p, op) \/ Close(p, op)
  \/ Remount

Spec == Init /\ [][Next]_vars
=============================================================================
