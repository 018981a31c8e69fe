------------------------------ MODULE INodeLists ------------------------------
(***************************************************************************)
(* The lists behind the inodes in core (INodeTable.c, INodeCache.c), as    *)
(* readINode, freeINode, l2_open, l2_close and l2_unlink use them.         *)
(*                                                                         *)
(* An entry holds one inode.  It is in a chain of the inode table while    *)
(* the inode is open, and in the list of the inode cache else; both go     *)
(* through the same link, "next".  An entry that moves from a chain to the *)
(* cache keeps its link: nothing clears it.                                *)
(*                                                                         *)
(* A call of layer 2 is a sequence of these actions, for all inodes it     *)
(* comes across; opens and closes but the first and the last of an inode   *)
(* leave the lists alone.  The module ends where a list runs into freed    *)
(* memory, or into a circle.                                               *)
(***************************************************************************)
EXTENDS Integers, Sequences, FiniteSets, SequencesExt, FiniteSetsExt

CONSTANTS
  INode,      \* inode ids
  Bin,        \* the bin of each inode: its id modulo INODE_TABLE_LENGTH
  Entry,      \* bound: the entries in memory
  NULL

ASSUME EntryAssumption == NULL \notin Entry

VARIABLES
  heap,       \* the entries that are allocated: inode id and next entry
  hashQ,      \* the first entry of each bin
  head, tail, \* the first entry of the cache, and the last one
  nINodes,    \* the number of entries of the cache
  open,       \* the open files, newest first: entry and (ghost) inode id
  node,       \* what becomes of each inode: "linked", "unlinked" or "free"
  stale       \* ghost: an entry with others behind it went to the cache

vars == <<heap, hashQ, head, tail, nINodes, open, node, stale>>

Init == /\ heap = [e \in {} |-> 0]
        /\ hashQ = [b \in {Bin[i] : i \in INode} |-> NULL]
        /\ head = NULL /\ tail = NULL /\ nINodes = 0
        /\ open = <<>>
        /\ node = [i \in INode |-> "free"]
        /\ stale = FALSE

-----------------------------------------------------------------------------
(* The lists, as one record.                                                *)
Lists == [heap |-> heap, hashQ |-> hashQ, head |-> head, tail |-> tail,
          nINodes |-> nINodes]

Become(s) == /\ heap' = s.heap /\ hashQ' = s.hashQ /\ head' = s.head
             /\ tail' = s.tail /\ nINodes' = s.nINodes

\* The entries from p on, and where the list ends.
Walk(s, p) ==
  LET w[n \in 0 .. Cardinality(Entry)] ==
        IF n = 0 THEN <<p>>
        ELSE IF Last(w[n - 1]) \in DOMAIN s.heap
               THEN Append(w[n - 1], s.heap[Last(w[n - 1])].next)
               ELSE w[n - 1]
  IN  w[Cardinality(Entry)]

From(s, p) == SelectSeq(Walk(s, p), LAMBDA e : e \in DOMAIN s.heap)
IdsFrom(s, p) == LET l == From(s, p) IN [k \in DOMAIN l |-> s.heap[l[k]].id]

Chain(s, b) == IdsFrom(s, s.hashQ[b])
Cached(s)   == IdsFrom(s, s.head)

\* All lists end, and the last entry of the cache is allocated.
Proper(s) ==
  /\ \A p \in {s.head} \union Range(s.hashQ) : Last(Walk(s, p)) = NULL
  /\ s.nINodes # 0 => s.tail \in DOMAIN s.heap

At(list, i) == Min({k \in DOMAIN list : list[k] = i})

\* hasINodeEntry and getINodeEntry; getINodeCacheEntry.
InTable(s, i) == Contains(Chain(s, Bin[i]), i)
InCache(s, i) == Contains(Cached(s), i)

\* putINodeEntry; and putINode, with a new entry e.
PutINodeEntry(s, e) ==
  LET b == Bin[s.heap[e].id]
  IN  [s EXCEPT !.heap[e].next = s.hashQ[b], !.hashQ[b] = e]

Malloc(s, e, i) ==
  [s EXCEPT !.heap = [f \in DOMAIN s.heap \union {e} |->
                        IF f = e THEN [id |-> i, next |-> NULL] ELSE s.heap[f]]]

Free(s, e) == [s EXCEPT !.heap = [f \in DOMAIN s.heap \ {e} |-> s.heap[f]]]

\* removeINodeEntry.
RemoveINodeEntry(s, i) ==
  LET b == Bin[i]
      l == From(s, s.hashQ[b])
      k == At(Chain(s, b), i)
  IN  IF ~InTable(s, i) THEN s
      ELSE IF k = 1 THEN [s EXCEPT !.hashQ[b] = s.heap[l[1]].next]
      ELSE [s EXCEPT !.heap[l[k - 1]].next = s.heap[l[k]].next]

\* Mutant of CacheINodeEntry: the entry becomes the first one.
CacheFirst(s, e) ==
  [s EXCEPT !.heap[e].next = s.head, !.head = e,
            !.tail = IF s.nINodes = 0 THEN e ELSE s.tail,
            !.nINodes = s.nINodes + 1]

\* cacheINodeEntry; and cacheINode, with a new entry e.
CacheINodeEntry(s, e) ==
  IF s.nINodes = 0
    THEN [s EXCEPT !.head = e, !.tail = e, !.nINodes = 1]
    ELSE [s EXCEPT !.heap[s.tail].next = e, !.tail = e, !.nINodes = s.nINodes + 1]

\* Mutant of RemoveINodeCacheEntry: the last entry stays what it is.
RemoveKeepsTail(s, i) ==
  LET l == From(s, s.head)
      k == At(Cached(s), i)
  IN  IF ~InCache(s, i) THEN s
      ELSE IF k = 1 THEN [s EXCEPT !.head = s.heap[l[1]].next, !.nINodes = s.nINodes - 1]
      ELSE [s EXCEPT !.heap[l[k - 1]].next = s.heap[l[k]].next,
                     !.nINodes = s.nINodes - 1]

\* removeINodeCacheEntry.
RemoveINodeCacheEntry(s, i) ==
  LET l    == From(s, s.head)
      k    == At(Cached(s), i)
      next == s.heap[l[k]].next
      prev == IF k = 1 THEN NULL ELSE l[k - 1]
      t    == [s EXCEPT !.tail = IF next = NULL THEN prev ELSE s.tail,
                        !.nINodes = s.nINodes - 1]
  IN  IF ~InCache(s, i) THEN s
      ELSE IF k = 1 THEN [t EXCEPT !.head = next]
      ELSE [t EXCEPT !.heap[prev].next = next]

\* readINode, with entry e if it takes a new one.
ReadINode(s, i, e) ==
  IF InTable(s, i) \/ InCache(s, i) THEN s ELSE CacheINodeEntry(Malloc(s, e, i), e)

-----------------------------------------------------------------------------
Unused == Entry \ DOMAIN heap
Opened  == [k \in DOMAIN open |-> open[k].entry]
OpenIds == [k \in DOMAIN open |-> heap[open[k].entry].id]

\* allocINode and what l2_mknod stores: no new entry.
Create(i) ==
  /\ node[i] = "free"
  /\ node' = [node EXCEPT ![i] = "linked"]
  /\ UNCHANGED <<heap, hashQ, head, tail, nINodes, open, stale>>

\* A call comes across inode i, by one of its names.
Read(i) ==
  /\ node[i] = "linked"
  /\ ~InTable(Lists, i) /\ ~InCache(Lists, i)
  /\ \E e \in Unused : Become(ReadINode(Lists, i, e))
  /\ UNCHANGED <<open, node, stale>>

\* The first l2_open of an inode: its entry comes from the cache, or is new.
Open(i) ==
  /\ node[i] = "linked" /\ ~Contains(OpenIds, i) /\ ~InTable(Lists, i)
  /\ IF InCache(Lists, i)
       THEN LET e == From(Lists, head)[At(Cached(Lists), i)]
            IN  /\ Become(PutINodeEntry(RemoveINodeCacheEntry(Lists, i), e))
                /\ open' = <<[entry |-> e, id |-> i]>> \o open
       ELSE \E e \in Unused : /\ Become(PutINodeEntry(Malloc(Lists, e, i), e))
                              /\ open' = <<[entry |-> e, id |-> i]>> \o open
  /\ UNCHANGED <<node, stale>>

\* The inodes behind open file k in its chain.
Behind(k) == SelectSeq(SubSeq(OpenIds, k + 1, Len(open)),
                       LAMBDA j : Bin[j] = Bin[OpenIds[k]])

\* The last l2_close of open file k.
Close(k) ==
  LET e == open[k].entry
      i == OpenIds[k]
  IN  /\ open' = RemoveAt(open, k)
      /\ IF node[i] = "linked"
           THEN /\ Become(CacheINodeEntry(RemoveINodeEntry(Lists, i), e))
                /\ stale' = (stale \/ Behind(k) # <<>>)
                /\ UNCHANGED node
           ELSE /\ \E f \in Unused \union {e} :
                     /\ f = e <=> InTable(Lists, i) \/ InCache(Lists, i)
                     /\ Become(Free(RemoveINodeEntry(ReadINode(Lists, i, f), i), e))
                /\ node' = [node EXCEPT ![i] = "free"]
                /\ UNCHANGED stale

\* l2_unlink: the inode is read, and freed unless it is in the inode table; an
\* entry of it that is in the cache is freed.
Unlink(i) ==
  /\ node[i] = "linked"
  /\ \E f \in Unused \union {NULL} :
       /\ f = NULL <=> InTable(Lists, i) \/ InCache(Lists, i)
       /\ \E s \in {ReadINode(Lists, i, f)} :
            /\ IF InCache(s, i)
                 THEN Become(Free(RemoveINodeCacheEntry(s, i),
                                  From(s, s.head)[At(Cached(s), i)]))
                 ELSE Become(s)
            /\ node' = [node EXCEPT ![i] = IF InTable(s, i) THEN "unlinked" ELSE "free"]
  /\ UNCHANGED <<open, stale>>

\* l2_mount empties the lists.  An inode that was open and unlinked is lost.
Mount ==
  /\ heap' = [e \in {} |-> 0]
  /\ hashQ' = [b \in DOMAIN hashQ |-> NULL]
  /\ head' = NULL /\ tail' = NULL /\ nINodes' = 0
  /\ open' = <<>>
  /\ stale' = FALSE
  /\ UNCHANGED node

Next ==
  /\ Proper(Lists) /\ Range(Opened) \subseteq DOMAIN heap
  /\ \/ \E i \in INode : Create(i) \/ Read(i) \/ Open(i) \/ Unlink(i)
     \/ \E k \in DOMAIN open : Close(k)
     \/ Mount

Spec == Init /\ [][Next]_vars

-----------------------------------------------------------------------------
\* The chains of the inode table are the open files, each in its bin, the last
\* opened first (putINodeEntry, removeINodeEntry): what Directories takes the
\* inode table to be.
ChainsAreOpen ==
  \A b \in DOMAIN hashQ :
    From(Lists, hashQ[b]) = SelectSeq(Opened, LAMBDA e : Bin[heap[e].id] = b)

\* The list of the inode cache has each inode that is in core and not open
\* once, its last entry and its length are right, and no entry is lost
\* (cacheINode, cacheINodeEntry, removeINodeCacheEntry).
CacheIsList ==
  LET l == From(Lists, head)
  IN  /\ nINodes = Len(l)
      /\ tail = IF l = <<>> THEN NULL ELSE Last(l)
      /\ Range(l) = DOMAIN heap \ Range(Opened)
      /\ \A e, f \in DOMAIN heap : heap[e].id = heap[f].id => e = f

\* Both hold, and no inode is freed while it is open (l2_unlink: "free the inode
\* if and only if linkcount reaches 0 AND inode is not open"), until an entry
\* with others behind it in its chain goes to the cache.
ListsInOrder ==
  ~stale => /\ ChainsAreOpen
            /\ CacheIsList
            /\ \A k \in DOMAIN open : node[open[k].id] # "free"

\* Then the cache's list runs on into the chain the entry comes from, and
\* nothing else is wrong (l2_close): what Directories says of that l2_close.
RunsOnIntoChain ==
  [][~stale /\ stale' =>
       \E k \in DOMAIN open :
         /\ open' = RemoveAt(open, k)
         /\ Cached(Lists)' = Append(Cached(Lists), OpenIds[k]) \o Behind(k)
         /\ \A b \in DOMAIN hashQ :
              Chain(Lists, b)' = SelectSeq(OpenIds', LAMBDA i : Bin[i] = b)]_vars

=============================================================================
