---------------------------- MODULE ReaddirProofs ----------------------------
(***************************************************************************)
(* For every set of names and every size of the directory: the types of    *)
(* Readdir, and that a listing returns each name that stays exactly once.  *)
(***************************************************************************)
EXTENDS Readdir, WellFoundedInduction, TLAPS

-----------------------------------------------------------------------------
(* Numbers.                                                                  *)

\* A set of numbers has a smallest one.
LEMMA WellOrdered ==
  ASSUME NEW S \in SUBSET Nat, S # {}
  PROVE  \E n \in S : \A m \in S : n <= m
<1> DEFINE R == OpToRel(<, Nat)
<1>1. IsWellFoundedOn(R, Nat)
  BY NatLessThanWellFounded
<1>2. \A m, n \in Nat : <<m, n>> \in R <=> m < n
  BY DEF OpToRel
<1> HIDE DEF R
<1>3. PICK n \in S : \A m \in S : ~(<<m, n>> \in R)
  BY <1>1, WFMin
<1>4. \A m \in S : ~(m < n)
  BY <1>2, <1>3
<1> QED BY <1>4

-----------------------------------------------------------------------------
Slot == [key : AllNames \union {NoName}, id : {Removed, 1}]

Live(s, k) == s[k].id # Removed

\* No name is in two slots, and the empty name is in removed slots only.
Good(s) ==
  /\ \A k \in DOMAIN s : Live(s, k) => s[k].key \in AllNames
  /\ \A j, k \in DOMAIN s :
       Live(s, j) /\ Live(s, k) /\ s[j].key = s[k].key => j = k

\* The names that stay have been returned as far as the offset goes.
Passed == \A k \in DOMAIN slots :
            Live(slots, k) /\ slots[k].key \in stayed =>
              times[slots[k].key] = IF k <= offset \/ ~listing THEN 1 ELSE 0

IInv == /\ TypeOK
        /\ Len(slots) <= MaxSlots
        /\ Good(slots)
        /\ Passed

-----------------------------------------------------------------------------
\* After a call, t instead of s is in the slots: what is live was there before,
\* or has a name that is new.
Follows(s, t) ==
  \A k \in DOMAIN t :
    Live(t, k) => (k \in DOMAIN s /\ t[k] = s[k]) \/ t[k].key \notin NamesIn(s)

\* PutSlot takes one slot, which no live entry is in (l2_mknod, l2_mkdir).
LEMMA PutSlotTakesOne ==
  ASSUME NEW s \in Seq(Slot), NEW e \in Slot
  PROVE  /\ PutSlot(s, e) \in Seq(Slot)
         /\ Len(PutSlot(s, e)) \in {Len(s), Len(s) + 1}
         /\ \E p \in DOMAIN PutSlot(s, e) :
              /\ PutSlot(s, e)[p] = e
              /\ p \in DOMAIN s => ~Live(s, p)
              /\ \A k \in DOMAIN PutSlot(s, e) \ {p} :
                   k \in DOMAIN s /\ PutSlot(s, e)[k] = s[k]
<1>1. CASE Full(s)
  <2>1. PutSlot(s, e) = Append(s, e)
    BY <1>1 DEF PutSlot
  <2> QED
    BY <2>1
<1>2. CASE ~Full(s)
  <2> DEFINE gone == {k \in DOMAIN s : ~Live(s, k)}
             p    == FirstRemoved(s)
  <2>1. gone \in SUBSET DOMAIN s /\ gone # {}
    BY <1>2 DEF Full, Live
  <2>2. PICK k \in gone : \A j \in gone : k <= j
    <3>1. gone \in SUBSET Nat
      BY <2>1
    <3> QED
      BY <2>1, <3>1, WellOrdered
  <2>3. k \in DOMAIN s /\ s[k].id = Removed
    BY <2>2 DEF Live
  <2>4. \A j \in 1 .. k - 1 : s[j].id # Removed
    <3>1. SUFFICES ASSUME NEW j \in 1 .. k - 1, s[j].id = Removed
                   PROVE  FALSE
      OBVIOUS
    <3>2. j \in gone
      BY <2>3, <3>1 DEF Live
    <3> QED
      BY <2>2, <2>3, <3>2
  <2>5. p \in DOMAIN s /\ s[p].id = Removed
    BY <2>3, <2>4 DEF FirstRemoved
  <2>6. PutSlot(s, e) = [s EXCEPT ![p] = e]
    BY <1>2 DEF PutSlot
  <2> QED
    BY <2>5, <2>6 DEF Live
<1> QED
  BY <1>1, <1>2

\* A new name goes into one more live slot.
LEMMA PutSlotGood ==
  ASSUME NEW s \in Seq(Slot), Good(s),
         NEW n \in Name, n \notin NamesIn(s)
  PROVE  /\ PutSlot(s, Entry(n)) \in Seq(Slot)
         /\ Good(PutSlot(s, Entry(n)))
         /\ Follows(s, PutSlot(s, Entry(n)))
<1> DEFINE t == PutSlot(s, Entry(n))
<1>1. Entry(n) \in Slot /\ Entry(n).key = n /\ n \in AllNames
  BY DEF Entry, Slot, AllNames
<1>2. t \in Seq(Slot) /\ Len(t) \in {Len(s), Len(s) + 1}
  BY <1>1, PutSlotTakesOne
<1>3. PICK p \in DOMAIN t : /\ t[p] = Entry(n)
                            /\ \A k \in DOMAIN t \ {p} : k \in DOMAIN s /\ t[k] = s[k]
  BY <1>1, PutSlotTakesOne
<1>4. \A k \in DOMAIN t \ {p} : Live(t, k) => t[k].key # n
  BY <1>3 DEF NamesIn, Live
<1>5. Good(t)
  BY <1>1, <1>3, <1>4 DEF Good, Live
<1>7. Follows(s, t)
  BY <1>1, <1>3 DEF Follows
<1> HIDE DEF t
<1> QED
  BY <1>2, <1>5, <1>7 DEF t

\* Removed slots are written over removed ones, or over those of a name
\* (l2_unlink, l2_rename).
LEMMA OverwriteGood ==
  ASSUME NEW s \in Seq(Slot), Good(s),
         NEW n \in Name, NEW e \in Slot, e.id = Removed
  PROVE  /\ Overwrite(s, n, e) \in Seq(Slot)
         /\ Len(Overwrite(s, n, e)) = Len(s)
         /\ Good(Overwrite(s, n, e))
         /\ Follows(s, Overwrite(s, n, e))
         /\ NamesIn(Overwrite(s, n, e)) \subseteq NamesIn(s)
<1> DEFINE t == Overwrite(s, n, e)
<1>1. /\ t \in Seq(Slot) /\ Len(t) = Len(s) /\ DOMAIN t = DOMAIN s
      /\ \A k \in DOMAIN t : t[k] = IF s[k].key = n THEN e ELSE s[k]
  BY DEF Overwrite
<1> HIDE DEF t
<1>2. \A k \in DOMAIN t : Live(t, k) => t[k] = s[k]
  BY <1>1 DEF Live
<1>3. Good(t)
  BY <1>1, <1>2 DEF Good, Live
<1>5. Follows(s, t)
  BY <1>1, <1>2 DEF Follows
<1>6. NamesIn(t) \subseteq NamesIn(s)
  BY <1>1, <1>2 DEF NamesIn, Live
<1> QED
  BY <1>1, <1>3, <1>5, <1>6 DEF t

\* What has a name in a list of slots.
LEMMA NamesLive ==
  ASSUME NEW s, NEW n
  PROVE  n \in NamesIn(s) <=> \E k \in DOMAIN s : Live(s, k) /\ s[k].key = n
BY DEF NamesIn, Live

-----------------------------------------------------------------------------
LEMMA FreshGood == /\ Fresh \in Seq(Slot) /\ Len(Fresh) = 2
                   /\ Good(Fresh)
<1>1. Fresh \in Seq(Slot) /\ Len(Fresh) = 2
  BY DEF Fresh, Entry, Slot, AllNames
<1>2. DOMAIN Fresh = {1, 2} /\ Fresh[1].key = Self /\ Fresh[2].key = Parent
  BY DEF Fresh, Entry
<1>3. Good(Fresh)
  BY <1>2, NameAssumption DEF Good, AllNames
<1> QED
  BY <1>1, <1>3

LEMMA EmptyGood == <<>> \in Seq(Slot) /\ Good(<<>>)
BY DEF Good

LEMMA InitIInv == Init => IInv
<1> SUFFICES ASSUME Init PROVE IInv
  OBVIOUS
<1>1. slots = Fresh /\ listing = FALSE /\ offset = 0 /\ stayed = {}
      /\ times = [n \in AllNames |-> 0]
  BY DEF Init
<1>2. TypeOK
  <2>1. slots \in Seq(Slot)
    BY <1>1, FreshGood
  <2>2. offset \in 0 .. MaxSlots
    BY <1>1, NameAssumption
  <2>3. times \in [AllNames -> 0 .. 2]
    BY <1>1
  <2> QED
    BY <1>1, <2>1, <2>2, <2>3 DEF TypeOK, Slot
<1>3. Passed
  BY <1>1 DEF Passed
<1> QED
  BY <1>1, <1>2, <1>3, FreshGood, NameAssumption DEF IInv

\* A call that changes the directory leaves the slots of all names that stay.
LEMMA BecomesKeeps ==
  ASSUME IInv, NEW s \in Seq(Slot), Good(s), Follows(slots, s),
         Becomes(s)
  PROVE  IInv'
<1> USE DEF Becomes
<1>1. TypeOK'
  BY DEF IInv, TypeOK, Slot
<1>2. Passed'
  <2> SUFFICES ASSUME NEW k \in DOMAIN s, Live(s, k), s[k].key \in stayed'
               PROVE  times[s[k].key] = IF k <= offset \/ ~listing THEN 1 ELSE 0
    BY DEF Passed, Live
  <2>1. s[k].key \in stayed /\ s[k].key \in NamesIn(slots)
    BY DEF IInv, TypeOK
  <2>2. k \in DOMAIN slots /\ s[k] = slots[k]
    BY <2>1 DEF Follows
  <2> QED
    BY <2>1, <2>2 DEF IInv, Passed, Live
<1> QED
  BY <1>1, <1>2 DEF IInv

LEMMA StartKeeps == ASSUME IInv, Start PROVE IInv'
<1> USE DEF Start
<1>1. TypeOK'
  BY NameAssumption DEF IInv, TypeOK
<1>2. Passed'
  <2> SUFFICES ASSUME NEW k \in DOMAIN slots, Live(slots, k)
               PROVE  times'[slots[k].key] = 0 /\ ~(k <= offset')
    BY DEF Passed, Live
  <2>1. slots[k].key \in AllNames
    BY DEF IInv, Good
  <2>2. k \in Nat \ {0}
    BY DEF IInv, TypeOK
  <2> QED
    BY <2>1, <2>2
<1> QED
  BY <1>1, <1>2 DEF IInv, Good, Live

LEMMA ReadEntryKeeps == ASSUME IInv, ReadEntry PROVE IInv'
<1>1. PICK k \in Ahead :
        /\ \A j \in Ahead : k <= j
        /\ offset' = NextOffset(offset, k)
        /\ times' = [times EXCEPT ![slots[k].key] = IF @ < 2 THEN @ + 1 ELSE 2]
  BY DEF ReadEntry
<1>2. UNCHANGED <<slots, listing, stayed>> /\ listing /\ offset' = k
  BY <1>1 DEF ReadEntry, NextOffset
<1>3. k \in DOMAIN slots /\ Live(slots, k) /\ k > offset
  BY DEF Ahead, Live
<1>4. slots[k].key \in AllNames
  BY <1>3 DEF IInv, Good
<1>5. times \in [AllNames -> 0 .. 2] /\ offset \in Nat /\ k \in 1 .. MaxSlots
  BY <1>3, NameAssumption DEF IInv, TypeOK
<1>6. TypeOK'
  <2>1. times' \in [AllNames -> 0 .. 2]
    BY <1>1, <1>4, <1>5
  <2>2. offset' \in 0 .. MaxSlots
    BY <1>2, <1>5, NameAssumption
  <2> QED
    BY <1>2, <2>1, <2>2 DEF IInv, TypeOK
<1>7. Passed'
  <2> SUFFICES ASSUME NEW j \in DOMAIN slots, Live(slots, j),
                      slots[j].key \in stayed
               PROVE  times'[slots[j].key] = IF j <= k THEN 1 ELSE 0
    BY <1>2 DEF Passed, Live
  <2>1. times[slots[j].key] = IF j <= offset THEN 1 ELSE 0
    BY <1>2 DEF IInv, Passed
  <2>2. slots[j].key \in AllNames /\ j \in Nat
    BY DEF IInv, Good, TypeOK
  <2>3. CASE j = k
    BY <1>1, <1>3, <1>5, <2>1, <2>2, <2>3
  <2>4. CASE j # k
    <3>1. times'[slots[j].key] = times[slots[j].key]
      BY <1>1, <1>3, <1>5, <2>2, <2>4 DEF IInv, Good
    <3>2. j > offset => k < j
      BY <1>1, <1>5, <2>2, <2>4 DEF Ahead, Live
    <3> QED
      BY <1>3, <1>5, <2>1, <2>2, <3>1, <3>2
  <2> QED
    BY <2>3, <2>4
<1> QED
  BY <1>2, <1>6, <1>7 DEF IInv, Good, Live

LEMMA ReadEndKeeps == ASSUME IInv, ReadEnd PROVE IInv'
<1> USE DEF ReadEnd
<1>1. TypeOK'
  BY DEF IInv, TypeOK
<1>2. Passed'
  <2> SUFFICES ASSUME NEW k \in DOMAIN slots, Live(slots, k),
                      slots[k].key \in stayed
               PROVE  times[slots[k].key] = 1
    BY DEF Passed, Live
  <2>1. k <= offset
    BY DEF IInv, TypeOK, Ahead, Live
  <2> QED
    BY <2>1 DEF IInv, Passed
<1> QED
  BY <1>1, <1>2 DEF IInv, Good, Live

LEMMA ChangeKeeps == ASSUME IInv, Change PROVE IInv'
<1>0. slots \in Seq(Slot) /\ Good(slots)
  BY DEF IInv, TypeOK, Slot
<1> DEFINE gone(key) == [key |-> key, id |-> Removed]
<1>1. ASSUME NEW n \in Name, Add(n) PROVE IInv'
  BY <1>0, <1>1, PutSlotGood, BecomesKeeps DEF Add, There
<1>2. ASSUME NEW n \in Name, Unlink(n) PROVE IInv'
  <2>1. gone(n) \in Slot /\ gone(n).id = Removed
    BY DEF Slot, AllNames
  <2> QED
    BY <1>0, <1>2, <2>1, OverwriteGood, BecomesKeeps DEF Unlink
<1>3. gone(NoName) \in Slot /\ gone(NoName).id = Removed
  BY DEF Slot
<1>4. ASSUME NEW n \in Name, MoveOut(n) PROVE IInv'
  BY <1>0, <1>3, <1>4, OverwriteGood, BecomesKeeps DEF MoveOut, Cleared
<1>5. ASSUME NEW m \in Name, NEW n \in Name, Rename(m, n) PROVE IInv'
  <2> DEFINE s == Cleared(m)
             t == PutSlot(s, Entry(n))
  <2>1. /\ s \in Seq(Slot) /\ Good(s) /\ Follows(slots, s)
        /\ NamesIn(s) \subseteq NamesIn(slots)
    BY <1>0, <1>3, OverwriteGood DEF Cleared
  <2>2. n \notin NamesIn(slots) /\ Becomes(t)
    BY <1>5 DEF Rename, There
  <2> HIDE DEF s
  <2>3. t \in Seq(Slot) /\ Good(t)
    BY <2>1, <2>2, PutSlotGood
  <2>4. PICK p \in DOMAIN t : /\ t[p] = Entry(n)
                              /\ \A k \in DOMAIN t \ {p} : k \in DOMAIN s /\ t[k] = s[k]
    <3>1. Entry(n) \in Slot
      BY DEF Entry, Slot, AllNames
    <3> QED
      BY <2>1, <3>1, PutSlotTakesOne
  <2>5. Follows(slots, t)
    BY <2>1, <2>2, <2>4 DEF Follows, Live, Entry
  <2> HIDE DEF t
  <2> QED
    BY <2>2, <2>3, <2>5, BecomesKeeps
<1>6. CASE Leave
  <2>1. Follows(slots, <<>>)
    BY DEF Follows
  <2> QED
    BY <1>6, <2>1, EmptyGood, BecomesKeeps DEF Leave
<1>7. CASE MkDir
  <2>1. Follows(slots, Fresh)
    BY <1>7 DEF MkDir, Follows, NamesIn
  <2> QED
    BY <1>7, <2>1, FreshGood, BecomesKeeps DEF MkDir
<1> QED
  BY <1>1, <1>2, <1>4, <1>5, <1>6, <1>7 DEF Change

LEMMA StepIInv == IInv /\ [Next]_vars => IInv'
<1> SUFFICES ASSUME IInv, [Next]_vars PROVE IInv'
  OBVIOUS
<1>1. CASE Next
  BY <1>1, StartKeeps, ReadEntryKeeps, ReadEndKeeps, ChangeKeeps DEF Next, Read
<1>2. CASE UNCHANGED vars
  BY <1>2 DEF vars, list, IInv, TypeOK, Good, Passed, Live
<1> QED
  BY <1>1, <1>2

LEMMA IInvHolds == Spec => []IInv
<1> QED
  BY InitIInv, StepIInv, PTL DEF Spec

-----------------------------------------------------------------------------
\* The offset, the counts and the names that stay are what they should be:
\* the offset is never beyond the directory's largest size, and a name that
\* stayed is in the directory (l3_readdir, l2_readdir).
THEOREM TypeCorrect == Spec => []TypeOK
<1>1. IInv => TypeOK
  BY DEF IInv
<1> QED
  BY <1>1, IInvHolds, PTL

\* For any number of names and slots, a listing returns each name once that
\* stays in the directory, and does not leave one out, whatever others do
\* between two of its calls (l3_readdir).
THEOREM NamesListedOnce == Spec => []ListedOnce
<1>1. IInv => ListedOnce
  <2> SUFFICES ASSUME IInv, NEW n \in stayed
               PROVE  times[n] <= 1 /\ (~listing => times[n] = 1)
    BY DEF ListedOnce
  <2>1. PICK k \in DOMAIN slots : Live(slots, k) /\ slots[k].key = n
    BY NamesLive DEF IInv, TypeOK
  <2> QED
    BY <2>1 DEF IInv, Passed
<1> QED
  BY <1>1, IInvHolds, PTL
=============================================================================
