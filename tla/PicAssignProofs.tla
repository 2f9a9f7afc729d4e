--------------------------- MODULE PicAssignProofs --------------------------
(***************************************************************************)
(* Proofs about PicAssign, for every design and every order in which its   *)
(* hash tables are visited: the types, the agreement of vectors and lists  *)
(* and the counters; that the IDs written back are those that are wired;   *)
(* that the assignment implements the vectors of IntVector; and that an ID *)
(* which a line names for itself stays as it is.                           *)
(***************************************************************************)
EXTENDS PicAssign, FiniteSetTheorems, FunctionTheorems, TLAPS

(* A sequence has finitely many elements.                                  *)
LEMMA ToSetFinite ==
  ASSUME NEW S, NEW s \in Seq(S)
  PROVE  IsFiniteSet(ToSet(s)) /\ ToSet(s) \subseteq S
<1>1. s \in Seq(ToSet(s)) /\ DOMAIN s = 1..Len(s)
  BY DEF ToSet
<1>2. \A x \in ToSet(s) : \E n \in 1..Len(s) : s[n] = x
  BY <1>1 DEF ToSet
<1>3. IsFiniteSet(ToSet(s))
  BY <1>1, <1>2 DEF IsFiniteSet
<1>4. QED  BY <1>1, <1>3 DEF ToSet

(* Any order of a finite set is a sequence of its elements.                *)
LEMMA OrdersType ==
  ASSUME NEW S, IsFiniteSet(S), NEW q \in SetToSeqs(S)
  PROVE  q \in Seq(S)
BY FS_CardinalityType DEF SetToSeqs

(* A component's lines are visited as a sequence of lines.                 *)
LEMMA VisitType ==
  ASSUME NEW c \in Component,
         NEW q \in IF c.listed THEN {c.lines} ELSE SetToSeqs(ToSet(c.lines))
  PROVE  q \in Seq(Line)
<1>1. c.lines \in Seq(Line) /\ c.listed \in BOOLEAN  BY DEF Component
<1>2. CASE c.listed  BY <1>1, <1>2
<1>3. CASE ~c.listed
  <2>1. q \in Seq(ToSet(c.lines))  BY <1>1, <1>3, ToSetFinite, OrdersType
  <2>2. ToSet(c.lines) \subseteq Line  BY <1>1, ToSetFinite
  <2>3. QED  BY <2>1, <2>2
<1>4. QED  BY <1>1, <1>2, <1>3

(* What the design assumption says of the design of a state.               *)
LEMMA DesignFacts ==
  ASSUME TypeOK
  PROVE  /\ \A p \in design.pics : p \in Pic
         /\ \A pid \in Pids : piclist[pid] \in design.pics /\ piclist[pid].max \in Nat
         /\ \A p, q \in design.pics : p.name = q.name => p = q
         /\ \A c \in design.comps : c \in Component
         /\ IsFiniteSet(design.pics)
         /\ design.id \in [Line -> Int]
         /\ design.tags \in [Line -> Seq(PicName)]
<1>1. design \in Designs /\ piclist \in Seq(design.pics)  BY DEF TypeOK
<1>2. \A p \in design.pics : p \in Pic  BY <1>1, DesignsAssumption
<1>3. \A pid \in Pids : piclist[pid] \in design.pics  BY <1>1 DEF Pids
<1>4. \A pid \in Pids : piclist[pid].max \in Nat  BY <1>2, <1>3 DEF Pic
<1>5. QED  BY <1>1, <1>2, <1>3, <1>4, DesignsAssumption

-----------------------------------------------------------------------------
(* The inductive invariant.                                                *)
PicInv == VectorMatchesList /\ CountsFilled

(* Filling a free position of a vector with entry j of the list, which was *)
(* not placed before, keeps the vector, the list and the count in step.    *)
LEMMA FillKeeps ==
  ASSUME PicsOK, PicInv, UNCHANGED piclist,
         NEW pid \in Pids, piclist[pid].max \in Nat,
         NEW id \in Ids(pid), alist[pid][id] = 0,
         ilist' \in [Pids -> Seq(Entry)],
         NEW j \in 1..Len(ilist'[pid]), ilist'[pid][j].id = id,
         \A q \in Pids : q # pid => ilist'[q] = ilist[q],
         Len(ilist[pid]) <= Len(ilist'[pid]),
         \A k \in 1..Len(ilist'[pid]) : k # j =>
            k \in 1..Len(ilist[pid]) /\ ilist'[pid][k] = ilist[pid][k],
         j \in 1..Len(ilist[pid]) => ilist[pid][j].id >= piclist[pid].max,
         alist' = [alist EXCEPT ![pid][id] = j],
         nassigned' = [nassigned EXCEPT ![pid] = @ + 1]
  PROVE  /\ DOMAIN alist' = Pids
         /\ \A q \in Pids : alist'[q] \in [Ids(q) -> 0..Len(ilist'[q])]
         /\ PicInv'
<1>1. /\ DOMAIN alist' = Pids
      /\ \A q \in Pids : q # pid => alist'[q] = alist[q]
      /\ alist'[pid] = [alist[pid] EXCEPT ![id] = j]
  BY DEF PicsOK
<1>2. /\ Len(ilist[pid]) \in Nat /\ Len(ilist'[pid]) \in Nat
      /\ alist[pid] \in [Ids(pid) -> 0..Len(ilist[pid])]
      /\ ilist[pid] \in Seq(Entry) /\ ilist'[pid] \in Seq(Entry)
  BY DEF PicsOK
<1>3. /\ alist'[pid][id] = j
      /\ \A i \in Ids(pid) : i # id => alist'[pid][i] = alist[pid][i]
      /\ alist'[pid] \in [Ids(pid) -> 0..Len(ilist'[pid])]
  BY <1>1, <1>2
<1>4. \A q \in Pids : alist'[q] \in [Ids(q) -> 0..Len(ilist'[q])]
  BY <1>1, <1>3 DEF PicsOK
<1>5. Pids' = Pids /\ \A q \in Pids : Ids(q)' = Ids(q)
  BY DEF Pids, Ids
<1>6. VectorMatchesList'
  <2> SUFFICES ASSUME NEW q \in Pids
               PROVE  /\ \A i \in Ids(q) :
                           alist'[q][i] # 0 => ilist'[q][alist'[q][i]].id = i
                      /\ \A k \in 1..Len(ilist'[q]) :
                           ilist'[q][k].id < piclist[q].max =>
                             alist'[q][ilist'[q][k].id] = k
    BY <1>5 DEF VectorMatchesList
  <2>1. /\ \A i \in Ids(q) :
             alist[q][i] # 0 => ilist[q][alist[q][i]].id = i
        /\ \A k \in 1..Len(ilist[q]) :
             ilist[q][k].id < piclist[q].max => alist[q][ilist[q][k].id] = k
    BY DEF PicInv, VectorMatchesList
  <2>2. CASE q # pid  BY <2>1, <2>2, <1>1
  <2>3. CASE q = pid
    <3>1. ASSUME NEW i \in Ids(pid), alist'[pid][i] # 0
          PROVE  ilist'[pid][alist'[pid][i]].id = i
      <4>1. CASE i = id  BY <4>1, <1>3
      <4>2. CASE i # id
        <5>1. alist'[pid][i] = alist[pid][i] /\ alist[pid][i] \in 1..Len(ilist[pid])
          BY <4>2, <3>1, <1>2, <1>3
        <5>2. ilist[pid][alist[pid][i]].id = i  BY <2>1, <2>3, <5>1
        <5>3. i < piclist[pid].max  BY DEF Ids
        <5>4. alist[pid][i] # j
          <6> SUFFICES ASSUME alist[pid][i] = j PROVE FALSE  OBVIOUS
          <6>1. ilist[pid][j].id = i /\ ilist[pid][j].id >= piclist[pid].max
            BY <5>1, <5>2
          <6>2. i \in Int  BY DEF Ids
          <6>3. QED  BY <5>3, <6>1, <6>2
        <5>5. alist[pid][i] \in 1..Len(ilist'[pid])  BY <5>1, <1>2
        <5>6. QED  BY <5>1, <5>2, <5>4, <5>5
      <4>3. QED  BY <4>1, <4>2
    <3>2. ASSUME NEW k \in 1..Len(ilist'[pid]), ilist'[pid][k].id < piclist[pid].max
          PROVE  alist'[pid][ilist'[pid][k].id] = k
      <4>1. CASE k = j  BY <4>1, <1>3
      <4>2. CASE k # j
        <5>1. k \in 1..Len(ilist[pid]) /\ ilist'[pid][k] = ilist[pid][k]
          BY <4>2
        <5>2. alist[pid][ilist[pid][k].id] = k  BY <2>1, <2>3, <3>2, <5>1
        <5>3. ilist[pid][k].id \in Nat
          <6>1. ilist[pid][k] \in Entry  BY <1>2, <5>1
          <6>2. QED  BY <6>1 DEF Entry
        <5>4. ilist[pid][k].id \in Ids(pid)
          <6>1. ilist[pid][k].id < piclist[pid].max  BY <3>2, <5>1
          <6>2. QED  BY <5>3, <6>1 DEF Ids
        <5>5. k # 0  BY <5>1
        <5>6. ilist[pid][k].id # id  BY <5>2, <5>5
        <5>7. QED  BY <1>3, <5>1, <5>2, <5>4, <5>6
      <4>3. QED  BY <4>1, <4>2
    <3>3. QED  BY <2>3, <3>1, <3>2
  <2>4. QED  BY <2>2, <2>3
<1>7. CountsFilled'
  <2> DEFINE old(q) == {i \in Ids(q) : alist[q][i] # 0}
             new(q) == {i \in Ids(q) : alist'[q][i] # 0}
  <2>1. \A q \in Pids : nassigned[q] = Cardinality(old(q))
    BY DEF PicInv, CountsFilled
  <2>2. \A q \in Pids : q # pid => nassigned'[q] = Cardinality(new(q))
    BY <1>1, <2>1 DEF PicsOK
  <2>3. new(pid) = old(pid) \cup {id} /\ id \notin old(pid)
    BY <1>2, <1>3
  <2>4. IsFiniteSet(old(pid))
    <3>1. IsFiniteSet(Ids(pid))
      <4>1. 0 \in Int /\ piclist[pid].max - 1 \in Int  OBVIOUS
      <4>2. QED  BY <4>1, FS_Interval DEF Ids
    <3>2. old(pid) \in SUBSET Ids(pid)  OBVIOUS
    <3>3. QED  BY <3>1, <3>2, FS_Subset
  <2>5. Cardinality(new(pid)) = Cardinality(old(pid)) + 1
    <3>1. \A S : IsFiniteSet(S) /\ id \notin S =>
                Cardinality(S \cup {id}) = Cardinality(S) + 1
      BY FS_AddElement
    <3> HIDE DEF old, new
    <3>2. QED  BY <2>3, <2>4, <3>1
  <2>6. nassigned'[pid] = Cardinality(new(pid))
    <3>1. nassigned'[pid] = nassigned[pid] + 1  BY DEF PicsOK
    <3>2. nassigned[pid] = Cardinality(old(pid))  BY <2>1
    <3>3. QED  BY <3>1, <3>2, <2>5
  <2>7. \A q \in Pids : nassigned'[q] = Cardinality(new(q))  BY <2>2, <2>6
  <2>8. QED  BY <1>5, <2>7 DEF CountsFilled
<1>8. QED  BY <1>1, <1>4, <1>6, <1>7 DEF PicInv

(* PICINFO::add() of a line with an ID.                                    *)
LEMMA EnterKeeps ==
  ASSUME PicsOK, PicInv, UNCHANGED piclist, line \in Line,
         NEW pid \in Pids, piclist[pid].max \in Nat,
         NEW id \in Ids(pid), alist[pid][id] = 0, Enter(pid, id)
  PROVE  PicsOK' /\ PicInv'
<1> DEFINE e == [line |-> line, id |-> id]
           n == Len(ilist[pid]) + 1
<1>1. id \in Nat  BY DEF Ids
<1>2. e \in Entry  BY <1>1 DEF Entry
<1>3. ilist[pid] \in Seq(Entry) /\ n \in Nat  BY DEF PicsOK
<1>4. Append(ilist[pid], e) \in Seq(Entry)  BY <1>2, <1>3
<1>5. /\ ilist' \in [Pids -> Seq(Entry)]
      /\ ilist'[pid] = Append(ilist[pid], e)
      /\ \A q \in Pids : q # pid => ilist'[q] = ilist[q]
  BY <1>4 DEF PicsOK, Enter
<1>6. /\ Len(ilist'[pid]) = n /\ ilist'[pid][n] = e
      /\ \A k \in 1..n : k # n =>
            k \in 1..Len(ilist[pid]) /\ ilist'[pid][k] = ilist[pid][k]
  BY <1>2, <1>3, <1>5
<1>7. alist' = [alist EXCEPT ![pid][id] = n] /\ nassigned' = [nassigned EXCEPT ![pid] = @ + 1]
  BY DEF Enter
<1>8. e.id = id  OBVIOUS
<1>9. n \in 1..Len(ilist'[pid])  BY <1>3, <1>6
<1>10. /\ DOMAIN alist' = Pids
       /\ \A q \in Pids : alist'[q] \in [Ids(q) -> 0..Len(ilist'[q])]
       /\ PicInv'
  <2>1. n \in 1..Len(ilist[pid]) => ilist[pid][n].id >= piclist[pid].max
    BY <1>3
  <2>2. /\ ilist'[pid][n].id = id
        /\ Len(ilist[pid]) <= Len(ilist'[pid])
    BY <1>3, <1>6
  <2>3. \A k \in 1..Len(ilist'[pid]) : k # n =>
              k \in 1..Len(ilist[pid]) /\ ilist'[pid][k] = ilist[pid][k]
    BY <1>6
  <2>4. /\ ilist' \in [Pids -> Seq(Entry)]
        /\ \A q \in Pids : q # pid => ilist'[q] = ilist[q]
    BY <1>5
  <2> HIDE DEF n
  <2>5. QED  BY <1>7, <1>9, <2>1, <2>2, <2>3, <2>4, FillKeeps
<1>11. nassigned' \in [Pids -> Nat] /\ nallocated' \in [Pids -> Nat]
  BY DEF PicsOK, Enter
<1>12. Pids' = Pids /\ \A q \in Pids : Ids(q)' = Ids(q)  BY DEF Pids, Ids
<1>13. QED  BY <1>5, <1>10, <1>11, <1>12 DEF PicsOK

(* PICINFO::add() of a line without one.                                   *)
LEMMA WaitKeeps ==
  ASSUME PicsOK, PicInv, UNCHANGED piclist, line \in Line,
         NEW pid \in Pids, piclist[pid].max \in Nat, Wait(pid)
  PROVE  PicsOK' /\ PicInv'
<1> DEFINE e == [line |-> line, id |-> piclist[pid].max]
<1>1. e \in Entry  BY DEF Entry
<1>2. ilist[pid] \in Seq(Entry)  BY DEF PicsOK
<1>3. /\ ilist' \in [Pids -> Seq(Entry)]
      /\ ilist'[pid] = Append(ilist[pid], e)
      /\ \A q \in Pids : q # pid => ilist'[q] = ilist[q]
  BY <1>1, <1>2 DEF PicsOK, Wait
<1>4. /\ Len(ilist'[pid]) = Len(ilist[pid]) + 1
      /\ ilist'[pid][Len(ilist[pid]) + 1].id = piclist[pid].max
      /\ \A k \in 1..Len(ilist[pid]) : ilist'[pid][k] = ilist[pid][k]
  BY <1>1, <1>2, <1>3
<1>5. Pids' = Pids /\ \A q \in Pids : Ids(q)' = Ids(q)  BY DEF Pids, Ids
<1>6. alist' = alist /\ nassigned' = nassigned /\ nallocated' \in [Pids -> Nat]
  BY DEF PicsOK, Wait
<1>7. \A q \in Pids : alist[q] \in [Ids(q) -> 0..Len(ilist'[q])]
  <2> SUFFICES ASSUME NEW q \in Pids PROVE alist[q] \in [Ids(q) -> 0..Len(ilist'[q])]
    OBVIOUS
  <2>1. alist[q] \in [Ids(q) -> 0..Len(ilist[q])] /\ Len(ilist[q]) \in Nat
    BY DEF PicsOK
  <2>2. Len(ilist[q]) <= Len(ilist'[q]) /\ Len(ilist'[q]) \in Nat
    BY <1>2, <1>3, <1>4, <2>1
  <2>3. QED  BY <2>1, <2>2
<1>8. PicsOK'  BY <1>3, <1>5, <1>6, <1>7 DEF PicsOK
<1>9. VectorMatchesList'
  <2> SUFFICES ASSUME NEW q \in Pids
               PROVE  /\ \A i \in Ids(q) :
                           alist[q][i] # 0 => ilist'[q][alist[q][i]].id = i
                      /\ \A k \in 1..Len(ilist'[q]) :
                           ilist'[q][k].id < piclist[q].max =>
                             alist[q][ilist'[q][k].id] = k
    BY <1>5, <1>6 DEF VectorMatchesList
  <2>1. /\ \A i \in Ids(q) :
             alist[q][i] # 0 => ilist[q][alist[q][i]].id = i
        /\ \A k \in 1..Len(ilist[q]) :
             ilist[q][k].id < piclist[q].max => alist[q][ilist[q][k].id] = k
    BY DEF PicInv, VectorMatchesList
  <2>2. alist[q] \in [Ids(q) -> 0..Len(ilist[q])] /\ Len(ilist[q]) \in Nat
    BY DEF PicsOK
  <2>3. CASE q # pid  BY <1>3, <2>1, <2>3
  <2>4. CASE q = pid
    <3>1. \A i \in Ids(pid) : alist[pid][i] # 0 => alist[pid][i] \in 1..Len(ilist[pid])
      BY <2>2, <2>4
    <3>2. \A i \in Ids(pid) : alist[pid][i] # 0 => ilist'[pid][alist[pid][i]].id = i
      BY <1>4, <2>1, <2>4, <3>1
    <3>3. \A k \in 1..Len(ilist'[pid]) :
            ilist'[pid][k].id < piclist[pid].max => k \in 1..Len(ilist[pid])
      BY <1>4, <2>2, <2>4
    <3>4. \A k \in 1..Len(ilist'[pid]) :
            ilist'[pid][k].id < piclist[pid].max => alist[pid][ilist'[pid][k].id] = k
      BY <1>4, <2>1, <2>4, <3>3
    <3>5. QED  BY <2>4, <3>2, <3>4
  <2>5. QED  BY <2>3, <2>4
<1>10. CountsFilled'
  BY <1>5, <1>6 DEF PicInv, CountsFilled
<1>11. QED  BY <1>8, <1>9, <1>10 DEF PicInv

(* One turn of the loop of assignids() that finds a line.                  *)
LEMMA PlaceKeeps ==
  ASSUME PicsOK, PicInv, UNCHANGED <<piclist, nallocated>>,
         picid \in Pids, piclist[picid].max \in Nat,
         iid \in Ids(picid), alist[picid][iid] = 0,
         NEW uid \in Unassigned(picid), Place(uid)
  PROVE  PicsOK' /\ PicInv'
<1>1. ilist[picid] \in Seq(Entry) /\ uid \in 1..Len(ilist[picid])
  BY DEF PicsOK, Unassigned
<1>2. iid \in Nat  BY DEF Ids
<1>3. ilist[picid][uid] \in Entry  BY <1>1
<1>4. [ilist[picid][uid] EXCEPT !.id = iid] \in Entry  BY <1>2, <1>3 DEF Entry
<1>5. /\ ilist' \in [Pids -> Seq(Entry)]
      /\ ilist'[picid] = [ilist[picid] EXCEPT ![uid] = [ilist[picid][uid] EXCEPT !.id = iid]]
      /\ \A q \in Pids : q # picid => ilist'[q] = ilist[q]
  <2>1. ilist' = [ilist EXCEPT ![picid] =
                    [ilist[picid] EXCEPT ![uid] = [ilist[picid][uid] EXCEPT !.id = iid]]]
    BY DEF Place
  <2>2. [ilist[picid] EXCEPT ![uid] = [ilist[picid][uid] EXCEPT !.id = iid]] \in Seq(Entry)
    BY <1>1, <1>4
  <2>3. QED  BY <2>1, <2>2 DEF PicsOK
<1>6. /\ Len(ilist'[picid]) = Len(ilist[picid])
      /\ ilist'[picid][uid] = [ilist[picid][uid] EXCEPT !.id = iid]
      /\ \A k \in 1..Len(ilist[picid]) : k # uid => ilist'[picid][k] = ilist[picid][k]
  BY <1>1, <1>5
<1>7. ilist'[picid][uid].id = iid  BY <1>3, <1>6 DEF Entry
<1>8. ilist[picid][uid].id >= piclist[picid].max  BY DEF Unassigned
<1>9. /\ alist' = [alist EXCEPT ![picid][iid] = uid]
      /\ nassigned' = [nassigned EXCEPT ![picid] = @ + 1]
  BY DEF Place
<1>10. uid \in 1..Len(ilist'[picid])  BY <1>1, <1>6
<1>11. /\ DOMAIN alist' = Pids
       /\ \A q \in Pids : alist'[q] \in [Ids(q) -> 0..Len(ilist'[q])]
       /\ PicInv'
  <2>1. /\ Len(ilist[picid]) <= Len(ilist'[picid])
        /\ \A k \in 1..Len(ilist'[picid]) : k # uid =>
              k \in 1..Len(ilist[picid]) /\ ilist'[picid][k] = ilist[picid][k]
    BY <1>1, <1>6
  <2>2. QED  BY <1>5, <1>7, <1>8, <1>9, <1>10, <2>1, FillKeeps
<1>12. nassigned' \in [Pids -> Nat] /\ nallocated' \in [Pids -> Nat]
  BY DEF PicsOK, Place
<1>13. Pids' = Pids /\ \A q \in Pids : Ids(q)' = Ids(q)  BY DEF Pids, Ids
<1>14. QED  BY <1>5, <1>11, <1>12, <1>13 DEF PicsOK
-----------------------------------------------------------------------------
Inv == TypeOK /\ PicInv

(* The controllers as they are found: empty lists, empty vectors.          *)
LEMMA GatherKeeps ==
  ASSUME Inv, GatherPics
  PROVE  Inv'
<1>1. IsFiniteSet(design.pics) /\ \A p \in design.pics : p \in Pic
  BY DesignFacts DEF Inv
<1>2. piclist' \in Seq(design.pics)
  BY <1>1, OrdersType DEF GatherPics
<1>3. /\ Pids' = 1..Len(piclist')
      /\ \A q \in Pids' : Ids(q)' = 0..(piclist'[q].max - 1)
  BY DEF Pids, Ids
<1>4. /\ ilist' = [q \in Pids' |-> <<>>]
      /\ alist' = [q \in Pids' |-> [id \in Ids(q)' |-> 0]]
      /\ nassigned' = [q \in Pids' |-> 0] /\ nallocated' = nassigned'
  BY <1>3 DEF GatherPics
<1>5. PicsOK'
  <2>1. ilist' \in [Pids' -> Seq(Entry')]  BY <1>4
  <2>2. \A q \in Pids' : Len(ilist'[q]) = 0 /\ alist'[q] \in [Ids(q)' -> 0..0]
    BY <1>4
  <2>3. \A q \in Pids' : alist'[q] \in [Ids(q)' -> 0..Len(ilist'[q])]  BY <2>2
  <2>4. QED  BY <1>4, <2>1, <2>3 DEF PicsOK
<1>6. TypeOK'
  BY <1>2, <1>5 DEF Inv, TypeOK, GatherPics, visitvars, assignvars
<1>7. VectorMatchesList'
  BY <1>3, <1>4 DEF VectorMatchesList
<1>8. CountsFilled'
  <2>1. \A q \in Pids' : {id \in Ids(q)' : alist'[q][id] # 0} = {}  BY <1>4
  <2>2. QED  BY <1>4, <2>1, FS_EmptySet DEF CountsFilled
<1>9. QED  BY <1>6, <1>7, <1>8 DEF Inv, PicInv

(* A step that leaves the controllers alone keeps what is said of them.    *)
LEMMA PicsUntouched ==
  ASSUME PicsOK, PicInv, UNCHANGED <<piclist, ilist, alist, nassigned, nallocated>>
  PROVE  PicsOK' /\ PicInv'
BY DEF PicsOK, PicInv, VectorMatchesList, CountsFilled, Pids, Ids

(* Both forms of PICINFO::add().                                           *)
LEMMA AddKeeps ==
  ASSUME Inv, AddToPic
  PROVE  Inv'
<1>1. PicsOK /\ PicInv /\ toks \in Seq(PicName)  BY DEF Inv, TypeOK
<1>2. PICK pid \in Pids :
        IF HasId(line) THEN AddWithId(pid, design.id[line]) ELSE AddUnassigned(pid)
  BY DEF AddToPic
<1>3. UNCHANGED <<design, pc, piclist, todo, queue, line, picid, iid, ident>>
  BY DEF AddToPic, visitvars, assignvars
<1>4. piclist[pid].max \in Nat /\ design.id \in [Line -> Int]
  BY DesignFacts DEF Inv
<1>5. line \in Line
  BY DEF Inv, TypeOK, AddToPic
<1>6. PicsOK' /\ PicInv'
  <2>1. CASE UNCHANGED picvars
    BY <2>1, <1>1, <1>3, PicsUntouched DEF picvars
  <2>2. CASE HasId(line) /\ ~UNCHANGED picvars
    <3>1. /\ ~(design.id[line] >= piclist[pid].max)
          /\ alist[pid][design.id[line]] = 0
          /\ Enter(pid, design.id[line])
      BY <1>2, <2>2 DEF AddWithId
    <3>2. design.id[line] \in Ids(pid)
      BY <1>4, <1>5, <2>2, <3>1 DEF HasId, Ids
    <3>3. QED  BY <1>1, <1>3, <1>4, <1>5, <3>1, <3>2, EnterKeeps
  <2>3. CASE ~HasId(line) /\ ~UNCHANGED picvars
    <3>1. Wait(pid)  BY <1>2, <2>3 DEF AddUnassigned
    <3>2. QED  BY <1>1, <1>3, <1>4, <1>5, <3>1, WaitKeeps
  <2>4. QED  BY <2>1, <2>2, <2>3
<1>7. toks' \in Seq(PicName)  BY <1>1 DEF AddToPic
<1>8. pc = "add"  BY DEF AddToPic
<1>9. TypeOK'  BY <1>3, <1>5, <1>6, <1>7, <1>8 DEF Inv, TypeOK, Pids
<1>10. QED  BY <1>6, <1>9 DEF Inv

(* The body of assignids()'s first loop.                                   *)
LEMMA AssignKeeps ==
  ASSUME Inv, AssignId
  PROVE  Inv'
<1>1. /\ PicsOK /\ PicInv /\ picid \in Pids /\ iid \in Nat /\ pc = "assign"
      /\ iid < piclist[picid].max
  BY DEF Inv, TypeOK, AssignId
<1>2. piclist[picid].max \in Nat  BY <1>1, DesignFacts DEF Inv
<1>3. UNCHANGED <<design, pc, piclist, todo, queue, line, toks, nallocated, picid, ident>>
  BY DEF AssignId, visitvars
<1>4. iid \in Ids(picid)  BY <1>1, <1>2 DEF Ids
<1>5. PicsOK' /\ PicInv'
  <2>1. CASE UNCHANGED <<ilist, alist, nassigned>>
    BY <2>1, <1>1, <1>3, PicsUntouched
  <2>2. CASE ~UNCHANGED <<ilist, alist, nassigned>>
    <3>1. /\ alist[picid][iid] = 0
          /\ \E uid \in Unassigned(picid) : Place(uid)
      BY <2>2 DEF AssignId, FillPosition
    <3>2. PICK uid \in Unassigned(picid) : Place(uid)  BY <3>1
    <3>3. QED  BY <1>1, <1>2, <1>3, <1>4, <3>1, <3>2, PlaceKeeps
  <2>3. QED  BY <2>1, <2>2
<1>6. iid' = iid + 1 /\ iid' \in Nat /\ iid' <= piclist'[picid].max
  BY <1>1, <1>2, <1>3 DEF AssignId
<1>7. TypeOK'  BY <1>1, <1>3, <1>5, <1>6 DEF Inv, TypeOK, Pids
<1>8. QED  BY <1>5, <1>7 DEF Inv

(* The body of its second one: a number goes into the map of a line.       *)
LEMMA WriteKeeps ==
  ASSUME Inv, WriteBack
  PROVE  Inv'
<1>1. /\ PicsOK /\ PicInv /\ picid \in Pids /\ iid \in Nat /\ pc = "write"
      /\ iid < Len(ilist[picid]) /\ ident \in [Line -> [PicName -> Nat \cup {NoId}]]
  BY DEF Inv, TypeOK, WriteBack
<1>2. UNCHANGED <<design, pc, piclist, todo, queue, line, toks, picid>> /\ UNCHANGED picvars
  BY DEF WriteBack, visitvars
<1>3. PicsOK' /\ PicInv'
  BY <1>1, <1>2, PicsUntouched DEF picvars
<1>4. ilist[picid] \in Seq(Entry) /\ ilist'[picid] = ilist[picid]
  BY <1>1, <1>2 DEF PicsOK, picvars
<1>5. iid' \in Nat /\ iid' <= Len(ilist'[picid]) /\ iid + 1 \in 1..Len(ilist[picid])
  BY <1>1, <1>4 DEF WriteBack
<1>6. ident' \in [Line -> [PicName -> Nat \cup {NoId}]]
  <2>1. CASE UNCHANGED ident  BY <2>1, <1>1
  <2>2. CASE SetValue(picid, iid + 1)
    <3>1. ilist[picid][iid + 1] \in Entry  BY <1>4, <1>5
    <3>2. ilist[picid][iid + 1].id \in Nat  BY <3>1 DEF Entry
    <3> DEFINE l == ilist[picid][iid + 1].line
               n == piclist[picid].name
               f == [ident[l] EXCEPT ![n] = IF @ = NoId THEN ilist[picid][iid + 1].id ELSE @]
    <3>3. l \in Line  BY <3>1 DEF Entry
    <3>4. f \in [PicName -> Nat \cup {NoId}]  BY <1>1, <3>2, <3>3
    <3>5. ident' = [ident EXCEPT ![l] = f]  BY <2>2 DEF SetValue
    <3> HIDE DEF f, l
    <3>6. QED  BY <1>1, <3>4, <3>5
  <2>3. QED  BY <2>1, <2>2 DEF WriteBack
<1>7. TypeOK'  BY <1>1, <1>2, <1>3, <1>5, <1>6 DEF Inv, TypeOK, Pids
<1>8. QED  BY <1>3, <1>7 DEF Inv

(* Every step keeps the invariant.                                         *)
LEMMA StepKeeps ==
  ASSUME Inv, [Next]_vars
  PROVE  Inv'
<1>0. TypeOK /\ PicsOK /\ PicInv  BY DEF Inv, TypeOK
<1>1. CASE GatherPics  BY <1>1, GatherKeeps
<1>2. CASE AddToPic  BY <1>2, AddKeeps
<1>3. CASE AssignId  BY <1>3, AssignKeeps
<1>4. CASE WriteBack  BY <1>4, WriteKeeps
<1>5. ASSUME UNCHANGED <<piclist, ilist, alist, nassigned, nallocated>>, TypeOK'
      PROVE  Inv'
  BY <1>0, <1>5, PicsUntouched DEF Inv
<1>6. CASE NextComponent
  <2>1. PICK c \in todo : queue' \in IF c.listed THEN {c.lines} ELSE SetToSeqs(ToSet(c.lines))
    BY <1>6 DEF NextComponent
  <2>2. c \in Component  BY <1>0, DesignFacts DEF TypeOK
  <2>3. queue' \in Seq(Line)  BY <2>1, <2>2, VisitType
  <2>4. todo' \subseteq todo  BY <1>6 DEF NextComponent
  <2>5. PicsOK'  BY <1>0, <1>6, PicsUntouched DEF NextComponent, picvars
  <2>6. TypeOK'
    BY <1>0, <1>6, <2>3, <2>4, <2>5 DEF NextComponent, TypeOK, picvars, assignvars, Pids
  <2>7. QED  BY <1>5, <1>6, <2>6 DEF NextComponent, picvars
<1>7. CASE NextLine
  <2>1. queue \in Seq(Line) /\ queue # <<>>  BY <1>0, <1>7 DEF NextLine, TypeOK
  <2>2. line' \in Line /\ queue' \in Seq(Line)  BY <1>7, <2>1 DEF NextLine
  <2>3. toks' \in Seq(PicName)
    BY <1>0, <1>7, <2>2, DesignFacts DEF NextLine
  <2>4. PicsOK'  BY <1>0, <1>7, PicsUntouched DEF NextLine, picvars
  <2>5. TypeOK'
    BY <1>0, <1>7, <2>2, <2>3, <2>4 DEF NextLine, TypeOK, picvars, assignvars, Pids
  <2>6. QED  BY <1>5, <1>7, <2>5 DEF NextLine, picvars
<1>8. CASE PicNotFound
  <2>1. toks' \in Seq(PicName) /\ line \in Line
    BY <1>0, <1>8 DEF PicNotFound, TypeOK
  <2>2. PicsOK'  BY <1>0, <1>8, PicsUntouched DEF PicNotFound, picvars
  <2>3. TypeOK'
    BY <1>0, <1>8, <2>1, <2>2 DEF PicNotFound, TypeOK, visitvars, picvars, assignvars, Pids
  <2>4. QED  BY <1>5, <1>8, <2>3 DEF PicNotFound, picvars
<1>9. CASE StartAssign
  <2>1. PicsOK'  BY <1>0, <1>9, PicsUntouched DEF StartAssign, picvars
  <2>2. TypeOK'
    <3>1. piclist # <<>> => 1 \in Pids /\ 0 <= piclist[1].max
      <4>1. piclist \in Seq(design.pics)  BY <1>0 DEF TypeOK
      <4>2. piclist # <<>> => 1 \in Pids  BY <4>1 DEF Pids
      <4>3. QED  BY <1>0, <4>2, DesignFacts
    <3>2. QED
      BY <1>0, <1>9, <2>1, <3>1
         DEF StartAssign, TypeOK, visitvars, picvars, assignvars, Pids
  <2>3. QED  BY <1>5, <1>9, <2>2 DEF StartAssign, picvars
<1>10. CASE AllIdsTried
  <2>1. PicsOK'  BY <1>0, <1>10, PicsUntouched DEF AllIdsTried, picvars
  <2>2. TypeOK'
    <3>1. picid \in Pids  BY <1>0, <1>10 DEF AllIdsTried, TypeOK
    <3>2. 0 <= Len(ilist[picid])
      <4>1. ilist[picid] \in Seq(Entry)  BY <1>0, <3>1 DEF PicsOK
      <4>2. QED  BY <4>1
    <3>3. QED
      BY <1>0, <1>10, <2>1, <3>1, <3>2 DEF AllIdsTried, TypeOK, visitvars, picvars, Pids
  <2>3. QED  BY <1>5, <1>10, <2>2 DEF AllIdsTried, picvars
<1>11. CASE NextPic
  <2>1. PicsOK'  BY <1>0, <1>11, PicsUntouched DEF NextPic, picvars
  <2>2. TypeOK'
    <3>1. picid \in Pids /\ piclist \in Seq(design.pics)
      BY <1>0, <1>11 DEF NextPic, TypeOK
    <3>2. picid # Len(piclist) => picid + 1 \in Pids  BY <3>1 DEF Pids
    <3>3. picid # Len(piclist) => 0 <= piclist[picid + 1].max
      BY <1>0, <3>2, DesignFacts
    <3>4. picid + 1 \in Nat \ {0}  BY <3>1 DEF Pids
    <3>5. QED
      BY <1>0, <1>11, <2>1, <3>2, <3>3, <3>4
         DEF NextPic, TypeOK, visitvars, picvars, Pids
  <2>3. QED  BY <1>5, <1>11, <2>2 DEF NextPic, picvars
<1>12. CASE UNCHANGED vars
  <2>1. PicsOK'  BY <1>0, <1>12, PicsUntouched DEF vars
  <2>2. TypeOK'  BY <1>0, <1>12, <2>1 DEF vars, TypeOK, Pids
  <2>3. QED  BY <1>5, <1>12, <2>2 DEF vars
<1>13. QED
  BY <1>1, <1>2, <1>3, <1>4, <1>6, <1>7, <1>8, <1>9, <1>10, <1>11, <1>12 DEF Next

(* The types, the agreement of vector and list, and the count hold of      *)
(* every assignment of interrupts.                                         *)
THEOREM InvCorrect == Spec => []Inv
<1>1. Init => Inv
  <2> SUFFICES ASSUME Init PROVE Inv  OBVIOUS
  <2>1. Pids = {}  BY DEF Init, Pids
  <2>2. PicsOK
    BY <2>1 DEF Init, PicsOK
  <2>3. design.comps \subseteq design.comps /\ <<>> \in Seq(design.pics)
    OBVIOUS
  <2>4. TypeOK  BY <2>2, <2>3 DEF Init, TypeOK, NoId
  <2>5. PicInv  BY <2>1 DEF PicInv, VectorMatchesList, CountsFilled
  <2>6. QED  BY <2>4, <2>5 DEF Inv
<1>2. Inv /\ [Next]_vars => Inv'  BY StepKeeps
<1>3. QED  BY <1>1, <1>2, PTL DEF Spec

(* Every variable has its type: in particular add() and assignids() never  *)
(* write a vector beyond its end.                                          *)
THEOREM TypeCorrect == Spec => []TypeOK
BY InvCorrect, PTL DEF Inv

(* The interrupt vector, from which main.v is wired, and the list, from    *)
(* which the IDs are written back, never disagree.                         *)
THEOREM VectorAgrees == Spec => []VectorMatchesList
BY InvCorrect, PTL DEF Inv, PicInv

(* i_nassigned is the number of filled positions.                          *)
THEOREM CountsAgree == Spec => []CountsFilled
BY InvCorrect, PTL DEF Inv, PicInv
-----------------------------------------------------------------------------
(* What a step may do to the list and to the vector of a controller once   *)
(* the controllers are found.  Entries stay, with their lines; only one    *)
(* that waits is given a new id, and only a free one; an entry is new only *)
(* while lines are added; a position that is filled stays as it is.        *)
ListStep(pid) ==
  /\ Len(ilist[pid]) <= Len(ilist'[pid])
  /\ \A j \in 1..Len(ilist[pid]) :
       /\ ilist'[pid][j].line = ilist[pid][j].line
       /\ \/ ilist'[pid][j].id = ilist[pid][j].id
          \/ /\ pc = "assign" /\ pid = picid
             /\ ilist[pid][j].id >= piclist[pid].max
  /\ \A j \in 1..Len(ilist'[pid]) : j > Len(ilist[pid]) =>
       /\ pc = "add"
       /\ ilist'[pid][j].id =
            IF HasId(ilist'[pid][j].line) THEN design.id[ilist'[pid][j].line]
                                          ELSE piclist[pid].max
       /\ HasId(ilist'[pid][j].line) => ilist'[pid][j].id < piclist[pid].max
  /\ \A i \in Ids(pid) : alist[pid][i] # 0 => alist'[pid][i] = alist[pid][i]

LEMMA ListStepSame ==
  ASSUME Inv, NEW pid \in Pids, UNCHANGED <<ilist, alist>>
  PROVE  ListStep(pid)
<1>1. ilist[pid] \in Seq(Entry)  BY DEF Inv, TypeOK, PicsOK
<1>2. Len(ilist[pid]) \in Nat /\ ilist'[pid] = ilist[pid]  BY <1>1
<1>3. QED  BY <1>2 DEF ListStep

LEMMA ListStepAppend ==
  ASSUME Inv, NEW pid \in Pids, NEW q \in Pids, pc = "add", line \in Line,
         NEW id \in Nat,
         \/ alist' = alist
         \/ alist[q][id] = 0 /\ alist' = [alist EXCEPT ![q][id] = Len(ilist[q]) + 1],
         ilist' = [ilist EXCEPT ![q] = Append(@, [line |-> line, id |-> id])],
         id = IF HasId(line) THEN design.id[line] ELSE piclist[q].max,
         HasId(line) => id < piclist[q].max
  PROVE  ListStep(pid)
<1>1. ilist[pid] \in Seq(Entry) /\ ilist \in [Pids -> Seq(Entry)] /\ DOMAIN alist = Pids
  BY DEF Inv, TypeOK, PicsOK
<1>2. CASE pid # q
  <2>1. ilist'[pid] = ilist[pid] /\ alist'[pid] = alist[pid] /\ Len(ilist[pid]) \in Nat
    BY <1>1, <1>2
  <2>2. QED  BY <2>1 DEF ListStep
<1>3. CASE pid = q
  <2> DEFINE e == [line |-> line, id |-> id]
  <2>1. e \in Entry /\ e.line = line /\ e.id = id  BY DEF Entry
  <2>2. ilist'[pid] = Append(ilist[pid], e)  BY <1>1, <1>3
  <2> HIDE DEF e
  <2>3. /\ Len(ilist[pid]) \in Nat /\ Len(ilist'[pid]) = Len(ilist[pid]) + 1
        /\ \A j \in 1..Len(ilist[pid]) : ilist'[pid][j] = ilist[pid][j]
        /\ \A j \in 1..Len(ilist'[pid]) : j > Len(ilist[pid]) => ilist'[pid][j] = e
    BY <1>1, <2>1, <2>2
  <2>4. \A i \in Ids(pid) : alist[pid][i] # 0 => alist'[pid][i] = alist[pid][i]
    <3>1. DOMAIN alist[pid] = Ids(pid)  BY DEF Inv, TypeOK, PicsOK
    <3>2. QED  BY <1>1, <1>3, <3>1
  <2>5. QED  BY <1>3, <2>1, <2>3, <2>4 DEF ListStep
<1>4. QED  BY <1>2, <1>3

LEMMA ListStepPlace ==
  ASSUME Inv, NEW pid \in Pids, pc = "assign", picid \in Pids, iid \in Ids(picid),
         alist[picid][iid] = 0, NEW uid \in Unassigned(picid), Place(uid)
  PROVE  ListStep(pid)
<1>1. /\ ilist \in [Pids -> Seq(Entry)] /\ DOMAIN alist = Pids
      /\ Len(ilist[pid]) \in Nat
  BY DEF Inv, TypeOK, PicsOK
<1>2. /\ ilist' = [ilist EXCEPT ![picid][uid].id = iid]
      /\ alist' = [alist EXCEPT ![picid][iid] = uid]
  BY DEF Place
<1>3. CASE pid # picid
  <2>1. ilist'[pid] = ilist[pid] /\ alist'[pid] = alist[pid]
    BY <1>1, <1>2, <1>3
  <2>2. QED  BY <1>1, <2>1 DEF ListStep
<1>4. CASE pid = picid
  <2>1. uid \in 1..Len(ilist[pid]) /\ ilist[pid][uid].id >= piclist[pid].max
    BY <1>4 DEF Unassigned
  <2>2. ilist[pid] \in Seq(Entry) /\ ilist[pid][uid] \in Entry  BY <1>1, <2>1
  <2>3. ilist'[pid] = [ilist[pid] EXCEPT ![uid] = [ilist[pid][uid] EXCEPT !.id = iid]]
    BY <1>1, <1>2, <1>4
  <2>4. /\ Len(ilist'[pid]) = Len(ilist[pid])
        /\ ilist'[pid][uid].line = ilist[pid][uid].line
        /\ \A j \in 1..Len(ilist[pid]) : j # uid => ilist'[pid][j] = ilist[pid][j]
    BY <2>1, <2>2, <2>3 DEF Entry
  <2>5. \A i \in Ids(pid) : alist[pid][i] # 0 => alist'[pid][i] = alist[pid][i]
    BY <1>1, <1>2, <1>4
  <2>6. QED  BY <1>1, <1>4, <2>1, <2>4, <2>5 DEF ListStep
<1>5. QED  BY <1>3, <1>4

LEMMA ListStepTaken ==
  ASSUME Inv, [Next]_vars, pc # "gather", NEW pid \in Pids
  PROVE  UNCHANGED <<design, piclist>> /\ ListStep(pid)
<1>1. CASE AddToPic
  <2>1. PICK q \in Pids :
          IF HasId(line) THEN AddWithId(q, design.id[line]) ELSE AddUnassigned(q)
    BY <1>1 DEF AddToPic
  <2>2. /\ pc = "add" /\ UNCHANGED <<design, piclist>> /\ line \in Line
    BY <1>1 DEF AddToPic, Inv, TypeOK
  <2>3. piclist[q].max \in Nat /\ design.id \in [Line -> Int]
    BY DesignFacts DEF Inv
  <2>4. CASE UNCHANGED picvars  BY <2>2, <2>4, ListStepSame DEF picvars
  <2>5. CASE HasId(line) /\ ~UNCHANGED picvars
    <3> DEFINE id == design.id[line]
    <3>1. ~(id >= piclist[q].max) /\ alist[q][id] = 0 /\ Enter(q, id)
      BY <2>1, <2>5 DEF AddWithId
    <3>2. id \in Nat /\ id \in Ids(q) /\ id < piclist[q].max
      BY <2>2, <2>3, <2>5, <3>1 DEF HasId, Ids
    <3>3. /\ ilist' = [ilist EXCEPT ![q] = Append(@, [line |-> line, id |-> id])]
          /\ alist' = [alist EXCEPT ![q][id] = Len(ilist[q]) + 1]
      BY <3>1 DEF Enter
    <3>4. id = IF HasId(line) THEN design.id[line] ELSE piclist[q].max  BY <2>5
    <3> HIDE DEF id
    <3>5. QED  BY <2>2, <3>1, <3>2, <3>3, <3>4, ListStepAppend
  <2>6. CASE ~HasId(line) /\ ~UNCHANGED picvars
    <3> DEFINE id == piclist[q].max
    <3>1. Wait(q)  BY <2>1, <2>6 DEF AddUnassigned
    <3>2. /\ ilist' = [ilist EXCEPT ![q] = Append(@, [line |-> line, id |-> id])]
          /\ alist' = alist
      BY <3>1 DEF Wait
    <3>3. id \in Nat /\ id = IF HasId(line) THEN design.id[line] ELSE piclist[q].max
      BY <2>3, <2>6
    <3> HIDE DEF id
    <3>4. HasId(line) => id < piclist[q].max  BY <2>6
    <3>5. ListStep(pid)  BY <2>2, <3>2, <3>3, <3>4, ListStepAppend
    <3>6. QED  BY <2>2, <3>5
  <2>7. QED  BY <2>4, <2>5, <2>6
<1>2. CASE AssignId
  <2>1. /\ pc = "assign" /\ picid \in Pids /\ UNCHANGED <<design, piclist>>
        /\ iid \in Nat /\ iid < piclist[picid].max /\ piclist[picid].max \in Nat
    BY <1>2, DesignFacts DEF AssignId, Inv, TypeOK
  <2>2. iid \in Ids(picid)  BY <2>1 DEF Ids
  <2>3. CASE UNCHANGED <<ilist, alist>>  BY <2>1, <2>3, ListStepSame
  <2>4. CASE ~UNCHANGED <<ilist, alist>>
    <3>1. /\ alist[picid][iid] = 0
          /\ \E uid \in Unassigned(picid) : Place(uid)
      BY <1>2, <2>4 DEF AssignId, FillPosition
    <3>2. QED  BY <2>1, <2>2, <3>1, ListStepPlace
  <2>5. QED  BY <2>3, <2>4
<1>3. ASSUME UNCHANGED <<design, piclist, ilist, alist>>
      PROVE  UNCHANGED <<design, piclist>> /\ ListStep(pid)
  BY <1>3, ListStepSame
<1>4. CASE NextComponent \/ NextLine \/ PicNotFound \/ StartAssign \/ AllIdsTried
             \/ WriteBack \/ NextPic \/ UNCHANGED vars
  BY <1>3, <1>4 DEF NextComponent, NextLine, PicNotFound, StartAssign, AllIdsTried,
       WriteBack, NextPic, vars, picvars
<1>5. ~GatherPics  BY DEF GatherPics
<1>6. QED  BY <1>1, <1>2, <1>4, <1>5 DEF Next
-----------------------------------------------------------------------------
(* Any order of a finite set holds every element of the set, and once.     *)
LEMMA OrdersAll ==
  ASSUME NEW S, IsFiniteSet(S), NEW q \in SetToSeqs(S)
  PROVE  /\ Len(q) = Cardinality(S)
         /\ \A x \in S : \E n \in 1..Len(q) : q[n] = x
         /\ \A m, n \in 1..Len(q) : q[m] = q[n] => m = n
<1> DEFINE D == 1..Cardinality(S)
<1>1. Cardinality(S) \in Nat  BY FS_CardinalityType
<1>2. q \in [D -> S] /\ \A m, n \in D : m # n => q[m] # q[n]
  BY DEF SetToSeqs
<1>3. Len(q) = Cardinality(S)  BY <1>1, <1>2
<1>4. q \in Injection(D, S)  BY <1>2, Fun_IsInj
<1>5. Cardinality(D) = Cardinality(S)
  <2>1. 1 \in Int /\ Cardinality(S) \in Int  BY <1>1
  <2>2. QED  BY <1>1, <2>1, FS_Interval
<1>6. q \in Surjection(D, S)  BY <1>4, <1>5, FS_Injection
<1>7. \A x \in S : \E n \in D : q[n] = x  BY <1>6 DEF Surjection
<1>8. QED  BY <1>2, <1>3, <1>7

(* Every controller is found, once; and names tell controllers apart.      *)
AllFound ==
  /\ pc = "gather" => piclist = <<>>
  /\ pc # "gather" => \A p \in design.pics : \E pid \in Pids : piclist[pid] = p
  /\ \A p, q \in Pids : piclist[p].name = piclist[q].name => p = q

(* A line that names its position has that position or none; and while     *)
(* lines are still added, the others wait.                                 *)
NamedInPlace ==
  \A pid \in Pids : \A j \in 1..Len(ilist[pid]) :
    IF HasId(ilist[pid][j].line)
      THEN /\ ilist[pid][j].id = design.id[ilist[pid][j].line]
           /\ ilist[pid][j].id < piclist[pid].max
      ELSE pc = "add" => ilist[pid][j].id >= piclist[pid].max

(* Entry j of the list of controller pid has been written back.            *)
Written(pid, j) == pid < picid \/ (pid = picid /\ pc = "write" /\ j <= iid)

(* The IDs in the maps are those of the entries written back so far.       *)
IdentsFromList ==
  /\ pc \in {"gather", "add"} => \A l \in Line, n \in PicName : ident[l][n] = NoId
  /\ pc = "done" => piclist = <<>> \/ picid = Len(piclist) + 1
  /\ \A pid \in Pids, l \in Line :
       LET id == ident[l][piclist[pid].name]
       IN /\ id # NoId => \E j \in 1..Len(ilist[pid]) :
               /\ Written(pid, j) /\ ilist[pid][j].line = l
               /\ ilist[pid][j].id = id /\ id < piclist[pid].max
          /\ id = NoId => \A j \in 1..Len(ilist[pid]) :
               Written(pid, j) /\ ilist[pid][j].line = l
                 => ilist[pid][j].id >= piclist[pid].max

LEMMA FoundKept ==
  ASSUME Inv, AllFound, [Next]_vars
  PROVE  AllFound'
<1>1. CASE GatherPics
  <2>1. /\ piclist' \in SetToSeqs(design.pics) /\ design' = design
        /\ pc' = "add"
    BY <1>1 DEF GatherPics
  <2>2. /\ IsFiniteSet(design.pics)
        /\ \A p, q \in design.pics : p.name = q.name => p = q
    BY DesignFacts DEF Inv
  <2>3. piclist' \in Seq(design.pics)  BY <2>1, <2>2, OrdersType
  <2>4. /\ \A p \in design.pics : \E n \in 1..Len(piclist') : piclist'[n] = p
        /\ \A m, n \in 1..Len(piclist') : piclist'[m] = piclist'[n] => m = n
    BY <2>1, <2>2, OrdersAll
  <2>5. \A n \in 1..Len(piclist') : piclist'[n] \in design.pics  BY <2>3
  <2>6. QED  BY <2>1, <2>2, <2>4, <2>5 DEF AllFound, Pids
<1>2. CASE ~GatherPics
  <2>1. UNCHANGED <<design, piclist>> /\ (pc' = "gather" => pc = "gather")
        /\ (pc = "gather" => pc' = "gather")
    BY <1>2 DEF Next, vars, NextComponent, NextLine, PicNotFound, AddToPic, StartAssign,
         AssignId, AllIdsTried, WriteBack, NextPic
  <2>2. QED  BY <2>1 DEF AllFound, Pids
<1>3. QED  BY <1>1, <1>2

LEMMA NamedKept ==
  ASSUME Inv, NamedInPlace, [Next]_vars
  PROVE  NamedInPlace'
<1>1. CASE pc = "gather"
  <2>1. CASE GatherPics
    <3>1. \A pid \in 1..Len(piclist') : ilist'[pid] = <<>>
      BY <2>1 DEF GatherPics
    <3>2. QED  BY <3>1 DEF NamedInPlace, Pids
  <2>2. CASE UNCHANGED vars
    BY <2>2 DEF vars, NamedInPlace, Pids, HasId
  <2>3. QED
    BY <1>1, <2>1, <2>2 DEF Next, NextComponent, NextLine, PicNotFound, AddToPic,
         StartAssign, AssignId, AllIdsTried, WriteBack, NextPic
<1>2. CASE pc # "gather"
  <2>1. UNCHANGED <<design, piclist>> /\ (pc' = "add" => pc = "add")
    BY <1>2 DEF Next, vars, NextComponent, NextLine, PicNotFound, AddToPic, StartAssign,
         AssignId, AllIdsTried, WriteBack, NextPic, GatherPics
  <2> SUFFICES ASSUME NEW pid \in Pids, NEW j \in 1..Len(ilist'[pid])
               PROVE  IF HasId(ilist'[pid][j].line)
                        THEN /\ ilist'[pid][j].id = design.id[ilist'[pid][j].line]
                             /\ ilist'[pid][j].id < piclist[pid].max
                        ELSE pc' = "add" => ilist'[pid][j].id >= piclist[pid].max
    BY <2>1 DEF NamedInPlace, Pids, HasId
  <2>2. ListStep(pid)  BY <1>2, ListStepTaken
  <2>3. Len(ilist[pid]) \in Nat /\ Len(ilist'[pid]) \in Nat /\ piclist[pid].max \in Nat
    <3>1. Inv'  BY StepKeeps
    <3>2. pid \in Pids'  BY <2>1 DEF Pids
    <3>3. ilist[pid] \in Seq(Entry) /\ ilist'[pid] \in Seq(Entry)
      BY <3>1, <3>2 DEF Inv, TypeOK, PicsOK
    <3>4. QED  BY <3>3, DesignFacts DEF Inv
  <2>4. CASE j \in 1..Len(ilist[pid])
    <3>1. /\ ilist'[pid][j].line = ilist[pid][j].line
          /\ \/ ilist'[pid][j].id = ilist[pid][j].id
             \/ pc = "assign" /\ ilist[pid][j].id >= piclist[pid].max
      BY <2>2, <2>4 DEF ListStep
    <3>2. ilist[pid][j].id \in Nat
      <4>1. ilist[pid][j] \in Entry  BY <2>4 DEF Inv, TypeOK, PicsOK
      <4>2. QED  BY <4>1 DEF Entry
    <3>3. IF HasId(ilist[pid][j].line)
            THEN /\ ilist[pid][j].id = design.id[ilist[pid][j].line]
                 /\ ilist[pid][j].id < piclist[pid].max
            ELSE pc = "add" => ilist[pid][j].id >= piclist[pid].max
      BY <2>4 DEF NamedInPlace
    <3>4. QED  BY <2>1, <2>3, <3>1, <3>2, <3>3
  <2>5. CASE j > Len(ilist[pid])
    <3>1. /\ ilist'[pid][j].id =
               IF HasId(ilist'[pid][j].line) THEN design.id[ilist'[pid][j].line]
                                             ELSE piclist[pid].max
          /\ HasId(ilist'[pid][j].line) => ilist'[pid][j].id < piclist[pid].max
      BY <2>2, <2>5 DEF ListStep
    <3>2. QED  BY <2>3, <3>1
  <2>6. QED  BY <2>3, <2>4, <2>5
<1>3. QED  BY <1>1, <1>2

(* The turn of the loop that writes an ID back.                            *)
LEMMA WriteBackIdents ==
  ASSUME Inv, AllFound, IdentsFromList, WriteBack
  PROVE  IdentsFromList'
<1>1. /\ picid \in Pids /\ iid \in Nat /\ iid + 1 \in 1..Len(ilist[picid])
      /\ pc = "write" /\ pc' = "write" /\ iid' = iid + 1
      /\ UNCHANGED <<design, piclist, ilist, picid>>
      /\ ident \in [Line -> [PicName -> Nat \cup {NoId}]]
  <2>1. ilist[picid] \in Seq(Entry)  BY DEF WriteBack, Inv, TypeOK, PicsOK
  <2>2. QED  BY <2>1 DEF WriteBack, Inv, TypeOK, picvars
<1>2. ilist[picid][iid + 1] \in Entry
  BY <1>1 DEF Inv, TypeOK, PicsOK
<1> DEFINE e == ilist[picid][iid + 1]
           n == piclist[picid].name
<1>3. e.line \in Line /\ e.id \in Nat  BY <1>2 DEF Entry
<1>4. n \in PicName /\ piclist[picid].max \in Nat
  <2>1. piclist[picid] \in Pic  BY <1>1, DesignFacts DEF Inv
  <2>2. QED  BY <2>1 DEF Pic
<1>5. IF e.id < piclist[picid].max
        THEN ident' = [ident EXCEPT ![e.line][n] = IF @ = NoId THEN e.id ELSE @]
        ELSE ident' = ident
  BY DEF WriteBack, SetValue
<1>6. \A pid \in Pids, j \in Nat :
        Written(pid, j)' <=> (Written(pid, j) \/ (pid = picid /\ j = iid + 1))
  BY <1>1 DEF Written, Pids
<1>7. Pids' = Pids  BY <1>1 DEF Pids
<1> SUFFICES ASSUME NEW pid \in Pids, NEW l \in Line
             PROVE  LET id == ident'[l][piclist[pid].name]
                    IN /\ id # NoId => \E j \in 1..Len(ilist[pid]) :
                            /\ Written(pid, j)' /\ ilist[pid][j].line = l
                            /\ ilist[pid][j].id = id /\ id < piclist[pid].max
                       /\ id = NoId => \A j \in 1..Len(ilist[pid]) :
                            Written(pid, j)' /\ ilist[pid][j].line = l
                              => ilist[pid][j].id >= piclist[pid].max
  BY <1>1, <1>7 DEF IdentsFromList
<1> DEFINE m == piclist[pid].name
<1>8. /\ ident[l][m] # NoId => \E j \in 1..Len(ilist[pid]) :
            /\ Written(pid, j) /\ ilist[pid][j].line = l
            /\ ilist[pid][j].id = ident[l][m] /\ ident[l][m] < piclist[pid].max
      /\ ident[l][m] = NoId => \A j \in 1..Len(ilist[pid]) :
            Written(pid, j) /\ ilist[pid][j].line = l
              => ilist[pid][j].id >= piclist[pid].max
  BY DEF IdentsFromList
<1>9. m \in PicName /\ piclist[pid].max \in Nat
  <2>1. piclist[pid] \in Pic  BY DesignFacts DEF Inv
  <2>2. QED  BY <2>1 DEF Pic
<1>10. m = n => pid = picid  BY <1>1 DEF AllFound
<1>11. 1..Len(ilist[pid]) \subseteq Nat  OBVIOUS
<1>12. CASE pid = picid /\ l = e.line /\ e.id < piclist[picid].max
  <2>1. ident'[l][m] = IF ident[l][m] = NoId THEN e.id ELSE ident[l][m]
    BY <1>1, <1>3, <1>4, <1>5, <1>12
  <2>2. e.id # NoId  BY <1>3 DEF NoId
  <2>3. CASE ident[l][m] = NoId
    BY <1>1, <1>6, <1>11, <1>12, <2>1, <2>2, <2>3
  <2>4. CASE ident[l][m] # NoId
    BY <1>6, <1>8, <1>11, <2>1, <2>4
  <2>5. QED  BY <2>3, <2>4
<1>13. CASE ~(pid = picid /\ l = e.line /\ e.id < piclist[picid].max)
  <2>1. ident'[l][m] = ident[l][m]
    BY <1>1, <1>3, <1>4, <1>5, <1>9, <1>10, <1>13
  <2>2. ~(e.id < piclist[picid].max) => e.id >= piclist[picid].max
    BY <1>3, <1>4
  <2>3. QED  BY <1>6, <1>8, <1>11, <1>13, <2>1, <2>2
<1>14. QED  BY <1>12, <1>13

LEMMA IdentsKept ==
  ASSUME Inv, AllFound, IdentsFromList, [Next]_vars
  PROVE  IdentsFromList'
<1>1. CASE WriteBack  BY <1>1, WriteBackIdents
<1>2. CASE GatherPics
  <2>1. /\ pc = "gather" /\ pc' = "add" /\ picid' = 1 /\ ident' = ident
        /\ \A pid \in 1..Len(piclist') : ilist'[pid] = <<>>
    BY <1>2 DEF GatherPics, assignvars, Inv, TypeOK
  <2>2. piclist' \in Seq(design.pics)  BY <1>2, GatherKeeps DEF Inv, TypeOK, GatherPics
  <2>3. \A pid \in Pids', l \in Line : ident[l][piclist'[pid].name] = NoId
    <3>1. \A pid \in Pids' : piclist'[pid] \in Pic
      BY <2>2, DesignFacts DEF Inv, Pids
    <3>2. \A pid \in Pids' : piclist'[pid].name \in PicName  BY <3>1 DEF Pic
    <3>3. QED  BY <2>1, <3>2 DEF IdentsFromList
  <2>4. \A pid \in Pids' : 1..Len(ilist'[pid]) = {}  BY <2>1 DEF Pids
  <2>5. QED  BY <2>1, <2>3, <2>4 DEF IdentsFromList, NoId
<1>3. CASE AssignId
  <2>1. /\ pc = "assign" /\ picid \in Pids
        /\ UNCHANGED <<design, pc, piclist, picid, ident>>
    BY <1>3 DEF AssignId, Inv, TypeOK
  <2>2. \A pid \in Pids, j \in Nat :
          Written(pid, j)' = Written(pid, j) /\ (Written(pid, j) => ilist'[pid] = ilist[pid])
    <3>1. \A pid \in Pids, j \in Nat : Written(pid, j)' = Written(pid, j)
      BY <2>1 DEF Written
    <3>2. \A pid \in Pids : pid < picid => pid # picid  BY <2>1 DEF Pids
    <3>3. \A pid \in Pids : pid # picid => ilist'[pid] = ilist[pid]
      BY <1>3 DEF AssignId, FillPosition, Place, Inv, TypeOK, PicsOK
    <3>4. QED  BY <2>1, <3>1, <3>2, <3>3 DEF Written
  <2>3. \A pid \in Pids : Len(ilist'[pid]) = Len(ilist[pid])
    <3>1. ilist' = ilist \/ \E uid \in Unassigned(picid) : Place(uid)
      BY <1>3 DEF AssignId, FillPosition
    <3>2. ASSUME NEW uid \in Unassigned(picid), Place(uid), NEW pid \in Pids
          PROVE  Len(ilist'[pid]) = Len(ilist[pid])
      <4> DEFINE v == [ilist[picid][uid] EXCEPT !.id = iid]
      <4>1. ilist' = [ilist EXCEPT ![picid] = [ilist[picid] EXCEPT ![uid] = v]]
        BY <3>2 DEF Place
      <4>2. ilist \in [Pids -> Seq(Entry)] /\ uid \in 1..Len(ilist[picid])
        BY DEF Unassigned, Inv, TypeOK, PicsOK
      <4> HIDE DEF v
      <4>3. ilist[pid] \in Seq(Entry) /\ ilist[picid] \in Seq(Entry)
        BY <2>1, <4>2
      <4>4. Len([ilist[picid] EXCEPT ![uid] = v]) = Len(ilist[picid])
        BY <4>2, <4>3
      <4>5. QED  BY <2>1, <4>1, <4>2, <4>4
    <3>3. QED  BY <3>1, <3>2
  <2>4. Pids' = Pids  BY <2>1 DEF Pids
  <2>5. QED  BY <2>1, <2>2, <2>3, <2>4 DEF IdentsFromList
<1>4. CASE NextPic
  <2>1. /\ pc = "write" /\ pc' = (IF picid = Len(piclist) THEN "done" ELSE "assign")
        /\ picid \in Pids /\ picid' = picid + 1 /\ iid = Len(ilist[picid])
        /\ UNCHANGED <<design, piclist, ilist, ident>>
    BY <1>4 DEF NextPic, picvars, Inv, TypeOK
  <2>2. \A pid \in Pids : \A j \in 1..Len(ilist[pid]) : Written(pid, j)' <=> Written(pid, j)
    BY <2>1 DEF Written, Pids
  <2>3. Pids' = Pids  BY <2>1 DEF Pids
  <2>4. QED  BY <2>1, <2>2, <2>3 DEF IdentsFromList
<1>5. CASE AddToPic
  <2>1. /\ pc = "add" /\ pc' = "add" /\ picid = 1 /\ picid' = 1
        /\ UNCHANGED <<piclist, ident>>
    BY <1>5 DEF AddToPic, assignvars, Inv, TypeOK
  <2>2. \A pid \in Pids, l \in Line : ident[l][piclist[pid].name] = NoId
    <3>1. \A pid \in Pids : piclist[pid] \in Pic  BY DesignFacts DEF Inv
    <3>2. \A pid \in Pids : piclist[pid].name \in PicName  BY <3>1 DEF Pic
    <3>3. QED  BY <2>1, <3>2 DEF IdentsFromList
  <2>3. \A pid \in Pids, j \in Nat : ~Written(pid, j)'  BY <2>1 DEF Written, Pids
  <2>4. Pids' = Pids  BY <2>1 DEF Pids
  <2>5. QED  BY <2>1, <2>2, <2>3, <2>4 DEF IdentsFromList
<1>6. CASE NextComponent \/ NextLine \/ PicNotFound \/ UNCHANGED vars
  <2>1. UNCHANGED <<pc, piclist, ilist, picid, iid, ident>>
    BY <1>6 DEF NextComponent, NextLine, PicNotFound, vars, picvars, assignvars
  <2>2. QED  BY <2>1 DEF IdentsFromList, Written, Pids
<1>7. CASE StartAssign \/ AllIdsTried
  <2>1. /\ UNCHANGED <<piclist, ilist, picid, ident>>
        /\ pc \in {"add", "assign"} /\ pc' \notin {"gather", "add"}
        /\ pc' = "done" => piclist = <<>>
        /\ pc' = "write" => iid' = 0
    BY <1>7 DEF StartAssign, AllIdsTried, picvars, assignvars
  <2>2. \A pid \in Pids : \A j \in 1..Len(ilist[pid]) : Written(pid, j)' <=> Written(pid, j)
    BY <2>1 DEF Written, Pids
  <2>3. Pids' = Pids  BY <2>1 DEF Pids
  <2>4. QED  BY <2>1, <2>2, <2>3 DEF IdentsFromList
<1>8. QED  BY <1>1, <1>2, <1>3, <1>4, <1>5, <1>6, <1>7 DEF Next

(* What the invariant above needs of the list and of the IDs.              *)
ListInv == AllFound /\ NamedInPlace /\ IdentsFromList

LEMMA ListInvariant == Spec => []ListInv
<1>1. Init => ListInv
  <2> SUFFICES ASSUME Init PROVE ListInv  OBVIOUS
  <2>1. Pids = {}  BY DEF Init, Pids
  <2>2. QED  BY <2>1 DEF Init, ListInv, AllFound, NamedInPlace, IdentsFromList
<1>2. Inv /\ ListInv /\ [Next]_vars => ListInv'
  BY FoundKept, NamedKept, IdentsKept DEF ListInv
<1>3. QED  BY <1>1, <1>2, InvCorrect, PTL DEF Spec

(* The ID written into the map of a line is a position of the vector that  *)
(* is wired to that line; and a line that is wired has an ID.              *)
THEOREM IdentsWired == Spec => []IdentIsWired
<1>1. Inv /\ ListInv => IdentIsWired
  <2> SUFFICES ASSUME Inv, ListInv, Finished, NEW pid \in Pids, NEW l \in Line
               PROVE  LET id == ident[l][piclist[pid].name]
                      IN /\ id # NoId => /\ id \in Ids(pid) /\ alist[pid][id] # 0
                                        /\ ilist[pid][alist[pid][id]].line = l
                         /\ id = NoId => \A i \in Ids(pid) :
                              alist[pid][i] = 0 \/ ilist[pid][alist[pid][i]].line # l
    BY DEF IdentIsWired
  <2> DEFINE id == ident[l][piclist[pid].name]
  <2>1. \A j \in 1..Len(ilist[pid]) : Written(pid, j)
    <3>1. piclist # <<>>  BY DEF Pids
    <3>2. picid = Len(piclist) + 1
      BY <3>1 DEF ListInv, IdentsFromList, Finished
    <3>3. QED  BY <3>2 DEF Written, Pids
  <2>2. /\ \A i \in Ids(pid) :
             alist[pid][i] # 0 => ilist[pid][alist[pid][i]].id = i
        /\ \A j \in 1..Len(ilist[pid]) :
             ilist[pid][j].id < piclist[pid].max => alist[pid][ilist[pid][j].id] = j
    BY DEF Inv, PicInv, VectorMatchesList
  <2>3. alist[pid] \in [Ids(pid) -> 0..Len(ilist[pid])] /\ ilist[pid] \in Seq(Entry)
    BY DEF Inv, TypeOK, PicsOK
  <2>4. CASE id # NoId
    <3>1. PICK j \in 1..Len(ilist[pid]) :
            /\ ilist[pid][j].line = l /\ ilist[pid][j].id = id
            /\ id < piclist[pid].max
      BY <2>4 DEF ListInv, IdentsFromList
    <3>2. ilist[pid][j] \in Entry  BY <2>3
    <3>3. id \in Nat  BY <3>1, <3>2 DEF Entry
    <3>4. alist[pid][id] = j /\ j # 0  BY <2>2, <3>1
    <3>5. id \in Ids(pid)  BY <3>1, <3>3, DesignFacts DEF Inv, Ids
    <3>6. QED  BY <2>4, <3>1, <3>4, <3>5
  <2>5. CASE id = NoId
    <3> SUFFICES ASSUME NEW i \in Ids(pid), alist[pid][i] # 0
                 PROVE  ilist[pid][alist[pid][i]].line # l
      BY <2>5
    <3>1. alist[pid][i] \in 1..Len(ilist[pid]) /\ ilist[pid][alist[pid][i]].id = i
      BY <2>2, <2>3
    <3>2. i < piclist[pid].max /\ i \in Nat /\ piclist[pid].max \in Nat
      BY DesignFacts DEF Inv, Ids
    <3>3. QED  BY <2>1, <2>5, <3>1, <3>2 DEF ListInv, IdentsFromList
  <2>6. QED  BY <2>4, <2>5
<1>2. QED  BY <1>1, InvCorrect, ListInvariant, PTL
-----------------------------------------------------------------------------
(* The line that is wired to position i of controller pid.                 *)
WiredTo(pid, i) == IF alist[pid][i] = 0 THEN NoLine ELSE ilist[pid][alist[pid][i]].line

(* Once the controllers are found, each position of the abstract vectors   *)
(* is a position of one controller.                                        *)
PositionsMapped ==
  \A s \in Positions :
    /\ PidOf(s[1]) \in Pids /\ piclist[PidOf(s[1])].name = s[1]
    /\ s[2] \in Ids(PidOf(s[1])) /\ s = <<s[1], s[2]>>

VectorIsWired == Vector = [s \in Positions |-> WiredTo(PidOf(s[1]), s[2])]

LEMMA PositionsFound ==
  Inv /\ AllFound /\ pc # "gather" => PositionsMapped /\ VectorIsWired
<1> SUFFICES ASSUME Inv, AllFound, pc # "gather" PROVE PositionsMapped /\ VectorIsWired
  OBVIOUS
<1>1. ASSUME NEW s \in Positions
      PROVE  /\ PidOf(s[1]) \in Pids /\ piclist[PidOf(s[1])].name = s[1]
             /\ s[2] \in Ids(PidOf(s[1])) /\ s = <<s[1], s[2]>>
  <2>1. PICK p \in design.pics : s \in {p.name} \X (0..(p.max - 1))
    BY DEF Positions
  <2>2. s[1] = p.name /\ s[2] \in 0..(p.max - 1) /\ s = <<s[1], s[2]>>  BY <2>1
  <2>3. PICK pid \in Pids : piclist[pid] = p  BY DEF AllFound
  <2>4. PidOf(s[1]) \in Pids /\ piclist[PidOf(s[1])].name = s[1]
    BY <2>2, <2>3 DEF PidOf
  <2>5. PidOf(s[1]) = pid  BY <2>2, <2>3, <2>4 DEF AllFound
  <2>6. QED  BY <2>2, <2>3, <2>4, <2>5 DEF Ids
<1>2. PositionsMapped  BY <1>1 DEF PositionsMapped
<1>3. Positions # {} => piclist # <<>>  BY <1>1 DEF Pids
<1>4. VectorIsWired  BY <1>3 DEF VectorIsWired, Vector, WiredTo
<1>5. QED  BY <1>2, <1>4

LEMMA PositionsFoundNext ==
  (Inv /\ AllFound /\ pc # "gather")' => (PositionsMapped /\ VectorIsWired)'
BY PositionsFound, PTL

LEMMA PositionOfPid ==
  ASSUME Inv, AllFound, NEW pid \in Pids, NEW i \in Ids(pid)
  PROVE  PidOf(piclist[pid].name) = pid /\ <<piclist[pid].name, i>> \in Positions
<1>1. PidOf(piclist[pid].name) \in Pids
      /\ piclist[PidOf(piclist[pid].name)].name = piclist[pid].name
  BY DEF PidOf
<1>2. PidOf(piclist[pid].name) = pid  BY <1>1 DEF AllFound
<1>3. piclist[pid] \in design.pics  BY DesignFacts DEF Inv
<1>4. QED  BY <1>2, <1>3 DEF Positions, Ids

(* Lists that only grow, and keep the lines of their entries, change what  *)
(* is wired at a position only if the vector changes there.                *)
LEMMA WiredKept ==
  ASSUME Inv, NEW pid \in Pids, NEW i \in Ids(pid), ListStep(pid),
         alist'[pid][i] = alist[pid][i]
  PROVE  WiredTo(pid, i)' = WiredTo(pid, i)
<1>1. alist[pid][i] \in 0..Len(ilist[pid])  BY DEF Inv, TypeOK, PicsOK
<1>2. CASE alist[pid][i] = 0  BY <1>2 DEF WiredTo
<1>3. CASE alist[pid][i] # 0
  <2>1. Len(ilist[pid]) \in Nat
    <3>1. ilist[pid] \in Seq(Entry)  BY DEF Inv, TypeOK, PicsOK
    <3>2. QED  BY <3>1
  <2>2. alist[pid][i] \in 1..Len(ilist[pid])  BY <1>1, <1>3, <2>1
  <2>3. ilist'[pid][alist[pid][i]].line = ilist[pid][alist[pid][i]].line
    BY <2>2 DEF ListStep
  <2>4. QED  BY <1>3, <2>3 DEF WiredTo
<1>4. QED  BY <1>2, <1>3

(* A position that is filled is claimed for the line that gets it.         *)
LEMMA FillClaims ==
  ASSUME Inv, AllFound, AllFound', Inv', pc # "gather", pc' # "gather",
         UNCHANGED <<design, piclist>>, \A pid \in Pids : ListStep(pid),
         NEW q \in Pids, NEW id \in Ids(q), alist[q][id] = 0, NEW k \in Nat \ {0},
         alist' = [alist EXCEPT ![q][id] = k],
         NEW l \in Line, ilist'[q][k].line = l, ~HasId(l) \/ design.id[l] = id
  PROVE  Vec!Claim(<<piclist[q].name, id>>, l)
<1> DEFINE s0 == <<piclist[q].name, id>>
<1>1. s0 \in Positions /\ PidOf(piclist[q].name) = q  BY PositionOfPid
<1>2. /\ Positions' = Positions /\ Pids' = Pids
      /\ \A n : PidOf(n)' = PidOf(n)
  BY DEF Positions, PidOf, Pids
<1>3. /\ Vector = [s \in Positions |-> WiredTo(PidOf(s[1]), s[2])]
      /\ Vector' = [s \in Positions |-> WiredTo(PidOf(s[1]), s[2])']
  BY <1>2, PositionsFound, PositionsFoundNext DEF VectorIsWired
<1>4. /\ DOMAIN alist = Pids
      /\ \A p \in Pids : DOMAIN alist[p] = Ids(p)
  BY DEF Inv, TypeOK, PicsOK
<1>5. /\ alist'[q][id] = k
      /\ \A p \in Pids : \A i \in Ids(p) : (p # q \/ i # id) => alist'[p][i] = alist[p][i]
  BY <1>4
<1>6. WiredTo(q, id) = NoLine /\ WiredTo(q, id)' = l  BY <1>5 DEF WiredTo
<1>7. Vector[s0] = NoLine /\ Vector'[s0] = l
  <2>1. PICK s \in Positions : s = s0  BY <1>1
  <2>2. PidOf(s[1]) = q /\ PidOf(s[1])' = q /\ s[2] = id  BY <1>1, <1>2, <2>1
  <2>3. WiredTo(PidOf(s[1]), s[2]) = NoLine /\ WiredTo(PidOf(s[1]), s[2])' = l
    BY <1>6, <2>2 DEF WiredTo
  <2>4. Vector[s] = NoLine /\ Vector'[s] = l  BY <1>3, <2>3
  <2>5. QED  BY <2>1, <2>4
<1>8. ASSUME NEW s \in Positions, s # s0 PROVE Vector'[s] = Vector[s]
  <2>1. /\ PidOf(s[1]) \in Pids /\ s[2] \in Ids(PidOf(s[1]))
        /\ piclist[PidOf(s[1])].name = s[1] /\ s = <<s[1], s[2]>>
    BY PositionsFound DEF PositionsMapped
  <2>2. PidOf(s[1]) # q \/ s[2] # id  BY <1>8, <2>1
  <2>3. alist'[PidOf(s[1])][s[2]] = alist[PidOf(s[1])][s[2]]  BY <1>5, <2>1, <2>2
  <2>4. WiredTo(PidOf(s[1]), s[2])' = WiredTo(PidOf(s[1]), s[2])
    <3>1. PICK p \in Pids : p = PidOf(s[1])  BY <2>1
    <3>2. WiredTo(p, s[2])' = WiredTo(p, s[2])  BY <2>1, <2>3, <3>1, WiredKept
    <3>3. PidOf(s[1])' = p  BY <1>2, <3>1
    <3>4. QED  BY <3>1, <3>2, <3>3 DEF WiredTo
  <2>5. QED  BY <1>3, <2>4
<1>9. Vector' = [Vector EXCEPT ![s0] = l]  BY <1>1, <1>3, <1>7, <1>8
<1>10. design.id[l] < 0 \/ design.id[l] = id
  BY DesignFacts DEF HasId, Inv
<1>11. s0[2] = id  OBVIOUS
<1>12. QED  BY <1>7, <1>9, <1>10, <1>11 DEF Vec!Claim

(* Nothing is wired before the controllers are found, nor as they are.     *)
LEMMA NothingWired ==
  ASSUME Inv, Inv', AllFound, AllFound', GatherPics
  PROVE  UNCHANGED <<Vector, design.id>>
<1>1. /\ design' = design /\ pc = "gather" /\ pc' = "add" /\ piclist = <<>>
      /\ alist' = [pid \in 1..Len(piclist') |->
                     [id \in 0..(piclist'[pid].max - 1) |-> 0]]
  BY DEF GatherPics, AllFound
<1>2. Vector = [s \in Positions |-> NoLine]  BY <1>1 DEF Vector
<1>3. Positions' = Positions  BY <1>1 DEF Positions
<1>4. \A pid \in Pids' : \A i \in Ids(pid)' : alist'[pid][i] = 0
  BY <1>1 DEF Pids, Ids
<1>5. Vector' = [s \in Positions' |-> NoLine]
  <2>1. PositionsMapped' /\ VectorIsWired'  BY <1>1, PositionsFoundNext
  <2>2. \A s \in Positions' : alist'[PidOf(s[1])'][s[2]] = 0
    BY <1>4, <2>1 DEF PositionsMapped
  <2>3. QED  BY <2>1, <2>2 DEF VectorIsWired, WiredTo
<1>6. QED  BY <1>1, <1>2, <1>3, <1>5

(* A step that fills no position leaves the abstract vectors alone.        *)
LEMMA NothingFilled ==
  ASSUME Inv, Inv', AllFound, AllFound', pc # "gather", pc' # "gather",
         UNCHANGED <<design, piclist, alist>>, \A pid \in Pids : ListStep(pid)
  PROVE  UNCHANGED <<Vector, design.id>>
<1>1. /\ Positions' = Positions /\ Pids' = Pids
      /\ \A n : PidOf(n)' = PidOf(n)
  BY DEF Positions, PidOf, Pids
<1>2. \A s \in Positions : PidOf(s[1]) \in Pids /\ s[2] \in Ids(PidOf(s[1]))
  BY PositionsFound DEF PositionsMapped
<1>3. \A s \in Positions : WiredTo(PidOf(s[1]), s[2])' = WiredTo(PidOf(s[1]), s[2])
  <2> SUFFICES ASSUME NEW s \in Positions, NEW p \in Pids, p = PidOf(s[1])
               PROVE  WiredTo(PidOf(s[1]), s[2])' = WiredTo(PidOf(s[1]), s[2])
    BY <1>2
  <2>1. s[2] \in Ids(p) /\ ListStep(p) /\ alist'[p][s[2]] = alist[p][s[2]]
    BY <1>2
  <2>2. WiredTo(p, s[2])' = WiredTo(p, s[2])  BY <2>1, WiredKept
  <2>3. PidOf(s[1])' = p  BY <1>1
  <2>4. QED  BY <2>2, <2>3 DEF WiredTo
<1>4. Vector = [s \in Positions |-> WiredTo(PidOf(s[1]), s[2])]
  BY PositionsFound DEF VectorIsWired
<1>5. Vector' = [s \in Positions' |-> WiredTo(PidOf(s[1]), s[2])']
  BY PositionsFoundNext DEF VectorIsWired
<1>6. QED  BY <1>1, <1>3, <1>4, <1>5

(* PICINFO::add() claims the position a line names, or none.               *)
LEMMA AddClaims ==
  ASSUME Inv, Inv', AllFound, AllFound', AddToPic, \A pid \in Pids : ListStep(pid)
  PROVE  Vec!IVNext \/ UNCHANGED <<Vector, design.id>>
<1>1. /\ pc = "add" /\ pc' = "add" /\ UNCHANGED <<design, piclist>> /\ line \in Line
  BY DEF AddToPic, Inv, TypeOK
<1>2. PICK q \in Pids :
        IF HasId(line) THEN AddWithId(q, design.id[line]) ELSE AddUnassigned(q)
  BY DEF AddToPic
<1>3. CASE alist' = alist  BY <1>1, <1>3, NothingFilled
<1>4. CASE alist' # alist
  <2> DEFINE id == design.id[line]
             k == Len(ilist[q]) + 1
             e == [line |-> line, id |-> id]
  <2>1. /\ HasId(line) /\ ~(id >= piclist[q].max) /\ alist[q][id] = 0 /\ Enter(q, id)
    BY <1>2, <1>4 DEF AddWithId, AddUnassigned, Wait, picvars
  <2>2. id \in Ids(q)
    <3>1. id \in Int /\ id >= 0 /\ piclist[q].max \in Nat
      BY <1>1, <2>1, DesignFacts DEF Inv, HasId
    <3>2. QED  BY <2>1, <3>1 DEF Ids
  <2>3. ilist \in [Pids -> Seq(Entry)] /\ ilist[q] \in Seq(Entry)
    BY DEF Inv, TypeOK, PicsOK
  <2>4. k \in Nat \ {0} /\ ilist'[q] = Append(ilist[q], e)
    BY <2>1, <2>3 DEF Enter
  <2>5. ilist'[q][k].line = line  BY <2>3, <2>4
  <2>6. alist' = [alist EXCEPT ![q][id] = k]  BY <2>1 DEF Enter
  <2>7. PICK kk \in Nat \ {0}, ii \in Ids(q), l \in Line : kk = k /\ ii = id /\ l = line
    BY <1>1, <2>2, <2>4
  <2> HIDE DEF id, k, e
  <2>8. Vec!Claim(<<piclist[q].name, ii>>, l)
    <3>1. ~HasId(l) \/ design.id[l] = ii  BY <2>7 DEF id
    <3>2. QED  BY <1>1, <2>1, <2>5, <2>6, <2>7, <3>1, FillClaims
  <2>9. <<piclist[q].name, ii>> \in DOMAIN Vector
    BY PositionOfPid DEF Vector
  <2>10. QED  BY <2>8, <2>9 DEF Vec!IVNext
<1>5. QED  BY <1>3, <1>4

(* assignids() claims positions for lines that name none.                  *)
LEMMA AssignClaims ==
  ASSUME Inv, Inv', AllFound, AllFound', NamedInPlace, AssignId,
         \A pid \in Pids : ListStep(pid)
  PROVE  Vec!IVNext \/ UNCHANGED <<Vector, design.id>>
<1>1. /\ pc = "assign" /\ pc' = "assign" /\ UNCHANGED <<design, piclist>>
      /\ picid \in Pids /\ iid \in Nat /\ iid < piclist[picid].max
  BY DEF AssignId, Inv, TypeOK
<1>2. CASE alist' = alist  BY <1>1, <1>2, NothingFilled
<1>3. CASE alist' # alist
  <2>1. PICK uid \in Unassigned(picid) : alist[picid][iid] = 0 /\ Place(uid)
    BY <1>3 DEF AssignId, FillPosition
  <2>2. /\ uid \in 1..Len(ilist[picid]) /\ ilist[picid][uid].id >= piclist[picid].max
        /\ ilist[picid] \in Seq(Entry) /\ piclist[picid].max \in Nat
    BY <1>1, DesignFacts DEF Unassigned, Inv, TypeOK, PicsOK
  <2>3. ilist[picid][uid] \in Entry  BY <2>2
  <2>4. PICK q \in Pids : q = picid  BY <1>1
  <2>5. PICK id \in Ids(q) : id = iid  BY <1>1, <2>2, <2>4 DEF Ids
  <2>6. PICK l \in Line : l = ilist[picid][uid].line  BY <2>3 DEF Entry
  <2>7. ~HasId(l)
    <3>1. ilist[picid][uid].id \in Nat  BY <2>3 DEF Entry
    <3>2. QED  BY <1>1, <2>2, <2>6, <3>1 DEF NamedInPlace
  <2>8. ilist'[picid][uid].line = l  BY <1>1, <2>2, <2>6 DEF ListStep
  <2>9. alist' = [alist EXCEPT ![q][id] = uid]  BY <2>1, <2>4, <2>5 DEF Place
  <2>10. uid \in Nat \ {0}  BY <2>2
  <2>11. alist[q][id] = 0 /\ ilist'[q][uid].line = l  BY <2>1, <2>4, <2>5, <2>8
  <2>12. Vec!Claim(<<piclist[q].name, id>>, l)
    BY <1>1, <2>7, <2>9, <2>10, <2>11, FillClaims
  <2>13. <<piclist[q].name, id>> \in DOMAIN Vector
    BY PositionOfPid DEF Vector
  <2>14. QED  BY <2>12, <2>13 DEF Vec!IVNext
<1>4. QED  BY <1>2, <1>3

(* The assignment implements the abstract interrupt vectors, for every     *)
(* design and every order of its hash tables: a position is given to one   *)
(* line, once, and never against the ID that the line names.               *)
THEOREM AssignImplementsVectors == Spec => ImplementsIntVector
<1>1. Init => Vec!IVInit
  BY DEF Init, Vec!IVInit, Vector
<1>2. Inv /\ Inv' /\ ListInv /\ ListInv' /\ [Next]_vars
        => [Vec!IVNext]_<<Vector, design.id>>
  <2> SUFFICES ASSUME Inv, Inv', ListInv, ListInv', [Next]_vars
               PROVE  Vec!IVNext \/ UNCHANGED <<Vector, design.id>>
    OBVIOUS
  <2>1. AllFound /\ AllFound' /\ NamedInPlace  BY DEF ListInv
  <2>2. CASE GatherPics  BY <2>1, <2>2, NothingWired
  <2>3. CASE UNCHANGED vars
    BY <2>3 DEF vars, Vector, Positions, PidOf, Pids
  <2>4. CASE ~GatherPics /\ ~UNCHANGED vars
    <3>1. pc # "gather" /\ pc' # "gather"
      BY <2>4 DEF Next, NextComponent, NextLine, PicNotFound, AddToPic, StartAssign,
           AssignId, AllIdsTried, WriteBack, NextPic
    <3>2. \A pid \in Pids : ListStep(pid)  BY <3>1, ListStepTaken
    <3>3. CASE AddToPic  BY <2>1, <3>2, <3>3, AddClaims
    <3>4. CASE AssignId  BY <2>1, <3>2, <3>4, AssignClaims
    <3>5. CASE ~AddToPic /\ ~AssignId
      <4>1. UNCHANGED <<design, piclist, alist>>
        BY <2>4, <3>5 DEF Next, NextComponent, NextLine, PicNotFound, StartAssign,
             AllIdsTried, WriteBack, NextPic, picvars
      <4>2. QED  BY <2>1, <3>1, <3>2, <4>1, NothingFilled
    <3>6. QED  BY <3>3, <3>4, <3>5
  <2>5. QED  BY <2>2, <2>3, <2>4
<1>3. QED
  BY <1>1, <1>2, InvCorrect, ListInvariant, PTL DEF Spec, ImplementsIntVector, Vec!IVSpec
-----------------------------------------------------------------------------
(* Line l asks controller pid for a position; the line may yet be visited, *)
(* and the word that names the controller looked up; the line that is      *)
(* wired to position id is one that names it.                              *)
Asks(pid, l) == piclist[pid].name \in ToSet(design.tags[l])

Pending(pid, l) ==
  \/ \E c \in todo : l \in ToSet(c.lines)
  \/ l \in ToSet(queue)
  \/ l = line /\ piclist[pid].name \in ToSet(toks)

Honoured(pid, id) ==
  alist[pid][id] # 0 /\ design.id[ilist[pid][alist[pid][id]].line] = id

(* A position that is named and not yet given to a line that names it will *)
(* still be asked for, before assignids() gives positions away.            *)
NamedPending ==
  /\ pc = "gather" => todo = design.comps
  /\ pc # "gather" =>
       \A pid \in Pids, c \in design.comps : \A l \in ToSet(c.lines) :
         Asks(pid, l) /\ HasId(l) /\ design.id[l] < piclist[pid].max =>
           (pc = "add" /\ Pending(pid, l)) \/ Honoured(pid, design.id[l])

LEMMA HonouredKept ==
  ASSUME Inv, NEW pid \in Pids, NEW id \in Ids(pid), Honoured(pid, id),
         ListStep(pid), UNCHANGED design
  PROVE  Honoured(pid, id)'
<1>1. alist[pid][id] \in 0..Len(ilist[pid]) /\ ilist[pid] \in Seq(Entry)
  BY DEF Inv, TypeOK, PicsOK
<1>2. alist[pid][id] \in 1..Len(ilist[pid])  BY <1>1 DEF Honoured
<1>3. alist'[pid][id] = alist[pid][id]
      /\ ilist'[pid][alist[pid][id]].line = ilist[pid][alist[pid][id]].line
  BY <1>2 DEF ListStep, Honoured
<1>4. QED  BY <1>3 DEF Honoured

(* While lines are added, the line wired to a position names it.           *)
LEMMA FilledIsNamed ==
  ASSUME Inv, NamedInPlace, pc = "add", NEW pid \in Pids, NEW id \in Ids(pid),
         alist[pid][id] # 0
  PROVE  Honoured(pid, id)
<1>1. alist[pid][id] \in 1..Len(ilist[pid])
  <2>1. alist[pid][id] \in 0..Len(ilist[pid]) /\ ilist[pid] \in Seq(Entry)
    BY DEF Inv, TypeOK, PicsOK
  <2>2. QED  BY <2>1
<1>2. ilist[pid][alist[pid][id]].id = id
  BY DEF Inv, PicInv, VectorMatchesList
<1>3. id < piclist[pid].max /\ id \in Int /\ piclist[pid].max \in Nat
  BY DesignFacts DEF Inv, Ids
<1>4. QED  BY <1>1, <1>2, <1>3 DEF NamedInPlace, Honoured

(* A vector whose count has reached its size has no free position.         *)
LEMMA FullVector ==
  ASSUME Inv, NEW pid \in Pids, NEW id \in Ids(pid),
         nassigned[pid] + 1 > piclist[pid].max
  PROVE  alist[pid][id] # 0
<1> DEFINE filled == {i \in Ids(pid) : alist[pid][i] # 0}
<1>1. piclist[pid].max \in Nat /\ nassigned[pid] = Cardinality(filled)
  BY DesignFacts DEF Inv, PicInv, CountsFilled
<1>2. IsFiniteSet(Ids(pid)) /\ Cardinality(Ids(pid)) = piclist[pid].max
  <2>1. 0 \in Int /\ piclist[pid].max - 1 \in Int  BY <1>1
  <2>2. /\ IsFiniteSet(0..(piclist[pid].max - 1))
        /\ Cardinality(0..(piclist[pid].max - 1)) =
             IF 0 > piclist[pid].max - 1 THEN 0 ELSE (piclist[pid].max - 1) - 0 + 1
    BY <2>1, FS_Interval
  <2>3. QED  BY <1>1, <2>2 DEF Ids
<1>3. filled \in SUBSET Ids(pid)  OBVIOUS
<1>4. /\ Cardinality(filled) \in Nat /\ Cardinality(filled) <= Cardinality(Ids(pid))
      /\ Cardinality(Ids(pid)) = Cardinality(filled) => Ids(pid) = filled
  BY <1>2, <1>3, FS_Subset, FS_CardinalityType
<1>5. Ids(pid) = filled  BY <1>1, <1>2, <1>4
<1>6. QED  BY <1>5

(* A line that is added to the controller it names a position of finds the *)
(* position free and gets it, or finds a line there that names it too.     *)
LEMMA AddHonours ==
  ASSUME Inv, NamedInPlace, pc = "add", NEW pid \in Pids, line \in Line,
         NEW id \in Ids(pid), id = design.id[line], AddWithId(pid, id),
         ListStep(pid), UNCHANGED design
  PROVE  Honoured(pid, id)'
<1>1. CASE Enter(pid, id)
  <2> DEFINE e == [line |-> line, id |-> id]
  <2>1. /\ ilist \in [Pids -> Seq(Entry)] /\ DOMAIN alist = Pids
        /\ DOMAIN alist[pid] = Ids(pid)
    BY DEF Inv, TypeOK, PicsOK
  <2>2. ilist[pid] \in Seq(Entry) /\ ilist'[pid] = Append(ilist[pid], e)
    BY <1>1, <2>1 DEF Enter
  <2>3. ilist'[pid][Len(ilist[pid]) + 1].line = line /\ Len(ilist[pid]) + 1 # 0
    BY <2>2
  <2>4. alist'[pid][id] = Len(ilist[pid]) + 1  BY <1>1, <2>1 DEF Enter
  <2>5. QED  BY <2>3, <2>4 DEF Honoured
<1>2. CASE ~Enter(pid, id)
  <2>1. \/ id >= piclist[pid].max
        \/ nassigned[pid] + 1 > piclist[pid].max
        \/ alist[pid][id] # 0
    BY <1>2 DEF AddWithId
  <2>2. ~(id >= piclist[pid].max)  BY DesignFacts DEF Inv, Ids
  <2>3. alist[pid][id] # 0  BY <2>1, <2>2, FullVector
  <2>4. QED  BY <2>3, FilledIsNamed, HonouredKept
<1>3. QED  BY <1>1, <1>2

(* The elements of a sequence are its first one and those that follow.     *)
LEMMA HeadTail ==
  ASSUME NEW S, NEW s \in Seq(S), s # <<>>, NEW x \in ToSet(s), x # Head(s)
  PROVE  x \in ToSet(Tail(s))
<1>1. PICK n \in 1..Len(s) : s[n] = x  BY DEF ToSet
<1>2. n # 1 /\ Tail(s)[n - 1] = x /\ n - 1 \in 1..Len(Tail(s))
  BY <1>1
<1>3. DOMAIN Tail(s) = 1..Len(Tail(s))
  <2>1. Tail(s) \in Seq(S)  OBVIOUS
  <2>2. QED  BY <2>1
<1> DEFINE t == Tail(s)
<1>4. n - 1 \in DOMAIN t /\ t[n - 1] = x  BY <1>2, <1>3
<1> HIDE DEF t
<1>5. x \in ToSet(t)  BY <1>4 DEF ToSet
<1>6. QED  BY <1>5 DEF t

(* A component's lines are all visited.                                    *)
LEMMA VisitAll ==
  ASSUME NEW c \in Component,
         NEW q \in IF c.listed THEN {c.lines} ELSE SetToSeqs(ToSet(c.lines)),
         NEW l \in ToSet(c.lines)
  PROVE  l \in ToSet(q)
<1>1. c.lines \in Seq(Line) /\ c.listed \in BOOLEAN  BY DEF Component
<1>2. CASE c.listed  BY <1>2
<1>3. CASE ~c.listed
  <2>1. IsFiniteSet(ToSet(c.lines)) /\ q \in SetToSeqs(ToSet(c.lines))
    BY <1>1, <1>3, ToSetFinite
  <2>2. \E n \in 1..Len(q) : q[n] = l  BY <2>1, OrdersAll
  <2>3. q \in Seq(ToSet(c.lines))  BY <2>1, OrdersType
  <2>4. QED  BY <2>2, <2>3 DEF ToSet
<1>4. QED  BY <1>1, <1>2, <1>3

(* What is pending stays so until the words of the line are looked up.     *)
LEMMA PendingStep ==
  ASSUME Inv, Inv', AllFound, NamedInPlace, pc = "add", [Next]_vars,
         \A p \in Pids : ListStep(p),
         NEW pid \in Pids, NEW l \in Line, Pending(pid, l), Asks(pid, l),
         NEW id \in Ids(pid), id = design.id[l], HasId(l)
  PROVE  (pc' = "add" /\ Pending(pid, l)') \/ Honoured(pid, id)'
<1> DEFINE n == piclist[pid].name
<1>1. /\ queue \in Seq(Line) /\ toks \in Seq(PicName)
      /\ \A c \in todo : c \in Component
  BY DesignFacts DEF Inv, TypeOK
<1>2. CASE NextComponent
  <2>1. PICK c \in todo :
          /\ todo' = todo \ {c}
          /\ queue' \in IF c.listed THEN {c.lines} ELSE SetToSeqs(ToSet(c.lines))
    BY <1>2 DEF NextComponent
  <2>2. /\ pc' = "add" /\ queue = <<>> /\ toks = <<>> /\ UNCHANGED piclist
    BY <1>2 DEF NextComponent
  <2>3. ToSet(queue) = {} /\ ToSet(toks) = {}  BY <2>2 DEF ToSet
  <2>4. PICK d \in todo : l \in ToSet(d.lines)  BY <2>3 DEF Pending
  <2>5. CASE d = c  BY <1>1, <2>1, <2>2, <2>4, <2>5, VisitAll DEF Pending
  <2>6. CASE d # c  BY <2>1, <2>2, <2>4, <2>6 DEF Pending
  <2>7. QED  BY <2>5, <2>6
<1>3. CASE NextLine
  <2>1. /\ pc' = "add" /\ queue # <<>> /\ toks = <<>> /\ UNCHANGED <<piclist, todo>>
        /\ line' = Head(queue) /\ queue' = Tail(queue) /\ toks' = design.tags[line']
    BY <1>3 DEF NextLine
  <2>2. ToSet(toks) = {}  BY <2>1 DEF ToSet
  <2>3. CASE l = Head(queue)  BY <2>1, <2>3 DEF Asks, Pending
  <2>4. CASE l # Head(queue)  BY <1>1, <2>1, <2>2, <2>4, HeadTail DEF Pending
  <2>5. QED  BY <2>3, <2>4
<1>4. CASE PicNotFound \/ AddToPic
  <2>1. /\ pc' = "add" /\ toks # <<>> /\ UNCHANGED <<design, piclist, todo, queue, line>>
        /\ toks' = Tail(toks)
    BY <1>4 DEF PicNotFound, AddToPic, visitvars
  <2>2. CASE l = line /\ n \in ToSet(toks) /\ n = Head(toks)
    <3>1. AddToPic  BY <1>4, <2>2 DEF PicNotFound
    <3>2. AddWithId(pid, id)
      <4>1. PICK q \in Pids :
              /\ piclist[q].name = Head(toks)
              /\ IF HasId(line) THEN AddWithId(q, design.id[line]) ELSE AddUnassigned(q)
        BY <3>1 DEF AddToPic
      <4>2. q = pid  BY <2>2, <4>1 DEF AllFound
      <4>3. QED  BY <2>2, <4>1, <4>2
    <3>3. QED  BY <2>1, <2>2, <3>2, AddHonours
  <2>3. CASE l = line /\ n \in ToSet(toks) /\ n # Head(toks)
    <3>1. n \in ToSet(Tail(toks))  BY <1>1, <2>1, <2>3, HeadTail
    <3>2. QED  BY <2>1, <2>3, <3>1 DEF Pending
  <2>4. CASE ~(l = line /\ n \in ToSet(toks))  BY <2>1, <2>4 DEF Pending
  <2>5. QED  BY <2>2, <2>3, <2>4
<1>5. CASE StartAssign
  <2>1. todo = {} /\ queue = <<>> /\ toks = <<>>  BY <1>5 DEF StartAssign
  <2>2. QED  BY <2>1 DEF Pending, ToSet
<1>6. CASE UNCHANGED vars  BY <1>6 DEF vars, Pending
<1>7. QED
  BY <1>2, <1>3, <1>4, <1>5, <1>6 DEF Next, GatherPics, AssignId, AllIdsTried,
       WriteBack, NextPic

LEMMA NamedPendingKept ==
  ASSUME Inv, Inv', AllFound, NamedInPlace, NamedPending, [Next]_vars
  PROVE  NamedPending'
<1>1. CASE GatherPics
  <2>1. /\ pc = "gather" /\ pc' = "add" /\ UNCHANGED <<design, todo>>
    BY <1>1 DEF GatherPics, visitvars
  <2>2. todo' = design'.comps  BY <2>1 DEF NamedPending
  <2>3. QED  BY <2>1, <2>2 DEF NamedPending, Pending
<1>2. CASE pc = "gather" /\ ~GatherPics
  <2>1. UNCHANGED <<pc, design, todo>>
    BY <1>2 DEF Next, vars, NextComponent, NextLine, PicNotFound, AddToPic, StartAssign,
         AssignId, AllIdsTried, WriteBack, NextPic
  <2>2. QED  BY <1>2, <2>1 DEF NamedPending
<1>3. CASE pc # "gather"
  <2>1. /\ UNCHANGED <<design, piclist>> /\ pc' # "gather"
        /\ pc # "add" => pc' # "add"
    BY <1>3 DEF Next, vars, GatherPics, NextComponent, NextLine, PicNotFound, AddToPic,
         StartAssign, AssignId, AllIdsTried, WriteBack, NextPic
  <2>2. \A p \in Pids : ListStep(p)  BY <1>3, ListStepTaken
  <2>3. Pids' = Pids  BY <2>1 DEF Pids
  <2> SUFFICES ASSUME NEW pid \in Pids, NEW c \in design.comps, NEW l \in ToSet(c.lines),
                      Asks(pid, l), HasId(l), design.id[l] < piclist[pid].max
               PROVE  (pc' = "add" /\ Pending(pid, l)') \/ Honoured(pid, design.id[l])'
    BY <2>1, <2>3 DEF NamedPending, Asks, HasId
  <2>4. l \in Line
    <3>1. c \in Component  BY DesignFacts DEF Inv
    <3>2. c.lines \in Seq(Line)  BY <3>1 DEF Component
    <3>3. QED  BY <3>2, ToSetFinite
  <2>5. PICK id \in Ids(pid) : id = design.id[l]
    BY <2>4, DesignFacts DEF Inv, HasId, Ids
  <2>6. (pc = "add" /\ Pending(pid, l)) \/ Honoured(pid, id)
    BY <1>3, <2>5 DEF NamedPending
  <2>7. CASE pc = "add" /\ Pending(pid, l)
    <3>1. (pc' = "add" /\ Pending(pid, l)') \/ Honoured(pid, id)'
      BY <2>2, <2>4, <2>5, <2>7, PendingStep
    <3>2. QED  BY <2>1, <2>5, <3>1 DEF Honoured
  <2>8. CASE Honoured(pid, id)
    <3>1. Honoured(pid, id)'  BY <2>1, <2>2, <2>8, HonouredKept
    <3>2. QED  BY <2>1, <2>5, <3>1 DEF Honoured
  <2>9. QED  BY <2>6, <2>7, <2>8
<1>4. QED  BY <1>1, <1>2, <1>3

(* Whatever the order in which the hash tables are visited, when the       *)
(* assignment ends a position that some line names is wired to a line that *)
(* names it.                                                               *)
THEOREM NamedHonoured == Spec => []NamedIdsHonoured
<1>1. Init => NamedPending  BY DEF Init, NamedPending
<1>2. Inv /\ Inv' /\ ListInv /\ NamedPending /\ [Next]_vars => NamedPending'
  BY NamedPendingKept DEF ListInv
<1>3. Inv /\ NamedPending => NamedIdsHonoured
  <2> SUFFICES ASSUME Inv, NamedPending, Finished, NEW pid \in Pids,
                      NEW id \in FixedIn(piclist[pid])
               PROVE  Honoured(pid, id)
    BY DEF NamedIdsHonoured, Honoured
  <2>1. PICK r \in Requests(piclist[pid]) :
          /\ HasId(LineOf(r)) /\ design.id[LineOf(r)] < piclist[pid].max
          /\ id = design.id[LineOf(r)]
    BY DEF FixedIn
  <2>2. /\ r[1] \in design.comps /\ r[2] \in DOMAIN r[1].lines
        /\ r[3] \in DOMAIN design.tags[r[1].lines[r[2]]]
        /\ design.tags[r[1].lines[r[2]]][r[3]] = piclist[pid].name
    BY DEF Requests
  <2>3. LineOf(r) \in ToSet(r[1].lines) /\ Asks(pid, LineOf(r))
    BY <2>2 DEF ToSet, Asks, LineOf
  <2>4. pc = "done"  BY DEF Finished
  <2>5. QED  BY <2>1, <2>2, <2>3, <2>4 DEF NamedPending
<1>4. QED  BY <1>1, <1>2, <1>3, InvCorrect, ListInvariant, PTL DEF Spec
=============================================================================
