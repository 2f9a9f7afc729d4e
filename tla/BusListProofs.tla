---------------------------- MODULE BusListProofs ----------------------------
(***************************************************************************)
(* Proofs about build_bus_list, for every design and every order of its    *)
(* hash tables: the pieces of a bus are merged into what they agree on,    *)
(* what they disagree on is reported, and slaves and masters end on the    *)
(* bus that they name.                                                     *)
(***************************************************************************)
EXTENDS BusList, Lemmas

Hash == UNION {[tags -> Nat] : tags \in SUBSET (Tag \cup {"NSELECT"})}
Info ==
  [name : Names, width : Nat, nullsz : Nat, type : Nat, clock : Nat, gen : Nat,
   hash : Hash, slaves : Seq(Nat), masters : Seq(Nat)]

PieceOf(d, c, k) == d.comps[c].pieces[Key[k]]

(* The values that the pieces of a bus give to a tag.                      *)
Says(p, n, t) == p.kind = "map" /\ p.name = n /\ t \in DOMAIN p.val
GivenBy(d, n, t) ==
  {v \in Nat \ {0} : \E c \in DOMAIN d.comps, k \in DOMAIN Key :
     Says(PieceOf(d, c, k), n, t) /\ PieceOf(d, c, k).val[t] = v}

Disagree(d, n, t) == \E v, w \in GivenBy(d, n, t) : v # w

(* What a bus knows comes from its pieces, and the fields agree with the   *)
(* map: inserting a tag that is there has left both as they were.          *)
Sound(d, b) ==
  /\ \A t \in DOMAIN b.hash \cap Tag : b.hash[t] \in GivenBy(d, b.name, t)
  /\ b.width = Get(b.hash, "WIDTH")
  /\ "NSELECT" \in DOMAIN b.hash <=> "WIDTH" \in DOMAIN b.hash
  /\ "WIDTH" \in DOMAIN b.hash => b.hash["NSELECT"] = Select(b.hash["WIDTH"])
  /\ b.nullsz # 0 => "NULLSZ" \in DOMAIN b.hash /\ b.nullsz \in GivenBy(d, b.name, "NULLSZ")
  /\ b.clock # 0 => "CLOCK" \in DOMAIN b.hash /\ b.clock \in GivenBy(d, b.name, "CLOCK")
  /\ b.type # 0 => "TYPE" \in DOMAIN b.hash
  /\ b.gen # 0 => b.gen = Matching(b.hash)

(* The tags whose contradictions are reported under the name of the bus.   *)
Watched == {"WIDTH", "IDWIDTH", "RESET"}

(* A bus has taken notice of the value that a piece gives to a tag, or has *)
(* reported it.                                                            *)
Covered(b, t, v, reported) ==
  /\ t # "OPT_PIPE" => t \in DOMAIN b.hash
  /\ t \in Watched => b.hash[t] = v \/ <<b.name, t>> \in reported
  /\ t = "NULLSZ" => b.nullsz >= v

(* A bus only ever learns.                                                 *)
Extends(b, c) ==
  /\ c.name = b.name /\ c.nullsz >= b.nullsz
  /\ DOMAIN b.hash \subseteq DOMAIN c.hash
  /\ \A t \in DOMAIN b.hash : c.hash[t] = b.hash[t]
-----------------------------------------------------------------------------
(* The walk over the components has come past key k of component c.        *)
Visited(c, k) ==
  pc \in {"refs", "add", "done", "fatal"} \/ c < at.comp \/ (c = at.comp /\ k < at.key)

AllSound == \A i \in DOMAIN buses : Sound(design, buses[i])

(* A piece that has been visited stands for the bus that it names, which   *)
(* has taken notice of all that it says.                                   *)
Referred(c, k) ==
  LET p == PieceOf(design, c, k)
      r == ref[c][Key[k]]
  IN  IF Visited(c, k) /\ p.kind # "none" /\ p.name # NoName
        THEN /\ r \in DOMAIN buses /\ buses[r].name = p.name
             /\ \A t \in DOMAIN p.val : Covered(buses[r], t, p.val[t], errors)
        ELSE r = 0

AllReferred == \A c \in Comps, k \in DOMAIN Key : Referred(c, k)

(* merge() has come past the tags before its place, and a restart does not *)
(* take it beyond one that it has yet to learn.                            *)
BeingMerged ==
  pc = "merge" =>
    /\ at.comp \in Comps /\ merging.bus \in DOMAIN buses /\ merging.tag > 0
    /\ PieceAt(at).kind = "map" /\ PieceAt(at).name # NoName
    /\ buses[merging.bus].name = PieceAt(at).name
    /\ \A j \in DOMAIN PieceAt(at).tags : j < merging.tag =>
         LET t == PieceAt(at).tags[j]
         IN  Covered(buses[merging.bus], t, PieceAt(at).val[t], errors)

(* What has been reported is true.                                         *)
ErrorsTrue == \A n \in Names, t \in Watched : <<n, t>> \in errors => Disagree(design, n, t)

(* One bus for each name, the default bus first.                           *)
BusesNamed ==
  /\ OneBusPerName
  /\ pc = "default" => buses = <<>> /\ at = FirstPlace
  /\ pc # "default" /\ design.default # NoName => buses # <<>>

(* What each pass over the buses has left to the next.                     *)
PassesDone ==
  \A i \in DOMAIN buses : LET b == buses[i] IN
    /\ pc \in {"defns", "merge"} /\ b.gen # 0 => "TYPE" \in DOMAIN b.hash
    /\ Merged => b.gen # 0
    /\ pc \in {"add", "done"} => b.clock # 0
    /\ pc \in {"defns", "merge", "refs"} => b.slaves = <<>> /\ b.masters = <<>>

(* The components that have been attached to a bus.                        *)
Passed(c) == pc = "done" \/ c < at.comp
OnceIf(cond) == IF cond THEN 1 ELSE 0
Attached ==
  pc \in {"add", "done"} => \A c \in Comps :
    /\ Passed(c) => ~Aborts(c)
    /\ \A b \in DOMAIN buses :
         /\ Tally(buses[b].slaves, {c}) =
              OnceIf(Passed(c) /\ design.comps[c].slave /\ BusOf(c, "SLAVE") = b)
         /\ Tally(buses[b].masters, {c}) =
              OnceIf(Passed(c) /\ design.comps[c].master /\ BusOf(c, "MASTER") = b)

ListInv ==
  /\ TypeOK /\ BusesNamed /\ AllSound /\ AllReferred /\ BeingMerged
  /\ ErrorsTrue /\ PassesDone /\ Attached
-----------------------------------------------------------------------------
LEMMA KeyFacts ==
  /\ DOMAIN Key = 1..3 /\ Len(Key) = 3
  /\ Key[1] = "BUS" /\ Key[2] = "SLAVE" /\ Key[3] = "MASTER"
  /\ Range(Key) = {"BUS", "SLAVE", "MASTER"}
  /\ \A j, k \in DOMAIN Key : Key[j] = Key[k] => j = k
<1>1. /\ DOMAIN Key = 1..3 /\ Len(Key) = 3
      /\ Key[1] = "BUS" /\ Key[2] = "SLAVE" /\ Key[3] = "MASTER"
  BY DEF Key
<1>2. \A k \in 1..3 : k = 1 \/ k = 2 \/ k = 3  OBVIOUS
<1>3. Range(Key) = {"BUS", "SLAVE", "MASTER"}
  BY <1>1, <1>2 DEF Range
<1>4. \A j, k \in 1..3 : Key[j] = Key[k] => j = k
  BY <1>1, <1>2
<1>5. QED  BY <1>1, <1>3, <1>4

LEMMA DesignFacts ==
  ASSUME NEW d \in Designs
  PROVE  /\ d.default \in Names \cup {NoName}
         /\ Len(d.comps) \in Nat /\ DOMAIN d.comps = 1..Len(d.comps)
         /\ \A c \in DOMAIN d.comps :
              /\ d.comps[c].slave \in BOOLEAN /\ d.comps[c].master \in BOOLEAN
              /\ \A k \in DOMAIN Key : Piece(PieceOf(d, c, k))
<1>1. d.comps \in Seq(Range(d.comps))  BY DesignAssumption
<1>2. \A k \in DOMAIN Key : Key[k] \in Range(Key)  BY DEF Range
<1>3. QED  BY <1>1, <1>2, LenProperties, DesignAssumption DEF PieceOf

(* The table of a piece: each tag has its place, and its value.            *)
LEMMA PieceFacts ==
  ASSUME NEW p, Piece(p)
  PROVE  /\ p.kind \in {"none", "name", "map"} /\ p.name \in Names \cup {NoName}
         /\ Len(p.tags) \in Nat /\ DOMAIN p.tags = 1..Len(p.tags)
         /\ \A j \in DOMAIN p.tags : p.tags[j] \in DOMAIN p.val
         /\ \A t \in DOMAIN p.val : \E j \in DOMAIN p.tags : p.tags[j] = t
         /\ \A t \in DOMAIN p.val : t \in Tag /\ p.val[t] \in Nat \ {0}
         /\ p.val \in [DOMAIN p.val -> Nat \ {0}] /\ DOMAIN p.val \subseteq Tag
         /\ p.kind # "map" => DOMAIN p.val = {}
         /\ p.kind = "name" => p.name # NoName
<1>1. Len(p.tags) \in Nat /\ DOMAIN p.tags = 1..Len(p.tags)
  BY LenProperties DEF Piece
<1>2. \A j \in DOMAIN p.tags : p.tags[j] \in DOMAIN p.val  BY DEF Piece, Range
<1>3. \A t \in DOMAIN p.val : \E j \in DOMAIN p.tags : p.tags[j] = t
  BY DEF Piece, Range
<1>4. ASSUME p.kind # "map" PROVE DOMAIN p.val = {}
  <2>1. DOMAIN p.tags = {}  BY <1>4 DEF Piece
  <2>2. QED  BY <2>1, <1>3
<1>5. QED  BY <1>1, <1>2, <1>3, <1>4 DEF Piece

LEMMA GivenPositive ==
  ASSUME NEW d, NEW n, NEW t, NEW v \in GivenBy(d, n, t)
  PROVE  v \in Nat /\ v > 0
BY DEF GivenBy

(* What a piece of the design says is given.                               *)
LEMMA GivenByPiece ==
  ASSUME NEW d \in Designs, NEW c \in DOMAIN d.comps, NEW k \in DOMAIN Key,
         PieceOf(d, c, k).kind = "map", NEW t \in DOMAIN PieceOf(d, c, k).val
  PROVE  PieceOf(d, c, k).val[t] \in GivenBy(d, PieceOf(d, c, k).name, t)
<1>1. PieceOf(d, c, k).val[t] \in Nat \ {0}  BY DesignFacts, PieceFacts
<1>2. QED  BY <1>1 DEF GivenBy, Says
-----------------------------------------------------------------------------
(* Inserting into a table adds the tag, unless it is there.                *)
LEMMA Inserted ==
  ASSUME NEW h \in Hash, NEW t \in Tag \cup {"NSELECT"}, NEW v \in Nat
  PROVE  /\ Insert(h, t, v) \in Hash
         /\ DOMAIN Insert(h, t, v) = DOMAIN h \cup {t}
         /\ \A x \in DOMAIN h : Insert(h, t, v)[x] = h[x]
         /\ t \notin DOMAIN h => Insert(h, t, v)[t] = v
         /\ t \in DOMAIN h => Insert(h, t, v) = h
<1> DEFINE D == DOMAIN h \cup {t}
           g == [x \in D |-> IF x \in DOMAIN h THEN h[x] ELSE v]
<1>1. Insert(h, t, v) = g  BY DEF Insert
<1>2. DOMAIN h \subseteq Tag \cup {"NSELECT"} /\ h \in [DOMAIN h -> Nat]
  BY DEF Hash
<1>3. g \in [D -> Nat]  BY <1>2
<1>4. D \in SUBSET (Tag \cup {"NSELECT"})  BY <1>2
<1>5. g \in Hash  BY <1>3, <1>4, Zenon DEF Hash
<1>6. ASSUME t \in DOMAIN h PROVE g = h
  <2>1. D = DOMAIN h  BY <1>6
  <2>2. g = [x \in DOMAIN h |-> h[x]]  BY <2>1
  <2>3. QED  BY <2>2, <1>2
<1>7. QED  BY <1>1, <1>5, <1>6

LEMMA HashType ==
  ASSUME NEW h \in Hash
  PROVE  /\ DOMAIN h \subseteq Tag \cup {"NSELECT"} /\ h \in [DOMAIN h -> Nat]
         /\ \A t : Get(h, t) \in Nat
         /\ Matching(h) \in Nat
<1>1. DOMAIN h \subseteq Tag \cup {"NSELECT"} /\ h \in [DOMAIN h -> Nat]  BY DEF Hash
<1>2. QED  BY <1>1 DEF Get, Matching

LEMMA SelectType ==
  ASSUME NEW w \in Nat
  PROVE  Select(w) \in Nat
BY DEF Select

(* The types of the list of buses, and of the buses on it.                 *)
LEMMA InfoFacts ==
  ASSUME NEW b
  PROVE  b \in Info <=> /\ DOMAIN b.hash \subseteq Tag \cup {"NSELECT"}
                        /\ b \in BusInfo(DOMAIN b.hash)
<1>1. ASSUME b \in Info
      PROVE  DOMAIN b.hash \subseteq Tag \cup {"NSELECT"} /\ b \in BusInfo(DOMAIN b.hash)
  <2>1. b.hash \in Hash  BY <1>1 DEF Info
  <2>2. b.hash \in [DOMAIN b.hash -> Nat] /\ DOMAIN b.hash \subseteq Tag \cup {"NSELECT"}
    BY <2>1, HashType
  <2>3. QED  BY <1>1, <2>2 DEF Info, BusInfo
<1>2. ASSUME DOMAIN b.hash \subseteq Tag \cup {"NSELECT"}, b \in BusInfo(DOMAIN b.hash)
      PROVE  b \in Info
  <2>1. b.hash \in [DOMAIN b.hash -> Nat]  BY <1>2 DEF BusInfo
  <2>2. b.hash \in Hash  BY <2>1, <1>2, Zenon DEF Hash
  <2>3. QED  BY <1>2, <2>2 DEF Info, BusInfo
<1>3. QED  BY <1>1, <1>2

BusesType(B) ==
  /\ B \in Seq(Range(B))
  /\ \A b \in DOMAIN B :
       LET tags == DOMAIN B[b].hash
       IN  tags \subseteq Tag \cup {"NSELECT"} /\ B[b] \in BusInfo(tags)

LEMMA ListType ==
  ASSUME NEW B
  PROVE  BusesType(B) <=> B \in Seq(Info)
<1>1. ASSUME BusesType(B) PROVE B \in Seq(Info)
  <2>1. B \in Seq(Range(B))  BY <1>1 DEF BusesType
  <2>2. \A i \in DOMAIN B : B[i] \in Info  BY <1>1, InfoFacts DEF BusesType
  <2>3. Len(B) \in Nat /\ DOMAIN B = 1..Len(B) /\ B = [i \in 1..Len(B) |-> B[i]]
    BY <2>1, LenProperties
  <2>4. QED  BY <2>2, <2>3
<1>2. ASSUME B \in Seq(Info) PROVE BusesType(B)
  <2>1. Len(B) \in Nat /\ DOMAIN B = 1..Len(B)  BY <1>2, LenProperties
  <2>2. \A i \in DOMAIN B : B[i] \in Info /\ B[i] \in Range(B)  BY <1>2, <2>1, ElementOfSeq DEF Range
  <2>3. B = [i \in 1..Len(B) |-> B[i]]  BY <1>2, <2>1
  <2>4. B \in Seq(Range(B))  BY <2>1, <2>2, <2>3
  <2>5. QED  BY <2>2, <2>4, InfoFacts DEF BusesType
<1>3. QED  BY <1>1, <1>2
-----------------------------------------------------------------------------
(* find_bus(): the place of the bus of that name, if there is one.         *)
LEMMA FindFacts ==
  ASSUME buses \in Seq(Info), NEW n
  PROVE  /\ Find(n) \in 0..Len(buses)
         /\ Find(n) = 0 => \A i \in DOMAIN buses : buses[i].name # n
         /\ Find(n) # 0 => Find(n) \in DOMAIN buses /\ buses[Find(n)].name = n
<1> DEFINE I == {i \in 1..Len(buses) : buses[i].name = n}
<1>1. Len(buses) \in Nat /\ DOMAIN buses = 1..Len(buses)  BY LenProperties
<1>2. Find(n) = IF I # {} THEN Min(I) ELSE 0  BY DEF Find, SelectInSeq
<1>3. ASSUME I # {} PROVE Min(I) \in I
  <2>1. I \subseteq Nat  BY <1>1
  <2>2. PICK m \in I : \A x \in I : m <= x  BY <2>1, <1>3, LeastNatural
  <2>3. QED  BY <2>2 DEF Min
<1>4. QED  BY <1>1, <1>2, <1>3

LEMMA NewBusFacts ==
  ASSUME NEW d, NEW n \in Names
  PROVE  /\ NewBus(n) \in Info /\ NewBus(n).name = n /\ Sound(d, NewBus(n))
         /\ NewBus(n).slaves = <<>> /\ NewBus(n).masters = <<>> /\ NewBus(n).gen = 0
<1> DEFINE b == NewBus(n)
<1>1. NoTags \in [{} -> Nat] /\ DOMAIN NoTags = {}  BY DEF NoTags
<1>2. NoTags \in Hash  BY <1>1, Zenon DEF Hash
<1>3. b \in Info  BY <1>2 DEF NewBus, Info
<1>4. /\ b.name = n /\ b.hash = NoTags /\ b.width = 0 /\ b.nullsz = 0 /\ b.clock = 0
      /\ b.type = 0 /\ b.gen = 0 /\ b.slaves = <<>> /\ b.masters = <<>>
  BY DEF NewBus
<1> HIDE DEF b
<1>5. Sound(d, b)  BY <1>1, <1>4 DEF Sound, Get
<1>6. QED  BY <1>3, <1>4, <1>5 DEF b

(* The bus that is made from a piece knows all that the piece says.        *)
LEMMA InitBusFacts ==
  ASSUME NEW d \in Designs, NEW c \in DOMAIN d.comps, NEW k \in DOMAIN Key,
         NEW p, p = PieceOf(d, c, k), p.kind = "map", p.name # NoName
  PROVE  /\ InitBus(p) \in Info /\ InitBus(p).name = p.name /\ Sound(d, InitBus(p))
         /\ InitBus(p).slaves = <<>> /\ InitBus(p).masters = <<>>
         /\ InitBus(p).gen # 0 => "TYPE" \in DOMAIN InitBus(p).hash
         /\ \A r : \A t \in DOMAIN p.val : Covered(InitBus(p), t, p.val[t], r)
<1> DEFINE has(t) == t \in DOMAIN p.val
           h == IF has("WIDTH") THEN Insert(p.val, "NSELECT", Select(p.val["WIDTH"]))
                                ELSE p.val
           b == InitBus(p)
<1>1. /\ Piece(p) /\ p.name \in Names /\ p.val \in [DOMAIN p.val -> Nat \ {0}]
      /\ DOMAIN p.val \subseteq Tag /\ \A t \in DOMAIN p.val : p.val[t] \in Nat \ {0}
  BY DesignFacts, PieceFacts
<1>2. p.val \in [DOMAIN p.val -> Nat]  BY <1>1
<1>3. p.val \in Hash  BY <1>1, <1>2, Zenon DEF Hash
<1>4. "NSELECT" \notin DOMAIN p.val  BY <1>1 DEF Tag
<1>5. /\ h \in Hash /\ \A t \in DOMAIN p.val : t \in DOMAIN h /\ h[t] = p.val[t]
      /\ DOMAIN h \cap Tag = DOMAIN p.val
      /\ "NSELECT" \in DOMAIN h <=> has("WIDTH")
      /\ has("WIDTH") => h["NSELECT"] = Select(p.val["WIDTH"])
  <2>1. CASE has("WIDTH")
    <3>1. Select(p.val["WIDTH"]) \in Nat  BY <2>1, <1>1, SelectType
    <3>2. /\ h \in Hash /\ DOMAIN h = DOMAIN p.val \cup {"NSELECT"}
          /\ \A t \in DOMAIN p.val : h[t] = p.val[t]
          /\ h["NSELECT"] = Select(p.val["WIDTH"])
      BY <2>1, <3>1, <1>3, <1>4, Inserted
    <3>3. "NSELECT" \notin Tag  BY DEF Tag
    <3>4. QED  BY <3>2, <3>3, <2>1, <1>1
  <2>2. CASE ~has("WIDTH")
    <3>1. h = p.val  BY <2>2
    <3>2. QED  BY <3>1, <2>2, <1>1, <1>3, <1>4
  <2>3. QED  BY <2>1, <2>2
<1>6. /\ b.name = p.name /\ b.hash = h /\ b.width = Get(p.val, "WIDTH")
      /\ b.nullsz = Get(p.val, "NULLSZ") /\ b.clock = 0 /\ b.type = 0
      /\ b.gen = (IF has("TYPE") THEN Matching(h) ELSE 0)
      /\ b.slaves = <<>> /\ b.masters = <<>>
      /\ b = [name |-> b.name, width |-> b.width, nullsz |-> b.nullsz, type |-> b.type,
              clock |-> b.clock, gen |-> b.gen, hash |-> b.hash, slaves |-> b.slaves,
              masters |-> b.masters]
  BY DEF InitBus, NewBus, Generator
<1>7. Get(p.val, "WIDTH") \in Nat /\ Get(p.val, "NULLSZ") \in Nat /\ Matching(h) \in Nat
  BY <1>3, <1>5, HashType
<1>8. \A t \in DOMAIN p.val : p.val[t] \in GivenBy(d, p.name, t)  BY GivenByPiece
<1> HIDE DEF b, h
<1>9. b \in Info
  <2>1. b.gen \in Nat /\ b.width \in Nat /\ b.nullsz \in Nat /\ b.clock \in Nat /\ b.type \in Nat
    BY <1>6, <1>7
  <2>2. b.name \in Names /\ b.hash \in Hash  BY <1>1, <1>5, <1>6
  <2>3. b.slaves \in Seq(Nat) /\ b.masters \in Seq(Nat)  BY <1>6
  <2>4. QED  BY <1>6, <2>1, <2>2, <2>3, Zenon DEF Info
<1>10. Sound(d, b)
  <2>1. \A t \in DOMAIN b.hash \cap Tag : b.hash[t] \in GivenBy(d, b.name, t)
    BY <1>5, <1>6, <1>8
  <2>2. b.width = Get(b.hash, "WIDTH")  BY <1>5, <1>6 DEF Get, Tag
  <2>3. b.nullsz # 0 => "NULLSZ" \in DOMAIN b.hash /\ b.nullsz \in GivenBy(d, b.name, "NULLSZ")
    BY <1>5, <1>6, <1>8 DEF Get
  <2>4. /\ "NSELECT" \in DOMAIN b.hash <=> "WIDTH" \in DOMAIN b.hash
        /\ "WIDTH" \in DOMAIN b.hash => b.hash["NSELECT"] = Select(b.hash["WIDTH"])
    BY <1>5, <1>6 DEF Tag
  <2>5. b.gen # 0 => b.gen = Matching(b.hash)  BY <1>6
  <2>6. QED  BY <1>6, <2>1, <2>2, <2>3, <2>4, <2>5 DEF Sound
<1>11. \A r : \A t \in DOMAIN p.val : Covered(b, t, p.val[t], r)
  <2> SUFFICES ASSUME NEW r, NEW t \in DOMAIN p.val PROVE Covered(b, t, p.val[t], r)
    OBVIOUS
  <2>1. t \in DOMAIN b.hash /\ b.hash[t] = p.val[t]  BY <1>5, <1>6
  <2>2. t = "NULLSZ" => b.nullsz = p.val[t]  BY <1>6 DEF Get
  <2>3. p.val[t] \in Nat  BY <1>1
  <2>4. QED  BY <2>1, <2>2, <2>3 DEF Covered
<1>12. b.gen # 0 => "TYPE" \in DOMAIN b.hash  BY <1>5, <1>6
<1>13. b = InitBus(p)  BY DEF b
<1>14. QED  BY <1>6, <1>9, <1>10, <1>11, <1>12, <1>13
-----------------------------------------------------------------------------
LEMMA InfoRecord ==
  ASSUME NEW b
  PROVE  b \in Info <=>
           /\ b = [name |-> b.name, width |-> b.width, nullsz |-> b.nullsz, type |-> b.type,
                   clock |-> b.clock, gen |-> b.gen, hash |-> b.hash, slaves |-> b.slaves,
                   masters |-> b.masters]
           /\ b.name \in Names /\ b.width \in Nat /\ b.nullsz \in Nat /\ b.type \in Nat
           /\ b.clock \in Nat /\ b.gen \in Nat /\ b.hash \in Hash
           /\ b.slaves \in Seq(Nat) /\ b.masters \in Seq(Nat)
BY Zenon DEF Info

(* Copying a tag that is there into a table that keeps what it has changes *)
(* nothing.                                                                *)
LEMMA CopyNothing ==
  ASSUME NEW b \in Info, NEW t \in Tag, NEW v \in Nat
  PROVE  Copy(b, t, v) = b
<1>1. CASE t \in {"OPT_PIPE", "CLOCK"} /\ t \in DOMAIN b.hash
  <2>1. b.hash \in Hash  BY InfoRecord
  <2>2. Insert(b.hash, t, v) = b.hash  BY <1>1, <2>1, Inserted
  <2>3. Copy(b, t, v) = [b EXCEPT !.hash = Insert(@, t, v)]  BY <1>1 DEF Copy
  <2>4. [b EXCEPT !.hash = b.hash] = b  BY InfoRecord
  <2>5. QED  BY <2>2, <2>3, <2>4
<1>2. QED  BY <1>1 DEF Copy

LEMMA ExtendsItself ==
  ASSUME NEW b \in Info
  PROVE  Extends(b, b)
BY InfoRecord DEF Extends

LEMMA CoveredKept ==
  ASSUME NEW b \in Info, NEW c \in Info, Extends(b, c), NEW r, NEW s, r \subseteq s,
         NEW t, NEW v \in Nat, Covered(b, t, v, r)
  PROVE  Covered(c, t, v, s)
<1>1. b.nullsz \in Nat /\ c.nullsz \in Nat  BY InfoRecord
<1>2. t \in Watched => t # "OPT_PIPE"  BY DEF Watched
<1>3. t = "NULLSZ" => c.nullsz >= v  BY <1>1 DEF Covered, Extends
<1>4. QED  BY <1>2, <1>3 DEF Covered, Extends

(* What Learn() makes of a bus, field by field.                            *)
LEMMA LearnFields ==
  ASSUME NEW b \in Info, NEW t \in Tag, NEW v \in Nat
  PROVE  LET l == Learn(b, t, v)
             h == Insert(b.hash, t, v)
         IN  /\ l \in Info /\ l.name = b.name /\ l.gen = b.gen
             /\ l.slaves = b.slaves /\ l.masters = b.masters
             /\ l.hash = IF t = "WIDTH" THEN Insert(h, "NSELECT", Select(v)) ELSE h
             /\ l.width = IF t = "WIDTH" THEN v ELSE b.width
             /\ l.nullsz = IF t = "NULLSZ" /\ v > b.nullsz THEN v ELSE b.nullsz
             /\ l.type = IF t = "TYPE" THEN v ELSE b.type
             /\ l.clock = IF t = "CLOCK" THEN v ELSE b.clock
<1> DEFINE l == Learn(b, t, v)
           h == Insert(b.hash, t, v)
           w == IF t = "WIDTH" THEN Insert(h, "NSELECT", Select(v)) ELSE h
<1>1. h \in Hash  BY InfoRecord, Inserted
<1>2. w \in Hash
  <2>1. Select(v) \in Nat  BY SelectType
  <2>2. Insert(h, "NSELECT", Select(v)) \in Hash  BY <1>1, <2>1, Inserted
  <2>3. QED  BY <1>1, <2>2
<1>3. /\ b = [name |-> b.name, width |-> b.width, nullsz |-> b.nullsz, type |-> b.type,
              clock |-> b.clock, gen |-> b.gen, hash |-> b.hash, slaves |-> b.slaves,
              masters |-> b.masters]
      /\ b.name \in Names /\ b.width \in Nat /\ b.nullsz \in Nat /\ b.type \in Nat
      /\ b.clock \in Nat /\ b.gen \in Nat /\ b.slaves \in Seq(Nat) /\ b.masters \in Seq(Nat)
  BY InfoRecord
<1> HIDE DEF h
<1>4. l = [name |-> b.name,
           width |-> IF t = "WIDTH" THEN v ELSE b.width,
           nullsz |-> IF t = "NULLSZ" /\ v > b.nullsz THEN v ELSE b.nullsz,
           type |-> IF t = "TYPE" THEN v ELSE b.type,
           clock |-> IF t = "CLOCK" THEN v ELSE b.clock,
           gen |-> b.gen, hash |-> w, slaves |-> b.slaves, masters |-> b.masters]
  <2> DEFINE known == [b EXCEPT !.hash = h]
  <2>1. known = [name |-> b.name, width |-> b.width, nullsz |-> b.nullsz, type |-> b.type,
                 clock |-> b.clock, gen |-> b.gen, hash |-> h, slaves |-> b.slaves,
                 masters |-> b.masters]
    <3>1. \A f1, f2, f3, f4, f5, f6, f7, f8, f9 :
            [[name |-> f1, width |-> f2, nullsz |-> f3, type |-> f4, clock |-> f5, gen |-> f6,
              hash |-> f7, slaves |-> f8, masters |-> f9] EXCEPT !.hash = h]
            = [name |-> f1, width |-> f2, nullsz |-> f3, type |-> f4, clock |-> f5, gen |-> f6,
               hash |-> h, slaves |-> f8, masters |-> f9]
      OBVIOUS
    <3>2. QED  BY <3>1, <1>3
  <2>2. l = CASE t = "WIDTH"  -> [known EXCEPT !.width = v, !.hash = Insert(@, "NSELECT", Select(v))]
              [] t = "NULLSZ" -> [known EXCEPT !.nullsz = IF v > @ THEN v ELSE @]
              [] t = "TYPE"   -> [known EXCEPT !.type = v]
              [] t = "CLOCK"  -> [known EXCEPT !.clock = v]
              [] OTHER        -> known
    BY DEF Learn, h
  <2> HIDE DEF known
  <2>3. CASE t = "WIDTH"
    <3>1. l = [known EXCEPT !.width = v, !.hash = Insert(@, "NSELECT", Select(v))]
      BY <2>2, <2>3
    <3>2. QED  BY <3>1, <2>1, <2>3
  <2>4. CASE t = "NULLSZ"
    <3>1. l = [known EXCEPT !.nullsz = IF v > @ THEN v ELSE @]  BY <2>2, <2>4
    <3>2. QED  BY <3>1, <2>1, <2>4
  <2>5. CASE t = "TYPE"
    <3>1. l = [known EXCEPT !.type = v]  BY <2>2, <2>5
    <3>2. QED  BY <3>1, <2>1, <2>5
  <2>6. CASE t = "CLOCK"
    <3>1. l = [known EXCEPT !.clock = v]  BY <2>2, <2>6
    <3>2. QED  BY <3>1, <2>1, <2>6
  <2>7. CASE t \notin {"WIDTH", "NULLSZ", "TYPE", "CLOCK"}
    <3>1. l = known  BY <2>2, <2>7
    <3>2. QED  BY <3>1, <2>1, <2>7
  <2>8. QED  BY <2>3, <2>4, <2>5, <2>6, <2>7
<1> HIDE DEF l, w
<1>5. l \in Info  BY <1>2, <1>3, <1>4, InfoRecord
<1>6. QED  BY <1>4, <1>5 DEF l, h, w
-----------------------------------------------------------------------------
(* The conditions of merge(), one by one.                                  *)
LEMMA NewsFacts ==
  ASSUME NEW b \in Info, NEW t \in Tag, NEW v \in Nat
  PROVE  /\ IsNews(b, t, v) <=> \/ t = "WIDTH" /\ b.width = 0
                                \/ t = "NULLSZ" /\ b.nullsz # v
                                \/ t = "TYPE" /\ b.type = 0
                                \/ t = "CLOCK" /\ b.clock = 0
                                \/ t \in {"IDWIDTH", "RESET"} /\ t \notin DOMAIN b.hash
         /\ t \in Watched =>
              (Contradicts(b, t, v) <=> IF t = "WIDTH" THEN b.width # v ELSE b.hash[t] # v)
<1>1. t \in {"WIDTH", "NULLSZ", "IDWIDTH", "TYPE", "RESET", "CLOCK", "OPT_PIPE"}  BY DEF Tag
<1>2. CASE t = "WIDTH"  BY <1>2 DEF IsNews, Contradicts
<1>3. CASE t = "NULLSZ"  BY <1>3 DEF IsNews, Watched
<1>4. CASE t = "TYPE"  BY <1>4 DEF IsNews, Watched
<1>5. CASE t = "CLOCK"  BY <1>5 DEF IsNews, Watched
<1>6. CASE t \in {"IDWIDTH", "RESET"}  BY <1>6 DEF IsNews, Contradicts
<1>7. CASE t = "OPT_PIPE"  BY <1>7 DEF IsNews, Watched
<1>8. QED  BY <1>1, <1>2, <1>3, <1>4, <1>5, <1>6, <1>7

(* The table of a bus that learns of a tag.                                *)
LEMMA LearnTable ==
  ASSUME NEW d, NEW b \in Info, Sound(d, b), NEW t \in Tag, NEW v \in Nat, IsNews(b, t, v)
  PROVE  LET h == Learn(b, t, v).hash
         IN  /\ h \in Hash /\ t \in DOMAIN h
             /\ DOMAIN h \cap Tag = (DOMAIN b.hash \cap Tag) \cup {t}
             /\ \A x \in DOMAIN b.hash : x \in DOMAIN h /\ h[x] = b.hash[x]
             /\ t \notin DOMAIN b.hash => h[t] = v
             /\ t = "WIDTH" => /\ t \notin DOMAIN b.hash
                               /\ "NSELECT" \in DOMAIN h /\ h["NSELECT"] = Select(v)
             /\ t # "WIDTH" => ("NSELECT" \in DOMAIN h <=> "NSELECT" \in DOMAIN b.hash)
<1> DEFINE h == Learn(b, t, v).hash
           g == Insert(b.hash, t, v)
<1>1. b.hash \in Hash  BY InfoRecord
<1>2. /\ g \in Hash /\ DOMAIN g = DOMAIN b.hash \cup {t}
      /\ \A x \in DOMAIN b.hash : g[x] = b.hash[x]
      /\ t \notin DOMAIN b.hash => g[t] = v
  BY <1>1, Inserted
<1>3. h = IF t = "WIDTH" THEN Insert(g, "NSELECT", Select(v)) ELSE g  BY LearnFields
<1>4. h \in Hash  BY LearnFields, InfoRecord
<1>5. "NSELECT" \notin Tag  BY DEF Tag
<1> HIDE DEF h, g
<1>6. CASE t = "WIDTH"
  <2>1. b.width = 0  BY <1>6, NewsFacts
  <2>2. \A x \in DOMAIN b.hash \cap Tag : b.hash[x] > 0
    BY GivenPositive DEF Sound
  <2>3. t \notin DOMAIN b.hash
    <3>1. t \in DOMAIN b.hash => b.width = b.hash[t]  BY <1>6 DEF Sound, Get
    <3>2. QED  BY <2>1, <2>2, <3>1
  <2>4. "NSELECT" \notin DOMAIN b.hash  BY <1>6, <2>3 DEF Sound
  <2>5. "NSELECT" \notin DOMAIN g  BY <2>4, <1>2, <1>5
  <2>6. Select(v) \in Nat  BY SelectType
  <2>7. /\ DOMAIN h = DOMAIN g \cup {"NSELECT"}
        /\ \A x \in DOMAIN g : h[x] = g[x]
        /\ h["NSELECT"] = Select(v)
    BY <1>2, <1>3, <1>6, <2>5, <2>6, Inserted
  <2>8. QED  BY <1>2, <1>4, <1>5, <1>6, <2>3, <2>7 DEF h
<1>7. CASE t # "WIDTH"
  <2>1. h = g  BY <1>3, <1>7
  <2>2. QED  BY <1>2, <1>4, <1>5, <1>7, <2>1 DEF h
<1>8. QED  BY <1>6, <1>7

LEMMA LearnFacts ==
  ASSUME NEW d, NEW b \in Info, Sound(d, b), NEW t \in Tag,
         NEW v \in GivenBy(d, b.name, t), IsNews(b, t, v),
         b.gen # 0 => "TYPE" \in DOMAIN b.hash
  PROVE  /\ Sound(d, Learn(b, t, v)) /\ Extends(b, Learn(b, t, v))
         /\ \A r : Covered(Learn(b, t, v), t, v, r)
<1> DEFINE l == Learn(b, t, v)
           h == Learn(b, t, v).hash
<1>1. v \in Nat /\ v > 0  BY GivenPositive
<1>2. /\ h \in Hash /\ t \in DOMAIN h
      /\ DOMAIN h \cap Tag = (DOMAIN b.hash \cap Tag) \cup {t}
      /\ \A x \in DOMAIN b.hash : x \in DOMAIN h /\ h[x] = b.hash[x]
      /\ t \notin DOMAIN b.hash => h[t] = v
      /\ t = "WIDTH" => /\ t \notin DOMAIN b.hash
                        /\ "NSELECT" \in DOMAIN h /\ h["NSELECT"] = Select(v)
      /\ t # "WIDTH" => ("NSELECT" \in DOMAIN h <=> "NSELECT" \in DOMAIN b.hash)
  BY <1>1, LearnTable
<1>3. /\ l \in Info /\ l.name = b.name /\ l.gen = b.gen /\ l.hash = h
      /\ l.width = IF t = "WIDTH" THEN v ELSE b.width
      /\ l.nullsz = IF t = "NULLSZ" /\ v > b.nullsz THEN v ELSE b.nullsz
      /\ l.type = IF t = "TYPE" THEN v ELSE b.type
      /\ l.clock = IF t = "CLOCK" THEN v ELSE b.clock
  BY <1>1, LearnFields
<1>4. b.nullsz \in Nat  BY InfoRecord
<1>5. /\ IsNews(b, t, v)
      /\ t \in {"IDWIDTH", "RESET"} => t \notin DOMAIN b.hash
  BY <1>1, NewsFacts
<1> HIDE DEF l, h
<1>6. Extends(b, l)  BY <1>1, <1>2, <1>3, <1>4 DEF Extends
<1>7. \A r : Covered(l, t, v, r)
  <2>1. t \in Watched => h[t] = v  BY <1>2, <1>5 DEF Watched
  <2>2. t = "NULLSZ" => l.nullsz >= v  BY <1>1, <1>3, <1>4
  <2>3. QED  BY <1>2, <1>3, <2>1, <2>2 DEF Covered
<1>8. Sound(d, l)
  <2>1. \A x \in DOMAIN l.hash \cap Tag : l.hash[x] \in GivenBy(d, l.name, x)
    <3> SUFFICES ASSUME NEW x \in DOMAIN h \cap Tag PROVE h[x] \in GivenBy(d, b.name, x)
      BY <1>3
    <3>1. CASE x \in DOMAIN b.hash  BY <3>1, <1>2 DEF Sound
    <3>2. CASE x \notin DOMAIN b.hash  BY <3>2, <1>2
    <3>3. QED  BY <3>1, <3>2
  <2>2. l.width = Get(l.hash, "WIDTH")
    <3>1. CASE t = "WIDTH"  BY <3>1, <1>2, <1>3 DEF Get
    <3>2. CASE t # "WIDTH"
      <4>1. "WIDTH" \in DOMAIN h <=> "WIDTH" \in DOMAIN b.hash  BY <3>2, <1>2 DEF Tag
      <4>2. QED  BY <3>2, <4>1, <1>2, <1>3 DEF Get, Sound
    <3>3. QED  BY <3>1, <3>2
  <2>3. /\ "NSELECT" \in DOMAIN l.hash <=> "WIDTH" \in DOMAIN l.hash
        /\ "WIDTH" \in DOMAIN l.hash => l.hash["NSELECT"] = Select(l.hash["WIDTH"])
    <3>1. CASE t = "WIDTH"  BY <3>1, <1>2, <1>3
    <3>2. CASE t # "WIDTH"
      <4>1. "WIDTH" \in DOMAIN h <=> "WIDTH" \in DOMAIN b.hash  BY <3>2, <1>2 DEF Tag
      <4>2. "WIDTH" \in DOMAIN b.hash => h["NSELECT"] = b.hash["NSELECT"] /\ h["WIDTH"] = b.hash["WIDTH"]
        BY <1>2 DEF Sound
      <4>3. QED  BY <3>2, <4>1, <4>2, <1>2, <1>3 DEF Sound
    <3>3. QED  BY <3>1, <3>2
  <2>4. l.nullsz # 0 => "NULLSZ" \in DOMAIN l.hash /\ l.nullsz \in GivenBy(d, l.name, "NULLSZ")
    <3>1. CASE t = "NULLSZ" /\ v > b.nullsz  BY <3>1, <1>2, <1>3
    <3>2. CASE ~(t = "NULLSZ" /\ v > b.nullsz)  BY <3>2, <1>2, <1>3 DEF Sound
    <3>3. QED  BY <3>1, <3>2
  <2>5. l.clock # 0 => "CLOCK" \in DOMAIN l.hash /\ l.clock \in GivenBy(d, l.name, "CLOCK")
    <3>1. CASE t = "CLOCK"  BY <3>1, <1>2, <1>3
    <3>2. CASE t # "CLOCK"  BY <3>2, <1>2, <1>3 DEF Sound
    <3>3. QED  BY <3>1, <3>2
  <2>6. l.type # 0 => "TYPE" \in DOMAIN l.hash
    BY <1>2, <1>3 DEF Sound
  <2>7. l.gen # 0 => l.gen = Matching(l.hash)
    <3>1. b.gen # 0 => "TYPE" \in DOMAIN h /\ h["TYPE"] = b.hash["TYPE"]  BY <1>2
    <3>2. QED  BY <3>1, <1>3 DEF Sound, Matching
  <2>8. QED  BY <2>1, <2>2, <2>3, <2>4, <2>5, <2>6, <2>7 DEF Sound
<1>9. QED  BY <1>6, <1>7, <1>8 DEF l

(* A tag that is no news is known, or it is reported as a contradiction.   *)
LEMMA NoNewsFacts ==
  ASSUME NEW d, NEW b \in Info, Sound(d, b), NEW t \in Tag,
         NEW v \in GivenBy(d, b.name, t), ~IsNews(b, t, v)
  PROVE  /\ \A r : (Contradicts(b, t, v) => <<b.name, t>> \in r) => Covered(b, t, v, r)
         /\ t \in Watched /\ Contradicts(b, t, v) => Disagree(d, b.name, t)
<1>1. v \in Nat /\ v > 0  BY GivenPositive
<1>2. b.nullsz \in Nat /\ b.width \in Nat /\ b.hash \in Hash  BY InfoRecord
<1>3. /\ t = "WIDTH" => b.width # 0
      /\ t = "NULLSZ" => b.nullsz = v
      /\ t = "TYPE" => b.type # 0
      /\ t = "CLOCK" => b.clock # 0
      /\ t \in {"IDWIDTH", "RESET"} => t \in DOMAIN b.hash
      /\ t \in Watched =>
           (Contradicts(b, t, v) <=> IF t = "WIDTH" THEN b.width # v ELSE b.hash[t] # v)
  BY <1>1, NewsFacts
<1>4. t = "WIDTH" => t \in DOMAIN b.hash /\ b.hash[t] = b.width
  BY <1>3 DEF Sound, Get
<1>5. t # "OPT_PIPE" => t \in DOMAIN b.hash
  BY <1>1, <1>3, <1>4 DEF Sound, Tag
<1>6. t \in Watched => (Contradicts(b, t, v) <=> b.hash[t] # v)
  BY <1>3, <1>4
<1>7. \A r : (Contradicts(b, t, v) => <<b.name, t>> \in r) => Covered(b, t, v, r)
  BY <1>1, <1>2, <1>3, <1>5, <1>6 DEF Covered
<1>8. ASSUME t \in Watched, Contradicts(b, t, v) PROVE Disagree(d, b.name, t)
  <2>1. t \in DOMAIN b.hash \cap Tag  BY <1>5, <1>8 DEF Watched
  <2>2. b.hash[t] \in GivenBy(d, b.name, t)  BY <2>1 DEF Sound
  <2>3. b.hash[t] # v  BY <1>6, <1>8
  <2>4. QED  BY <2>2, <2>3 DEF Disagree
<1>9. QED  BY <1>7, <1>8
-----------------------------------------------------------------------------
LEMMA StateFacts ==
  ASSUME TypeOK
  PROVE  /\ design \in Designs
         /\ Len(design.comps) \in Nat /\ Comps = 1..Len(design.comps)
         /\ buses \in Seq(Info) /\ Len(buses) \in Nat /\ DOMAIN buses = 1..Len(buses)
         /\ \A i \in DOMAIN buses : buses[i] \in Info
         /\ at \in [comp : 1..(Len(design.comps) + 1), key : 1..3]
         /\ merging \in [bus : 0..Len(buses), tag : Nat]
         /\ ref \in [Comps -> [Range(Key) -> 0..Len(buses)]]
         /\ PieceAt(at) = PieceOf(design, at.comp, at.key)
         /\ at.comp \in Comps => Piece(PieceAt(at))
<1>1. design \in Designs  BY DEF TypeOK
<1>2. BusesType(buses)  BY DEF TypeOK, BusesType
<1>3. buses \in Seq(Info)  BY <1>2, ListType
<1>4. Len(buses) \in Nat /\ DOMAIN buses = 1..Len(buses) /\ \A i \in DOMAIN buses : buses[i] \in Info
  BY <1>3, LenProperties, ElementOfSeq
<1>5. Len(design.comps) \in Nat /\ Comps = 1..Len(design.comps)
  BY <1>1, DesignFacts DEF Comps
<1>6. at \in [comp : 1..(Len(design.comps) + 1), key : 1..3]
  BY KeyFacts DEF TypeOK
<1>7. PieceAt(at) = PieceOf(design, at.comp, at.key)
  BY DEF PieceAt, PieceOf
<1>8. at.comp \in Comps => Piece(PieceAt(at))
  BY <1>1, <1>6, <1>7, DesignFacts, KeyFacts DEF Comps
<1>9. QED  BY <1>1, <1>3, <1>4, <1>5, <1>6, <1>7, <1>8 DEF TypeOK

(* What has been walked past after one more piece.                         *)
LEMMA NextPlaceFacts ==
  ASSUME TypeOK, at.comp \in Comps
  PROVE  /\ NextPlace(at) \in [comp : 1..(Len(design.comps) + 1), key : 1..3]
         /\ \A c \in Comps, k \in 1..3 :
              (c < NextPlace(at).comp \/ (c = NextPlace(at).comp /\ k < NextPlace(at).key)) <=>
              (c < at.comp \/ (c = at.comp /\ k < at.key) \/ (c = at.comp /\ k = at.key))
<1>1. /\ Len(design.comps) \in Nat /\ Comps = 1..Len(design.comps)
      /\ at \in [comp : 1..(Len(design.comps) + 1), key : 1..3]
  BY StateFacts
<1>2. CASE at.key < 3
  <2>1. NextPlace(at) = [at EXCEPT !.key = @ + 1]  BY <1>2, KeyFacts DEF NextPlace
  <2>2. NextPlace(at).comp = at.comp /\ NextPlace(at).key = at.key + 1
        /\ NextPlace(at) \in [comp : 1..(Len(design.comps) + 1), key : 1..3]
    BY <2>1, <1>1, <1>2
  <2>3. QED  BY <2>2, <1>1, <1>2
<1>3. CASE ~(at.key < 3)
  <2>1. NextPlace(at) = [comp |-> at.comp + 1, key |-> 1]  BY <1>3, KeyFacts DEF NextPlace
  <2>2. NextPlace(at).comp = at.comp + 1 /\ NextPlace(at).key = 1 /\ at.key = 3
        /\ NextPlace(at) \in [comp : 1..(Len(design.comps) + 1), key : 1..3]
    BY <2>1, <1>1, <1>3
  <2>3. QED  BY <2>2, <1>1
<1>4. QED  BY <1>2, <1>3

(* Buses are added, and each of them learns.                               *)
Grown(B, C) ==
  /\ DOMAIN B \subseteq DOMAIN C
  /\ \A i \in DOMAIN B : Extends(B[i], C[i])

LEMMA GrownItself ==
  ASSUME NEW B \in Seq(Info)
  PROVE  Grown(B, B)
<1>1. \A i \in DOMAIN B : B[i] \in Info  BY LenProperties, ElementOfSeq
<1>2. QED  BY <1>1, ExtendsItself DEF Grown

LEMMA GrownByOne ==
  ASSUME NEW B \in Seq(Info), NEW b \in Info
  PROVE  Grown(B, Append(B, b))
<1>1. Len(B) \in Nat /\ DOMAIN B = 1..Len(B)  BY LenProperties
<1>2. \A i \in DOMAIN B : B[i] \in Info  BY <1>1, ElementOfSeq
<1>3. /\ DOMAIN Append(B, b) = 1..(Len(B) + 1)
      /\ \A i \in 1..Len(B) : Append(B, b)[i] = B[i]
  BY Appended
<1>4. QED  BY <1>1, <1>2, <1>3, ExtendsItself DEF Grown

(* What a turn of merge() does: the bus takes notice of the tag at which   *)
(* it is, or the contradiction is reported.                                *)
LEMMA MergeFacts ==
  ASSUME ListInv, MergeTag
  PROVE  LET p == PieceAt(at)
             m == merging.bus
             t == p.tags[merging.tag]
         IN  /\ at.comp \in Comps /\ m \in DOMAIN buses
             /\ p.kind = "map" /\ p.name # NoName /\ buses[m].name = p.name
             /\ merging.tag \in DOMAIN p.tags /\ t \in DOMAIN p.val
             /\ \E new \in Info :
                  /\ buses' = [buses EXCEPT ![m] = new]
                  /\ Sound(design, new) /\ Extends(buses[m], new)
                  /\ Covered(new, t, p.val[t], errors')
                  /\ new.gen = buses[m].gen
                  /\ new.slaves = buses[m].slaves /\ new.masters = buses[m].masters
             /\ \/ errors' = errors
                \/ /\ errors' = errors \cup {<<p.name, t>>}
                   /\ t \in Watched => Disagree(design, p.name, t)
             /\ merging' \in [bus : {m}, tag : {2, merging.tag + 1}]
<1> DEFINE p == PieceAt(at)
           m == merging.bus
           t == p.tags[merging.tag]
           v == p.val[t]
           bus == buses[m]
<1>1. /\ TypeOK /\ pc = "merge" /\ merging.tag <= Len(p.tags)
  BY DEF ListInv, MergeTag
<1>2. /\ at.comp \in Comps /\ m \in DOMAIN buses /\ merging.tag > 0
      /\ p.kind = "map" /\ p.name # NoName /\ bus.name = p.name
  BY <1>1 DEF ListInv, BeingMerged
<1>3. /\ design \in Designs /\ bus \in Info
      /\ at \in [comp : 1..(Len(design.comps) + 1), key : 1..3]
      /\ merging \in [bus : 0..Len(buses), tag : Nat]
      /\ p = PieceOf(design, at.comp, at.key) /\ Piece(p)
  BY <1>1, <1>2, StateFacts
<1>4. merging.tag \in DOMAIN p.tags /\ t \in DOMAIN p.val /\ t \in Tag /\ v \in Nat
  <2>1. Len(p.tags) \in Nat /\ DOMAIN p.tags = 1..Len(p.tags)  BY <1>3, PieceFacts
  <2>2. merging.tag \in DOMAIN p.tags  BY <2>1, <1>1, <1>2, <1>3
  <2>3. t \in DOMAIN p.val  BY <2>2, <1>3, PieceFacts
  <2>4. t \in Tag /\ v \in Nat  BY <2>3, <1>3, PieceFacts
  <2>5. QED  BY <2>2, <2>3, <2>4
<1>5. v \in GivenBy(design, bus.name, t)
  <2>1. at.comp \in DOMAIN design.comps /\ at.key \in DOMAIN Key
    BY <1>2, <1>3, KeyFacts DEF Comps
  <2>2. PieceOf(design, at.comp, at.key).val[t] \in GivenBy(design, PieceOf(design, at.comp, at.key).name, t)
    BY <2>1, <1>2, <1>3, <1>4, GivenByPiece
  <2>3. QED  BY <2>2, <1>2, <1>3
<1>6. Sound(design, bus) /\ (bus.gen # 0 => "TYPE" \in DOMAIN bus.hash)
  BY <1>1, <1>2 DEF ListInv, AllSound, PassesDone
<1>7. IF IsNews(bus, t, v)
        THEN /\ buses' = [buses EXCEPT ![m] = Learn(bus, t, v)]
             /\ merging' = [merging EXCEPT !.tag = Restart]
             /\ errors' = errors
        ELSE /\ buses' = [buses EXCEPT ![m] = Copy(bus, t, v)]
             /\ merging' = [merging EXCEPT !.tag = @ + 1]
             /\ errors' = IF Contradicts(bus, t, v) THEN errors \cup {<<bus.name, t>>} ELSE errors
  BY Zenon DEF MergeTag
<1>8. merging' \in [bus : {m}, tag : {2, merging.tag + 1}]
  BY <1>3, <1>7 DEF Restart
<1> HIDE DEF p, m, t, v, bus
<1>9. CASE IsNews(bus, t, v)
  <2> DEFINE new == Learn(bus, t, v)
  <2>1. /\ new \in Info /\ new.gen = bus.gen
        /\ new.slaves = bus.slaves /\ new.masters = bus.masters
    BY <1>3, <1>4, LearnFields
  <2>2. Sound(design, new) /\ Extends(bus, new) /\ Covered(new, t, v, errors')
    BY <1>3, <1>4, <1>5, <1>6, <1>9, LearnFacts
  <2>3. buses' = [buses EXCEPT ![m] = new] /\ errors' = errors  BY <1>7, <1>9
  <2> HIDE DEF new
  <2>4. QED  BY <1>2, <1>4, <1>8, <2>1, <2>2, <2>3 DEF p, m, t, v, bus
<1>10. CASE ~IsNews(bus, t, v)
  <2>1. buses' = [buses EXCEPT ![m] = bus]  BY <1>3, <1>4, <1>7, <1>10, CopyNothing
  <2>2. Extends(bus, bus)  BY <1>3, ExtendsItself
  <2>3. errors' = IF Contradicts(bus, t, v) THEN errors \cup {<<bus.name, t>>} ELSE errors
    BY <1>7, <1>10
  <2>4. Contradicts(bus, t, v) => <<bus.name, t>> \in errors'  BY <2>3
  <2>5. /\ \A r : (Contradicts(bus, t, v) => <<bus.name, t>> \in r) => Covered(bus, t, v, r)
        /\ t \in Watched /\ Contradicts(bus, t, v) => Disagree(design, bus.name, t)
    BY <1>3, <1>4, <1>5, <1>6, <1>10, NoNewsFacts
  <2>6. Covered(bus, t, v, errors')  BY <2>4, <2>5
  <2>7. \/ errors' = errors
        \/ errors' = errors \cup {<<bus.name, t>>} /\ (t \in Watched => Disagree(design, bus.name, t))
    BY <2>3, <2>5
  <2>8. QED  BY <1>2, <1>3, <1>4, <1>6, <1>8, <2>1, <2>2, <2>6, <2>7 DEF p, m, t, v, bus
<1>11. QED  BY <1>9, <1>10
-----------------------------------------------------------------------------
(* A bus that differs only in what is set when the pieces are merged.      *)
LEMMA SameDefinition ==
  ASSUME NEW d, NEW b \in Info, NEW c \in Info, Sound(d, b),
         c.name = b.name, c.hash = b.hash, c.width = b.width, c.nullsz = b.nullsz, c.type = b.type,
         c.clock = b.clock \/ ("CLOCK" \in DOMAIN b.hash /\ c.clock = b.hash["CLOCK"]),
         c.gen = b.gen \/ c.gen = Matching(b.hash)
  PROVE  Sound(d, c) /\ Extends(b, c)
<1>1. b.nullsz \in Nat  BY InfoRecord
<1>2. Extends(b, c)  BY <1>1 DEF Extends
<1>3. c.clock # 0 => "CLOCK" \in DOMAIN c.hash /\ c.clock \in GivenBy(d, c.name, "CLOCK")
  BY DEF Sound, Tag
<1>4. c.gen # 0 => c.gen = Matching(c.hash)  BY DEF Sound
<1>5. QED  BY <1>2, <1>3, <1>4 DEF Sound

LEMMA MatchingPositive ==
  ASSUME NEW d, NEW b \in Info, Sound(d, b)
  PROVE  Matching(b.hash) \in Nat /\ Matching(b.hash) # 0
<1>1. "TYPE" \in DOMAIN b.hash => b.hash["TYPE"] \in GivenBy(d, b.name, "TYPE")
  BY DEF Sound, Tag
<1>2. "TYPE" \in DOMAIN b.hash => b.hash["TYPE"] \in Nat /\ b.hash["TYPE"] # 0
  BY <1>1, GivenPositive
<1>3. QED  BY <1>2 DEF Matching

LEMMA GeneratorFacts ==
  ASSUME NEW d, NEW b \in Info, Sound(d, b)
  PROVE  LET g == Generator(b)
         IN  /\ g \in Info /\ Sound(d, g) /\ Extends(b, g) /\ g.gen # 0
             /\ g.slaves = b.slaves /\ g.masters = b.masters
<1> DEFINE g == Generator(b)
<1>1. CASE b.gen = 0
  <2>1. g = [b EXCEPT !.gen = Matching(b.hash)]  BY <1>1 DEF Generator
  <2>2. Matching(b.hash) \in Nat /\ Matching(b.hash) # 0  BY MatchingPositive
  <2>3. /\ g \in Info /\ g.name = b.name /\ g.hash = b.hash /\ g.width = b.width
        /\ g.nullsz = b.nullsz /\ g.type = b.type /\ g.clock = b.clock
        /\ g.gen = Matching(b.hash) /\ g.slaves = b.slaves /\ g.masters = b.masters
    BY <2>1, <2>2 DEF Info
  <2> HIDE DEF g
  <2>4. Sound(d, g) /\ Extends(b, g)  BY <2>3, SameDefinition
  <2>5. QED  BY <2>2, <2>3, <2>4 DEF g
<1>2. CASE b.gen # 0
  <2>1. g = b  BY <1>2 DEF Generator
  <2>2. QED  BY <1>2, <2>1, ExtendsItself
<1>3. QED  BY <1>1, <1>2

Clocked(b) == IF b.clock = 0 THEN [b EXCEPT !.clock = b.hash["CLOCK"]] ELSE b

LEMMA ClockedFacts ==
  ASSUME NEW d, NEW b \in Info, Sound(d, b), b.clock # 0 \/ "CLOCK" \in DOMAIN b.hash
  PROVE  LET g == Clocked(b)
         IN  /\ g \in Info /\ Sound(d, g) /\ Extends(b, g) /\ g.clock # 0 /\ g.gen = b.gen
             /\ g.slaves = b.slaves /\ g.masters = b.masters
<1> DEFINE g == Clocked(b)
<1>1. CASE b.clock = 0
  <2>1. g = [b EXCEPT !.clock = b.hash["CLOCK"]]  BY <1>1 DEF Clocked
  <2>2. b.hash["CLOCK"] \in GivenBy(d, b.name, "CLOCK")  BY <1>1 DEF Sound, Tag
  <2>3. b.hash["CLOCK"] \in Nat /\ b.hash["CLOCK"] # 0  BY <2>2, GivenPositive
  <2>4. /\ g \in Info /\ g.name = b.name /\ g.hash = b.hash /\ g.width = b.width
        /\ g.nullsz = b.nullsz /\ g.type = b.type /\ g.clock = b.hash["CLOCK"]
        /\ g.gen = b.gen /\ g.slaves = b.slaves /\ g.masters = b.masters
    BY <2>1, <2>3 DEF Info
  <2> HIDE DEF g
  <2>5. Sound(d, g) /\ Extends(b, g)  BY <1>1, <2>4, SameDefinition
  <2>6. QED  BY <2>3, <2>4, <2>5 DEF g
<1>2. CASE b.clock # 0
  <2>1. g = b  BY <1>2 DEF Clocked
  <2>2. QED  BY <1>2, <2>1, ExtendsItself
<1>3. QED  BY <1>1, <1>2

LEMMA JoinFacts ==
  ASSUME NEW d, NEW b \in Info, Sound(d, b), NEW s \in Seq(Nat), NEW m \in Seq(Nat)
  PROVE  LET g == [b EXCEPT !.slaves = s, !.masters = m]
         IN  /\ g \in Info /\ Sound(d, g) /\ Extends(b, g)
             /\ g.gen = b.gen /\ g.clock = b.clock /\ g.slaves = s /\ g.masters = m
<1> DEFINE g == [b EXCEPT !.slaves = s, !.masters = m]
<1>1. /\ g \in Info /\ g.name = b.name /\ g.hash = b.hash /\ g.width = b.width
      /\ g.nullsz = b.nullsz /\ g.type = b.type /\ g.clock = b.clock
      /\ g.gen = b.gen /\ g.slaves = s /\ g.masters = m
  BY DEF Info
<1> HIDE DEF g
<1>2. Sound(d, g) /\ Extends(b, g)  BY <1>1, SameDefinition
<1>3. QED  BY <1>1, <1>2 DEF g

(* A list of buses each of which has been looked at.                       *)
LEMMA EachKept ==
  ASSUME NEW B \in Seq(Info), NEW C, C = [i \in DOMAIN B |-> C[i]], NEW d,
         \A i \in DOMAIN B : C[i] \in Info /\ Extends(B[i], C[i]) /\ Sound(d, C[i])
  PROVE  /\ C \in Seq(Info) /\ DOMAIN C = DOMAIN B /\ Grown(B, C)
         /\ \A i \in DOMAIN C : Sound(d, C[i])
<1>1. Len(B) \in Nat /\ DOMAIN B = 1..Len(B)  BY LenProperties
<1>2. DOMAIN C = DOMAIN B  OBVIOUS
<1>3. C \in [1..Len(B) -> Info]  BY <1>1
<1>4. C \in Seq(Info)  BY <1>1, <1>3
<1>5. QED  BY <1>2, <1>4 DEF Grown

LEMMA SetClocksFacts ==
  ASSUME ListInv, SetClocks
  PROVE  \A i \in DOMAIN buses :
           buses'[i] = Clocked(buses[i]) /\ (buses[i].clock # 0 \/ "CLOCK" \in DOMAIN buses[i].hash)
BY DEF SetClocks, Clocked

(* The lists of slaves and masters after one more component.               *)
Joined(list, c, yes) == IF yes THEN Append(list, c) ELSE list

LEMMA AddFacts ==
  ASSUME ListInv, AddToBuses
  PROVE  /\ at.comp \in Comps /\ ~Aborts(at.comp) /\ at.comp \in Nat
         /\ buses' = [i \in DOMAIN buses |-> buses'[i]]
         /\ \A i \in DOMAIN buses :
              LET s == Joined(buses[i].slaves, at.comp,
                         design.comps[at.comp].slave /\ BusOf(at.comp, "SLAVE") = i)
                  m == Joined(buses[i].masters, at.comp,
                         design.comps[at.comp].master /\ BusOf(at.comp, "MASTER") = i)
              IN  /\ buses'[i] = [buses[i] EXCEPT !.slaves = s, !.masters = m]
                  /\ s \in Seq(Nat) /\ m \in Seq(Nat)
<1>1. at.comp \in Comps /\ ~Aborts(at.comp)  BY DEF AddToBuses
<1>2. TypeOK  BY DEF ListInv
<1>3. at.comp \in Nat  BY <1>1, <1>2, StateFacts
<1>4. \A i \in DOMAIN buses : buses[i].slaves \in Seq(Nat) /\ buses[i].masters \in Seq(Nat)
  BY <1>2, StateFacts, InfoRecord
<1>5. \A yes : \A list \in Seq(Nat) : Joined(list, at.comp, yes) \in Seq(Nat)
  BY <1>3, Appended DEF Joined
<1>6. buses' = [i \in DOMAIN buses |->
        [buses[i] EXCEPT
           !.slaves  = Joined(@, at.comp, design.comps[at.comp].slave /\ BusOf(at.comp, "SLAVE") = i),
           !.masters = Joined(@, at.comp, design.comps[at.comp].master /\ BusOf(at.comp, "MASTER") = i)]]
  BY DEF AddToBuses, Joined
<1>7. QED  BY <1>1, <1>3, <1>4, <1>5, <1>6
-----------------------------------------------------------------------------
(* One more bus on the list.                                               *)
LEMMA OneMoreBus ==
  ASSUME ListInv, NEW b \in Info, Sound(design, b), buses' = Append(buses, b)
  PROVE  /\ buses' \in Seq(Info) /\ Grown(buses, buses')
         /\ \A i \in DOMAIN buses' : Sound(design, buses'[i])
         /\ Len(buses') = Len(buses) + 1 /\ buses'[Len(buses) + 1] = b
         /\ DOMAIN buses' = 1..(Len(buses) + 1)
         /\ \A i \in DOMAIN buses : buses'[i] = buses[i]
<1>1. /\ buses \in Seq(Info) /\ Len(buses) \in Nat /\ DOMAIN buses = 1..Len(buses)
  BY StateFacts DEF ListInv
<1>2. Grown(buses, buses')  BY <1>1, GrownByOne
<1>3. /\ buses' \in Seq(Info) /\ Len(buses') = Len(buses) + 1
      /\ DOMAIN buses' = 1..(Len(buses) + 1)
      /\ \A i \in 1..Len(buses) : buses'[i] = buses[i]
      /\ buses'[Len(buses) + 1] = b
  BY <1>1, Appended
<1>4. \A i \in 1..Len(buses) : Sound(design, buses[i])  BY <1>1 DEF ListInv, AllSound
<1>5. \A i \in DOMAIN buses' : Sound(design, buses'[i])
  <2> SUFFICES ASSUME NEW i \in DOMAIN buses' PROVE Sound(design, buses'[i])  OBVIOUS
  <2>1. CASE i = Len(buses) + 1  BY <2>1, <1>3
  <2>2. CASE i # Len(buses) + 1
    <3>1. i \in 1..Len(buses)  BY <2>2, <1>1, <1>3
    <3>2. QED  BY <3>1, <1>3, <1>4
  <2>3. QED  BY <2>1, <2>2
<1>6. QED  BY <1>1, <1>2, <1>3, <1>5

(* The bus that checkforbusdefns() makes.                                  *)
LEMMA NewBusSound ==
  ASSUME ListInv, at.comp \in Comps, PieceAt(at).kind # "none", PieceAt(at).name # NoName
  PROVE  LET p == PieceAt(at)
             b == IF p.kind = "map" THEN InitBus(p) ELSE NewBus(p.name)
         IN  /\ b \in Info /\ b.name = p.name /\ Sound(design, b)
             /\ b.slaves = <<>> /\ b.masters = <<>>
             /\ b.gen # 0 => "TYPE" \in DOMAIN b.hash
             /\ \A r : \A t \in DOMAIN p.val : Covered(b, t, p.val[t], r)
<1> DEFINE p == PieceAt(at)
<1>1. /\ design \in Designs /\ at \in [comp : 1..(Len(design.comps) + 1), key : 1..3]
      /\ p = PieceOf(design, at.comp, at.key) /\ Piece(p)
      /\ at.comp \in DOMAIN design.comps /\ at.key \in DOMAIN Key
  BY StateFacts, KeyFacts DEF ListInv, Comps
<1>2. p.name \in Names /\ (p.kind # "map" => DOMAIN p.val = {})  BY <1>1, PieceFacts
<1> HIDE DEF p
<1>3. CASE p.kind = "map"
  <2>1. p.name # NoName  BY DEF p
  <2>2. /\ InitBus(p) \in Info /\ InitBus(p).name = p.name /\ Sound(design, InitBus(p))
        /\ InitBus(p).slaves = <<>> /\ InitBus(p).masters = <<>>
        /\ InitBus(p).gen # 0 => "TYPE" \in DOMAIN InitBus(p).hash
        /\ \A r : \A t \in DOMAIN p.val : Covered(InitBus(p), t, p.val[t], r)
    <3>1. PICK d \in Designs : d = design  BY <1>1
    <3>2. PICK c \in DOMAIN d.comps, k \in DOMAIN Key : p = PieceOf(d, c, k)
      BY <1>1, <3>1
    <3>3. QED  BY <1>3, <2>1, <3>1, <3>2, InitBusFacts
  <2>3. QED  BY <1>3, <2>2 DEF p
<1>4. CASE p.kind # "map"
  <2>1. /\ NewBus(p.name) \in Info /\ NewBus(p.name).name = p.name /\ Sound(design, NewBus(p.name))
        /\ NewBus(p.name).slaves = <<>> /\ NewBus(p.name).masters = <<>>
        /\ NewBus(p.name).gen = 0
    BY <1>2, NewBusFacts
  <2>2. QED  BY <1>2, <1>4, <2>1 DEF p
<1>5. QED  BY <1>3, <1>4

LEMMA BusesKept ==
  ASSUME ListInv, [Next]_vars
  PROVE  /\ design' = design
         /\ buses' \in Seq(Info) /\ Grown(buses, buses')
         /\ \A i \in DOMAIN buses' : Sound(design, buses'[i])
         /\ errors \subseteq errors'
<1>1. /\ TypeOK /\ buses \in Seq(Info) /\ Len(buses) \in Nat /\ DOMAIN buses = 1..Len(buses)
      /\ design \in Designs
      /\ \A i \in DOMAIN buses : buses[i] \in Info /\ Sound(design, buses[i])
  BY StateFacts DEF ListInv, AllSound
<1>2. design' = design
  BY DEF Next, vars, AddDefault, CheckNoDefn, CheckUnnamed, CheckName, CheckNewBus, CheckMerge,
         MergeTag, EndMerge, Generators, AssignRefs, SetClocks, NoClock, AddToBuses, AddAborts,
         EndAdd
<1>3. CASE buses' = buses /\ errors \subseteq errors'
  BY <1>1, <1>2, <1>3, GrownItself
<1>4. CASE AddDefault
  <2>1. buses = <<>> /\ errors' = errors  BY <1>4 DEF ListInv, BusesNamed, AddDefault
  <2>2. CASE design.default = NoName  BY <2>1, <2>2, <1>3, <1>4 DEF AddDefault
  <2>3. CASE design.default # NoName
    <3>1. design.default \in Names  BY <2>3, <1>1, DesignFacts
    <3>2. NewBus(design.default) \in Info /\ Sound(design, NewBus(design.default))
      BY <3>1, NewBusFacts
    <3>3. buses' = <<NewBus(design.default)>>  BY <2>3, <1>4 DEF AddDefault
    <3>4. buses' = Append(buses, NewBus(design.default))  BY <3>3, <2>1
    <3>5. QED  BY <3>2, <3>4, <2>1, <1>2, OneMoreBus
  <2>4. QED  BY <2>2, <2>3
<1>5. ASSUME CheckName \/ CheckNewBus, buses' # buses PROVE UNCHANGED errors /\
             \E b \in Info : Sound(design, b) /\ buses' = Append(buses, b)
  <2>1. at.comp \in Comps /\ PieceAt(at).kind # "none"
    BY <1>5 DEF CheckName, CheckNewBus, Looking
  <2>2. PieceAt(at).name # NoName
    <3>1. CASE CheckName
      <4>1. Piece(PieceAt(at)) /\ PieceAt(at).kind = "name"
        BY <3>1, <2>1, <1>1, StateFacts DEF CheckName
      <4>2. QED  BY <4>1, PieceFacts
    <3>2. CASE CheckNewBus  BY <3>2 DEF CheckNewBus
    <3>3. QED  BY <3>1, <3>2, <1>5
  <2>3. CASE CheckName
    <3>1. buses' = Append(buses, NewBus(PieceAt(at).name)) /\ PieceAt(at).kind = "name"
      BY <2>3, <1>5 DEF CheckName
    <3>2. QED  BY <3>1, <2>1, <2>2, <2>3, NewBusSound DEF CheckName
  <2>4. CASE CheckNewBus
    <3>1. buses' = Append(buses, InitBus(PieceAt(at))) /\ PieceAt(at).kind = "map"
      BY <2>4 DEF CheckNewBus
    <3>2. QED  BY <3>1, <2>1, <2>2, <2>4, NewBusSound DEF CheckNewBus
  <2>5. QED  BY <2>3, <2>4, <1>5
<1>6. CASE CheckName \/ CheckNewBus
  <2>1. errors' = errors  BY <1>6 DEF CheckName, CheckNewBus
  <2>2. CASE buses' = buses  BY <2>1, <2>2, <1>3
  <2>3. CASE buses' # buses
    <3>1. PICK b \in Info : Sound(design, b) /\ buses' = Append(buses, b)
      BY <2>3, <1>5, <1>6
    <3>2. QED  BY <3>1, <2>1, <1>2, OneMoreBus
  <2>4. QED  BY <2>2, <2>3
<1>7. CASE MergeTag
  <2>1. merging.bus \in DOMAIN buses /\ errors \subseteq errors'  BY <1>7, MergeFacts
  <2>2. PICK new \in Info :
          /\ buses' = [buses EXCEPT ![merging.bus] = new]
          /\ Sound(design, new) /\ Extends(buses[merging.bus], new)
    BY <1>7, MergeFacts
  <2>3. buses' = [i \in DOMAIN buses |-> buses'[i]]  BY <2>2
  <2>4. \A i \in DOMAIN buses : buses'[i] = IF i = merging.bus THEN new ELSE buses[i]
    BY <2>1, <2>2
  <2>5. \A i \in DOMAIN buses :
          buses'[i] \in Info /\ Extends(buses[i], buses'[i]) /\ Sound(design, buses'[i])
    BY <2>2, <2>4, <1>1, ExtendsItself
  <2>6. QED  BY <2>1, <2>3, <2>5, <1>1, <1>2, EachKept
<1>8. CASE Generators
  <2>1. errors' = errors /\ buses' = [i \in DOMAIN buses |-> Generator(buses[i])]
    BY <1>8 DEF Generators
  <2>2. \A i \in DOMAIN buses :
          buses'[i] \in Info /\ Extends(buses[i], buses'[i]) /\ Sound(design, buses'[i])
    BY <2>1, <1>1, GeneratorFacts
  <2>3. buses' = [i \in DOMAIN buses |-> buses'[i]]  BY <2>1
  <2>4. QED  BY <2>1, <2>2, <2>3, <1>1, <1>2, EachKept
<1>9. CASE SetClocks
  <2>1. errors \subseteq errors' /\ buses' = [i \in DOMAIN buses |-> buses'[i]]
    BY <1>9 DEF SetClocks
  <2>2. \A i \in DOMAIN buses :
          buses'[i] = Clocked(buses[i]) /\ (buses[i].clock # 0 \/ "CLOCK" \in DOMAIN buses[i].hash)
    BY <1>9, SetClocksFacts
  <2>3. \A i \in DOMAIN buses :
          buses'[i] \in Info /\ Extends(buses[i], buses'[i]) /\ Sound(design, buses'[i])
    BY <2>2, <1>1, ClockedFacts
  <2>4. QED  BY <2>1, <2>3, <1>1, <1>2, EachKept
<1>10. CASE AddToBuses
  <2>1. errors' = errors /\ buses' = [i \in DOMAIN buses |-> buses'[i]]
    BY <1>10, AddFacts DEF AddToBuses
  <2>2. ASSUME NEW i \in DOMAIN buses
        PROVE  buses'[i] \in Info /\ Extends(buses[i], buses'[i]) /\ Sound(design, buses'[i])
    <3> DEFINE s == Joined(buses[i].slaves, at.comp,
                      design.comps[at.comp].slave /\ BusOf(at.comp, "SLAVE") = i)
               m == Joined(buses[i].masters, at.comp,
                      design.comps[at.comp].master /\ BusOf(at.comp, "MASTER") = i)
    <3>1. /\ buses'[i] = [buses[i] EXCEPT !.slaves = s, !.masters = m]
          /\ s \in Seq(Nat) /\ m \in Seq(Nat)
      BY <1>10, AddFacts
    <3> HIDE DEF s, m
    <3>2. PICK b \in Info : b = buses[i] /\ Sound(design, b)  BY <1>1
    <3>3. LET g == [b EXCEPT !.slaves = s, !.masters = m]
          IN  g \in Info /\ Extends(b, g) /\ Sound(design, g)
      BY <3>1, <3>2, JoinFacts
    <3>4. QED  BY <3>1, <3>2, <3>3
  <2>3. QED  BY <2>1, <2>2, <1>1, <1>2, EachKept
<1>11. ASSUME \/ CheckNoDefn \/ CheckUnnamed \/ CheckMerge \/ EndMerge \/ AssignRefs \/ NoClock
              \/ AddAborts \/ EndAdd \/ UNCHANGED vars
       PROVE  buses' = buses /\ errors \subseteq errors'
  BY <1>11 DEF vars, CheckNoDefn, CheckUnnamed, CheckMerge, EndMerge, AssignRefs, NoClock,
               AddAborts, EndAdd
<1>12. QED
  BY <1>3, <1>4, <1>6, <1>7, <1>8, <1>9, <1>10, <1>11 DEF Next
-----------------------------------------------------------------------------
(* Replacing a piece by the map of a bus touches this piece only.          *)
LEMMA PointToFacts ==
  ASSUME TypeOK, at.comp \in Comps, NEW N \in Nat, Len(buses) <= N, NEW b \in 0..N, PointTo(b)
  PROVE  /\ ref' \in [Comps -> [Range(Key) -> 0..N]]
         /\ ref'[at.comp][Key[at.key]] = b
         /\ \A c \in Comps, k \in 1..3 :
              ~(c = at.comp /\ k = at.key) => ref'[c][Key[k]] = ref[c][Key[k]]
         /\ at' = NextPlace(at)
<1>1. /\ Len(buses) \in Nat
      /\ at \in [comp : 1..(Len(design.comps) + 1), key : 1..3]
      /\ ref \in [Comps -> [Range(Key) -> 0..Len(buses)]]
  BY StateFacts
<1>2. /\ ref' = [ref EXCEPT ![at.comp][Key[at.key]] = b] /\ at' = NextPlace(at)
  BY DEF PointTo
<1>3. 0..Len(buses) \subseteq 0..N  BY <1>1
<1>4. ref \in [Comps -> [Range(Key) -> 0..N]]  BY <1>1, <1>3
<1>5. \A k \in 1..3 : Key[k] \in Range(Key)  BY KeyFacts
<1>6. \A j, k \in 1..3 : Key[j] = Key[k] => j = k  BY KeyFacts
<1>7. PICK x, y : x = at.comp /\ y = Key[at.key]  OBVIOUS
<1>8. x \in Comps /\ y \in Range(Key)  BY <1>1, <1>5, <1>7
<1>9. ref' = [ref EXCEPT ![x][y] = b]  BY <1>2, <1>7
<1>10. ref' \in [Comps -> [Range(Key) -> 0..N]]  BY <1>4, <1>8, <1>9
<1>11. ref'[x][y] = b  BY <1>4, <1>8, <1>9
<1>12. \A c \in Comps, z \in Range(Key) : ~(c = x /\ z = y) => ref'[c][z] = ref[c][z]
  BY <1>4, <1>8, <1>9
<1>13. QED  BY <1>1, <1>2, <1>5, <1>6, <1>7, <1>10, <1>11, <1>12

(* The steps that replace a piece, and by what.                            *)
LEMMA PointsToBus ==
  ASSUME ListInv, [Next]_vars, CheckName \/ CheckNewBus \/ EndMerge
  PROVE  /\ at.comp \in Comps /\ pc \in {"defns", "merge"} /\ pc' = "defns"
         /\ errors' = errors /\ merging' \in {merging, [bus |-> 0, tag |-> 0]}
         /\ PieceAt(at).kind # "none" /\ PieceAt(at).name # NoName
         /\ \E b \in DOMAIN buses' :
              /\ PointTo(b) /\ buses'[b].name = PieceAt(at).name
              /\ \A t \in DOMAIN PieceAt(at).val :
                   Covered(buses'[b], t, PieceAt(at).val[t], errors')
<1> DEFINE p == PieceAt(at)
<1>1. /\ TypeOK /\ buses \in Seq(Info) /\ Len(buses) \in Nat /\ DOMAIN buses = 1..Len(buses)
      /\ \A n : /\ Find(n) \in 0..Len(buses)
                /\ Find(n) = 0 => \A i \in DOMAIN buses : buses[i].name # n
                /\ Find(n) # 0 => Find(n) \in DOMAIN buses /\ buses[Find(n)].name = n
  BY StateFacts, FindFacts DEF ListInv
<1>2. CASE CheckName
  <2>1. /\ at.comp \in Comps /\ p.kind = "name" /\ pc = "defns" /\ pc' = "defns"
        /\ errors' = errors /\ merging' = merging
    BY <1>2 DEF CheckName, Looking
  <2>2. Piece(p)  BY <2>1, <1>1, StateFacts
  <2>3. p.name # NoName /\ DOMAIN p.val = {}  BY <2>1, <2>2, PieceFacts
  <2>4. CASE Find(p.name) = 0
    <3>1. buses' = Append(buses, NewBus(p.name)) /\ PointTo(Len(buses) + 1)
      BY <1>2, <2>4 DEF CheckName
    <3>2. NewBus(p.name) \in Info /\ NewBus(p.name).name = p.name /\ Sound(design, NewBus(p.name))
      BY <2>1, <2>3, NewBusSound
    <3>3. DOMAIN buses' = 1..(Len(buses) + 1) /\ buses'[Len(buses) + 1] = NewBus(p.name)
      BY <3>1, <3>2, OneMoreBus
    <3>4. Len(buses) + 1 \in DOMAIN buses'  BY <3>3, <1>1
    <3>5. QED  BY <2>1, <2>3, <3>1, <3>2, <3>3, <3>4
  <2>5. CASE Find(p.name) # 0
    <3>1. buses' = buses /\ PointTo(Find(p.name))  BY <1>2, <2>5 DEF CheckName
    <3>2. Find(p.name) \in DOMAIN buses' /\ buses'[Find(p.name)].name = p.name
      BY <1>1, <2>5, <3>1
    <3>3. QED  BY <2>1, <2>3, <3>1, <3>2
  <2>6. QED  BY <2>4, <2>5
<1>3. CASE CheckNewBus
  <2>1. /\ at.comp \in Comps /\ p.kind = "map" /\ p.name # NoName /\ pc = "defns" /\ pc' = "defns"
        /\ buses' = Append(buses, InitBus(p)) /\ PointTo(Len(buses) + 1)
        /\ errors' = errors /\ merging' = merging
    BY <1>3 DEF CheckNewBus, Looking
  <2>2. /\ InitBus(p) \in Info /\ InitBus(p).name = p.name /\ Sound(design, InitBus(p))
        /\ \A r : \A t \in DOMAIN p.val : Covered(InitBus(p), t, p.val[t], r)
    BY <2>1, NewBusSound
  <2>3. DOMAIN buses' = 1..(Len(buses) + 1) /\ buses'[Len(buses) + 1] = InitBus(p)
    BY <2>1, <2>2, OneMoreBus
  <2>4. Len(buses) + 1 \in DOMAIN buses'  BY <2>3, <1>1
  <2>5. QED  BY <2>1, <2>2, <2>3, <2>4
<1>4. CASE EndMerge
  <2>1. /\ pc = "merge" /\ pc' = "defns" /\ merging.tag > Len(p.tags)
        /\ PointTo(merging.bus) /\ buses' = buses /\ errors' = errors
        /\ merging' = [bus |-> 0, tag |-> 0]
    BY <1>4 DEF EndMerge
  <2>2. /\ at.comp \in Comps /\ merging.bus \in DOMAIN buses
        /\ p.kind = "map" /\ p.name # NoName /\ buses[merging.bus].name = p.name
        /\ \A j \in DOMAIN p.tags : j < merging.tag =>
             Covered(buses[merging.bus], p.tags[j], p.val[p.tags[j]], errors)
    BY <2>1 DEF ListInv, BeingMerged
  <2>3. merging.tag \in Nat /\ Piece(p)  BY <1>1, <2>2, StateFacts
  <2>4. /\ Len(p.tags) \in Nat /\ DOMAIN p.tags = 1..Len(p.tags)
        /\ \A t \in DOMAIN p.val : \E j \in DOMAIN p.tags : p.tags[j] = t
    BY <2>3, PieceFacts
  <2>5. \A j \in DOMAIN p.tags : j < merging.tag  BY <2>1, <2>3, <2>4
  <2>6. \A t \in DOMAIN p.val : Covered(buses[merging.bus], t, p.val[t], errors)
    BY <2>2, <2>4, <2>5
  <2>7. QED  BY <2>1, <2>2, <2>6
<1>5. QED  BY <1>2, <1>3, <1>4

LEMMA TypeKept ==
  ASSUME ListInv, [Next]_vars
  PROVE  TypeOK'
<1> DEFINE L == Len(design.comps) + 1
<1>1. /\ TypeOK /\ design \in Designs /\ Len(design.comps) \in Nat
      /\ Comps = 1..Len(design.comps) /\ buses \in Seq(Info)
      /\ Len(buses) \in Nat /\ DOMAIN buses = 1..Len(buses)
      /\ at \in [comp : 1..L, key : 1..3]
      /\ merging \in [bus : 0..Len(buses), tag : Nat]
      /\ ref \in [Comps -> [Range(Key) -> 0..Len(buses)]]
  BY StateFacts DEF ListInv
<1>2. /\ design' = design /\ buses' \in Seq(Info) /\ Grown(buses, buses')
  BY BusesKept
<1>3. Len(buses') \in Nat /\ DOMAIN buses' = 1..Len(buses')  BY <1>2, LenProperties
<1>4. Len(buses) <= Len(buses')
  <2>1. 1..Len(buses) \subseteq 1..Len(buses')  BY <1>1, <1>2, <1>3 DEF Grown
  <2>2. QED  BY <2>1, <1>1, <1>3
<1>5. Comps' = Comps /\ FirstPlace \in [comp : 1..L, key : 1..3]
  BY <1>1, <1>2 DEF Comps, FirstPlace
<1>6. ASSUME pc' \in {"default", "defns", "merge", "refs", "add", "done", "fatal"},
             at' \in [comp : 1..L, key : 1..3],
             merging' \in [bus : 0..Len(buses'), tag : Nat],
             ref' \in [Comps -> [Range(Key) -> 0..Len(buses')]]
      PROVE  TypeOK'
  <2>1. BusesType(buses')  BY <1>2, ListType
  <2>2. DOMAIN Key = 1..3  BY KeyFacts
  <2>3. QED  BY <1>1, <1>2, <1>5, <1>6, <2>1, <2>2 DEF TypeOK, BusesType
<1>7. merging' = merging => merging' \in [bus : 0..Len(buses'), tag : Nat]
  BY <1>1, <1>3, <1>4
<1>8. ref' = ref => ref' \in [Comps -> [Range(Key) -> 0..Len(buses')]]
  <2>1. 0..Len(buses) \subseteq 0..Len(buses')  BY <1>1, <1>3, <1>4
  <2>2. QED  BY <1>1, <2>1
<1>9. at.comp \in Comps => NextPlace(at) \in [comp : 1..L, key : 1..3]
  BY <1>1, NextPlaceFacts
<1>10. at.comp \in Comps => [at EXCEPT !.comp = @ + 1] \in [comp : 1..L, key : 1..3]
  <2> SUFFICES ASSUME at.comp \in Comps
               PROVE  [at EXCEPT !.comp = @ + 1] \in [comp : 1..L, key : 1..3]
    OBVIOUS
  <2>1. PICK n \in Nat : n = Len(design.comps)  BY <1>1
  <2>2. at.comp + 1 \in 1..(n + 1)  BY <2>1, <1>1
  <2>3. [at EXCEPT !.comp = @ + 1] = [comp |-> at.comp + 1, key |-> at.key]  BY <1>1
  <2>4. QED  BY <2>1, <2>2, <2>3, <1>1
<1>11. pc \in {"default", "defns", "merge", "refs", "add", "done", "fatal"}
  BY <1>1 DEF TypeOK
<1>12. CASE AddDefault
  BY <1>1, <1>6, <1>7, <1>8, <1>12 DEF AddDefault
<1>13. CASE CheckNoDefn \/ CheckUnnamed
  BY <1>6, <1>7, <1>8, <1>9, <1>11, <1>13 DEF CheckNoDefn, CheckUnnamed, Looking
<1>14. CASE CheckName \/ CheckNewBus \/ EndMerge
  <2>1. PICK b \in DOMAIN buses' : PointTo(b)  BY <1>14, PointsToBus
  <2>2. at.comp \in Comps /\ pc' = "defns" /\ merging' \in {merging, [bus |-> 0, tag |-> 0]}
    BY <1>14, PointsToBus
  <2>3. PICK N \in Nat : N = Len(buses')  BY <1>3
  <2>4. b \in 0..N /\ Len(buses) <= N  BY <2>3, <1>3, <1>4
  <2>5. ref' \in [Comps -> [Range(Key) -> 0..N]] /\ at' = NextPlace(at)
    BY <2>1, <2>2, <2>4, <1>1, PointToFacts
  <2>6. merging' \in [bus : 0..Len(buses'), tag : Nat]
    BY <2>2, <1>3, <1>7
  <2>7. QED  BY <2>2, <2>3, <2>5, <2>6, <1>6, <1>9
<1>15. CASE CheckMerge
  <2>1. /\ at.comp \in Comps /\ pc' = "merge" /\ at' = at /\ ref' = ref
        /\ merging' = [bus |-> Find(PieceAt(at).name), tag |-> 1]
    BY <1>15 DEF CheckMerge, Looking
  <2>2. Find(PieceAt(at).name) \in 0..Len(buses)  BY <1>1, FindFacts
  <2>3. QED  BY <2>1, <2>2, <1>1, <1>3, <1>4, <1>6, <1>8
<1>16. CASE MergeTag
  <2>1. /\ merging.bus \in DOMAIN buses
        /\ merging' \in [bus : {merging.bus}, tag : {2, merging.tag + 1}]
    BY <1>16, MergeFacts
  <2>2. merging' \in [bus : 0..Len(buses'), tag : Nat]  BY <2>1, <1>1, <1>3, <1>4
  <2>3. pc' = pc /\ at' = at /\ ref' = ref  BY <1>16 DEF MergeTag
  <2>4. QED  BY <2>2, <2>3, <1>1, <1>6, <1>8, <1>11
<1>17. CASE Generators \/ SetClocks \/ NoClock \/ EndAdd
  BY <1>5, <1>6, <1>7, <1>8, <1>17 DEF Generators, SetClocks, NoClock, EndAdd, Pass
<1>18. CASE AssignRefs \/ AddToBuses
  BY <1>6, <1>7, <1>8, <1>10, <1>11, <1>18 DEF AssignRefs, AddToBuses
<1>19. CASE AddAborts \/ UNCHANGED vars
  BY <1>1, <1>6, <1>7, <1>8, <1>11, <1>19 DEF AddAborts, vars
<1>20. QED
  BY <1>12, <1>13, <1>14, <1>15, <1>16, <1>17, <1>18, <1>19 DEF Next
-----------------------------------------------------------------------------
LEMMA ReferredStays ==
  ASSUME ListInv, [Next]_vars, NEW c \in Comps, NEW k \in 1..3,
         ref'[c][Key[k]] = ref[c][Key[k]],
         LET p == PieceOf(design, c, k)
         IN  p.kind # "none" /\ p.name # NoName => (Visited(c, k)' <=> Visited(c, k))
  PROVE  Referred(c, k)'
<1> DEFINE p == PieceOf(design, c, k)
           r == ref[c][Key[k]]
<1>1. /\ TypeOK /\ design \in Designs /\ DOMAIN buses = 1..Len(buses)
      /\ \A i \in DOMAIN buses : buses[i] \in Info
      /\ Comps = DOMAIN design.comps /\ DOMAIN Key = 1..3
  BY StateFacts, KeyFacts DEF ListInv, Comps
<1>2. /\ design' = design /\ buses' \in Seq(Info) /\ Grown(buses, buses')
      /\ errors \subseteq errors'
  BY BusesKept
<1>3. \A i \in DOMAIN buses' : buses'[i] \in Info  BY <1>2, LenProperties, ElementOfSeq
<1>4. Referred(c, k)  BY <1>1 DEF ListInv, AllReferred
<1>5. \A t \in DOMAIN p.val : p.val[t] \in Nat  BY <1>1, DesignFacts, PieceFacts
<1>6. CASE Visited(c, k) /\ p.kind # "none" /\ p.name # NoName
  <2>1. /\ r \in DOMAIN buses /\ buses[r].name = p.name
        /\ \A t \in DOMAIN p.val : Covered(buses[r], t, p.val[t], errors)
    BY <1>4, <1>6 DEF Referred
  <2>2. r \in DOMAIN buses' /\ Extends(buses[r], buses'[r])  BY <2>1, <1>2 DEF Grown
  <2>3. buses'[r].name = p.name  BY <2>1, <2>2 DEF Extends
  <2>4. \A t \in DOMAIN p.val : Covered(buses'[r], t, p.val[t], errors')
    BY <2>1, <2>2, <1>1, <1>2, <1>3, <1>5, CoveredKept
  <2>5. Visited(c, k)'  BY <1>6
  <2>6. QED  BY <2>2, <2>3, <2>4, <2>5, <1>2, <1>6 DEF Referred
<1>7. CASE ~(Visited(c, k) /\ p.kind # "none" /\ p.name # NoName)
  <2>1. r = 0  BY <1>4, <1>7 DEF Referred
  <2>2. ~(Visited(c, k)' /\ p.kind # "none" /\ p.name # NoName)  BY <1>7
  <2>3. QED  BY <2>1, <2>2, <1>2 DEF Referred
<1>8. QED  BY <1>6, <1>7

LEMMA ReferredKept ==
  ASSUME ListInv, [Next]_vars
  PROVE  AllReferred'
<1>1. /\ TypeOK /\ design \in Designs /\ Len(design.comps) \in Nat
      /\ Comps = 1..Len(design.comps) /\ DOMAIN Key = 1..3
      /\ at \in [comp : 1..(Len(design.comps) + 1), key : 1..3]
      /\ PieceAt(at) = PieceOf(design, at.comp, at.key)
  BY StateFacts, KeyFacts DEF ListInv
<1>2. design' = design /\ Comps' = Comps  BY BusesKept DEF Comps
<1> SUFFICES ASSUME NEW c \in Comps, NEW k \in 1..3 PROVE Referred(c, k)'
  BY <1>1, <1>2 DEF AllReferred
<1> DEFINE p == PieceOf(design, c, k)
           here == c = at.comp /\ k = at.key
<1>3. ASSUME at.comp \in Comps, at' = NextPlace(at), pc \in {"defns", "merge"}, pc' = "defns"
      PROVE  ~here => (Visited(c, k)' <=> Visited(c, k))
  BY <1>3, <1>1, NextPlaceFacts DEF Visited
<1>4. CASE CheckNoDefn \/ CheckUnnamed
  <2>1. /\ at.comp \in Comps /\ at' = NextPlace(at) /\ pc = "defns" /\ pc' = "defns"
        /\ ref' = ref /\ (PieceAt(at).kind = "none" \/ PieceAt(at).name = NoName)
    BY <1>4 DEF CheckNoDefn, CheckUnnamed, Looking
  <2>2. here => p.kind = "none" \/ p.name = NoName  BY <2>1, <1>1
  <2>3. ~here => (Visited(c, k)' <=> Visited(c, k))  BY <2>1, <1>3
  <2>4. QED  BY <2>1, <2>2, <2>3, ReferredStays
<1>5. CASE CheckName \/ CheckNewBus \/ EndMerge
  <2>1. PICK b \in DOMAIN buses' :
          /\ PointTo(b) /\ buses'[b].name = PieceAt(at).name
          /\ \A t \in DOMAIN PieceAt(at).val :
               Covered(buses'[b], t, PieceAt(at).val[t], errors')
    BY <1>5, PointsToBus
  <2>2. /\ at.comp \in Comps /\ pc \in {"defns", "merge"} /\ pc' = "defns"
        /\ PieceAt(at).kind # "none" /\ PieceAt(at).name # NoName
    BY <1>5, PointsToBus
  <2>3. buses' \in Seq(Info) /\ Grown(buses, buses')  BY BusesKept
  <2>4. PICK N \in Nat : N = Len(buses') /\ DOMAIN buses' = 1..N /\ b \in 0..N
    BY <2>3, LenProperties
  <2>5. Len(buses) <= N
    <3>1. Len(buses) \in Nat /\ DOMAIN buses = 1..Len(buses)  BY <1>1, StateFacts
    <3>2. 1..Len(buses) \subseteq 1..N  BY <3>1, <2>3, <2>4 DEF Grown
    <3>3. QED  BY <3>1, <3>2, <2>4
  <2>6. /\ ref'[at.comp][Key[at.key]] = b /\ at' = NextPlace(at)
        /\ \A x \in Comps, j \in 1..3 :
             ~(x = at.comp /\ j = at.key) => ref'[x][Key[j]] = ref[x][Key[j]]
    BY <2>1, <2>2, <2>4, <2>5, <1>1, PointToFacts
  <2>7. CASE here
    <3>1. p = PieceAt(at) /\ ref'[c][Key[k]] = b  BY <2>6, <2>7, <1>1
    <3>2. Visited(c, k)'
      <4>1. c < NextPlace(at).comp \/ (c = NextPlace(at).comp /\ k < NextPlace(at).key)
        BY <2>2, <2>7, <1>1, NextPlaceFacts
      <4>2. QED  BY <4>1, <2>6 DEF Visited
    <3> HIDE DEF p
    <3>3. QED  BY <3>1, <3>2, <2>1, <2>2, <1>2 DEF Referred, p
  <2>8. CASE ~here
    <3>1. Visited(c, k)' <=> Visited(c, k)  BY <2>2, <2>6, <2>8, <1>3
    <3>2. ref'[c][Key[k]] = ref[c][Key[k]]  BY <2>6, <2>8
    <3>3. QED  BY <3>1, <3>2, ReferredStays
  <2>9. QED  BY <2>7, <2>8
<1>6. ASSUME ref' = ref, Visited(c, k)' <=> Visited(c, k) PROVE Referred(c, k)'
  BY <1>6, ReferredStays
<1>7. CASE AddDefault
  <2>1. pc = "default" /\ pc' = "defns" /\ at' = at /\ ref' = ref  BY <1>7 DEF AddDefault
  <2>2. Visited(c, k)' <=> Visited(c, k)  BY <2>1 DEF Visited
  <2>3. QED  BY <2>1, <2>2, <1>6
<1>8. CASE CheckMerge
  <2>1. pc = "defns" /\ pc' = "merge" /\ at' = at /\ ref' = ref
    BY <1>8 DEF CheckMerge, Looking
  <2>2. Visited(c, k)' <=> Visited(c, k)  BY <2>1 DEF Visited
  <2>3. QED  BY <2>1, <2>2, <1>6
<1>9. CASE MergeTag
  <2>1. pc' = pc /\ at' = at /\ ref' = ref  BY <1>9 DEF MergeTag
  <2>2. Visited(c, k)' <=> Visited(c, k)  BY <2>1 DEF Visited
  <2>3. QED  BY <2>1, <2>2, <1>6
<1>10. CASE Generators
  <2>1. at.comp \notin Comps /\ pc' = "refs" /\ ref' = ref  BY <1>10 DEF Generators, Pass
  <2>2. c < at.comp  BY <2>1, <1>1
  <2>3. Visited(c, k)' /\ Visited(c, k)  BY <2>1, <2>2 DEF Visited
  <2>4. QED  BY <2>1, <2>3, <1>6
<1>11. CASE AssignRefs \/ SetClocks \/ NoClock \/ AddToBuses \/ AddAborts \/ EndAdd
  <2>1. /\ pc \in {"refs", "add"} /\ pc' \in {"refs", "add", "done", "fatal"} /\ ref' = ref
    BY <1>11 DEF AssignRefs, SetClocks, NoClock, AddToBuses, AddAborts, EndAdd, Pass
  <2>2. Visited(c, k)' /\ Visited(c, k)  BY <2>1 DEF Visited
  <2>3. QED  BY <2>1, <2>2, <1>6
<1>12. CASE UNCHANGED vars
  <2>1. pc' = pc /\ at' = at /\ ref' = ref  BY <1>12 DEF vars
  <2>2. Visited(c, k)' <=> Visited(c, k)  BY <2>1 DEF Visited
  <2>3. QED  BY <2>1, <2>2, <1>6
<1>13. QED
  BY <1>4, <1>5, <1>7, <1>8, <1>9, <1>10, <1>11, <1>12 DEF Next

LEMMA ErrorsKept ==
  ASSUME ListInv, [Next]_vars
  PROVE  ErrorsTrue'
<1>1. design' = design /\ ErrorsTrue /\ TypeOK  BY BusesKept DEF ListInv
<1>2. ASSUME \A n \in Names, t \in Watched :
               <<n, t>> \in errors' => <<n, t>> \in errors \/ Disagree(design, n, t)
      PROVE  ErrorsTrue'
  BY <1>1, <1>2 DEF ErrorsTrue
<1>3. CASE MergeTag
  <2> DEFINE p == PieceAt(at)
             x == p.tags[merging.tag]
  <2>1. \/ errors' = errors
        \/ /\ errors' = errors \cup {<<p.name, x>>}
           /\ x \in Watched => Disagree(design, p.name, x)
    BY <1>3, MergeFacts
  <2> HIDE DEF p, x
  <2>2. QED  BY <2>1, <1>2
<1>4. CASE CheckUnnamed
  BY <1>2, <1>4, NameAssumption DEF CheckUnnamed
<1>5. CASE AssignRefs
  <2>1. \A e \in errors' : e \in errors \/ e = <<NoName, "MASTER.BUS">> \/ e = <<NoName, "SLAVE.BUS">>
    BY <1>5 DEF AssignRefs
  <2>2. QED  BY <2>1, <1>2, NameAssumption
<1>6. CASE SetClocks
  <2>1. \A e \in errors' : e \in errors \/ \E n : e = <<n, "NO WIDTH">>
    BY <1>6 DEF SetClocks
  <2>2. \A n, m, t : t \in Watched => <<n, t>> # <<m, "NO WIDTH">>  BY DEF Watched
  <2>3. QED  BY <2>1, <2>2, <1>2
<1>7. ASSUME ~MergeTag, ~CheckUnnamed, ~AssignRefs, ~SetClocks PROVE errors' = errors
  BY <1>7 DEF Next, vars, AddDefault, CheckNoDefn, CheckName, CheckNewBus, CheckMerge,
         EndMerge, Generators, NoClock, AddToBuses, AddAborts, EndAdd
<1>8. QED  BY <1>2, <1>3, <1>4, <1>5, <1>6, <1>7
-----------------------------------------------------------------------------
(* A bus is added where the list has none of its name, and only there.     *)
LEMMA AddedOrNot ==
  ASSUME ListInv, [Next]_vars, ~AddDefault
  PROVE  \/ DOMAIN buses' = DOMAIN buses
         \/ /\ pc = "defns" /\ pc' = "defns"
            /\ \E b \in Info : /\ buses' = Append(buses, b) /\ Sound(design, b)
                               /\ \A i \in DOMAIN buses : buses[i].name # b.name
                               /\ b.slaves = <<>> /\ b.masters = <<>>
                               /\ b.gen # 0 => "TYPE" \in DOMAIN b.hash
<1>1. TypeOK /\ buses \in Seq(Info)  BY StateFacts DEF ListInv
<1>2. CASE CheckName
  <2>1. /\ at.comp \in Comps /\ PieceAt(at).kind = "name" /\ pc = "defns" /\ pc' = "defns"
    BY <1>2 DEF CheckName, Looking
  <2>2. CASE Find(PieceAt(at).name) # 0  BY <1>2, <2>2 DEF CheckName
  <2>3. CASE Find(PieceAt(at).name) = 0
    <3>1. buses' = Append(buses, NewBus(PieceAt(at).name))  BY <1>2, <2>3 DEF CheckName
    <3>2. PieceAt(at).name # NoName  BY <1>1, <2>1, StateFacts, PieceFacts
    <3>3. \A i \in DOMAIN buses : buses[i].name # PieceAt(at).name  BY <1>1, <2>3, FindFacts
    <3>4. PICK b \in Info : b = NewBus(PieceAt(at).name)  BY <2>1, <3>2, NewBusSound
    <3>5. /\ b.name = PieceAt(at).name /\ Sound(design, b) /\ b.slaves = <<>> /\ b.masters = <<>>
          /\ b.gen # 0 => "TYPE" \in DOMAIN b.hash
      BY <2>1, <3>2, <3>4, NewBusSound
    <3>6. QED  BY <2>1, <3>1, <3>3, <3>4, <3>5
  <2>4. QED  BY <2>2, <2>3
<1>3. CASE CheckNewBus
  <2>1. /\ at.comp \in Comps /\ PieceAt(at).kind = "map" /\ PieceAt(at).name # NoName
        /\ pc = "defns" /\ pc' = "defns" /\ Find(PieceAt(at).name) = 0
        /\ buses' = Append(buses, InitBus(PieceAt(at)))
    BY <1>3 DEF CheckNewBus, Looking
  <2>2. \A i \in DOMAIN buses : buses[i].name # PieceAt(at).name  BY <1>1, <2>1, FindFacts
  <2>3. PICK b \in Info : b = InitBus(PieceAt(at))  BY <2>1, NewBusSound
  <2>4. /\ b.name = PieceAt(at).name /\ Sound(design, b) /\ b.slaves = <<>> /\ b.masters = <<>>
        /\ b.gen # 0 => "TYPE" \in DOMAIN b.hash
    BY <2>1, <2>3, NewBusSound
  <2>5. QED  BY <2>1, <2>2, <2>3, <2>4
<1>4. ASSUME ~CheckName, ~CheckNewBus PROVE DOMAIN buses' = DOMAIN buses
  BY <1>4 DEF Next, vars, CheckNoDefn, CheckUnnamed, CheckMerge, MergeTag,
         EndMerge, Generators, AssignRefs, SetClocks, NoClock, AddToBuses, AddAborts, EndAdd
<1>5. QED  BY <1>2, <1>3, <1>4

LEMMA NamedKept ==
  ASSUME ListInv, [Next]_vars
  PROVE  BusesNamed'
<1>1. /\ TypeOK /\ design \in Designs /\ Len(buses) \in Nat /\ DOMAIN buses = 1..Len(buses)
      /\ buses \in Seq(Info) /\ BusesNamed
  BY StateFacts DEF ListInv
<1>2. /\ design' = design /\ buses' \in Seq(Info) /\ Grown(buses, buses')  BY BusesKept
<1>3. Len(buses') \in Nat /\ DOMAIN buses' = 1..Len(buses')  BY <1>2, LenProperties
<1>4. \A i \in DOMAIN buses : i \in DOMAIN buses' /\ buses'[i].name = buses[i].name
  BY <1>2 DEF Grown, Extends
<1>5. buses # <<>> <=> 1 \in DOMAIN buses  BY <1>1
<1>6. buses' # <<>> <=> 1 \in DOMAIN buses'  BY <1>2, <1>3
<1>7. CASE AddDefault
  <2>1. pc' = "defns" /\ buses' = IF design.default = NoName THEN <<>> ELSE <<NewBus(design.default)>>
    BY <1>7 DEF AddDefault
  <2>2. NewBus(design.default).name = design.default  BY DEF NewBus
  <2>3. \A i \in DOMAIN buses' : i = 1  BY <2>1
  <2>4. design.default # NoName => buses' # <<>> /\ buses'[1].name = design.default
    BY <2>1, <2>2
  <2>5. QED  BY <2>1, <2>3, <2>4, <1>2 DEF BusesNamed, OneBusPerName
<1>8. CASE ~AddDefault
  <2>1. \A i, j \in DOMAIN buses' : buses'[i].name = buses'[j].name => i = j
    <3>1. \A i, j \in DOMAIN buses : buses[i].name = buses[j].name => i = j
      BY <1>1 DEF BusesNamed, OneBusPerName
    <3>2. CASE DOMAIN buses' = DOMAIN buses  BY <3>1, <3>2, <1>4
    <3>3. CASE \E b \in Info : /\ buses' = Append(buses, b) /\ Sound(design, b)
                               /\ \A i \in DOMAIN buses : buses[i].name # b.name
      <4>1. PICK b \in Info : /\ buses' = Append(buses, b) /\ Sound(design, b)
                              /\ \A i \in DOMAIN buses : buses[i].name # b.name
        BY <3>3
      <4>2. /\ buses'[Len(buses) + 1] = b /\ DOMAIN buses' = 1..(Len(buses) + 1)
        BY <4>1, OneMoreBus
      <4>3. \A i \in DOMAIN buses' : i = Len(buses) + 1 \/ i \in DOMAIN buses
        BY <4>2, <1>1
      <4>4. QED  BY <3>1, <4>1, <4>2, <4>3, <1>4
    <3>4. QED  BY <3>2, <3>3, <1>8, AddedOrNot
  <2>2. pc' = "default" => pc = "default" /\ buses' = buses /\ at' = at
    BY <1>8 DEF Next, vars, Looking, CheckNoDefn, CheckUnnamed, CheckName, CheckNewBus, CheckMerge,
         MergeTag, EndMerge, Generators, AssignRefs, SetClocks, NoClock, AddToBuses, AddAborts,
         EndAdd, Pass
  <2>3. pc' # "default" => pc # "default"
    BY <1>8 DEF Next, vars, Looking, CheckNoDefn, CheckUnnamed, CheckName, CheckNewBus, CheckMerge,
         MergeTag, EndMerge, Generators, AssignRefs, SetClocks, NoClock, AddToBuses, AddAborts,
         EndAdd, Pass
  <2>4. pc' = "default" => buses' = <<>> /\ at' = FirstPlace /\ FirstPlace' = FirstPlace
    BY <2>2, <1>1 DEF BusesNamed, FirstPlace
  <2>5. pc' # "default" /\ design.default # NoName => buses # <<>> /\ buses' # <<>>
    BY <2>3, <1>1, <1>4, <1>5, <1>6 DEF BusesNamed
  <2>6. pc # "default" /\ design.default # NoName => buses[1].name = design.default
    BY <1>1 DEF BusesNamed, OneBusPerName
  <2>7. design.default # NoName /\ buses' # <<>> => buses'[1].name = design.default
    <3>1. ASSUME pc' # "default", design.default # NoName PROVE buses'[1].name = design.default
      <4>1. 1 \in DOMAIN buses /\ buses[1].name = design.default
        BY <3>1, <2>3, <2>5, <2>6, <1>5
      <4>2. QED  BY <4>1, <1>4
    <3>2. QED  BY <3>1, <2>4
  <2>8. QED  BY <2>1, <2>4, <2>5, <2>7, <1>2 DEF BusesNamed, OneBusPerName
<1>9. QED  BY <1>7, <1>8

LEMMA MergingKept ==
  ASSUME ListInv, [Next]_vars
  PROVE  BeingMerged'
<1>1. /\ TypeOK /\ BeingMerged /\ merging \in [bus : 0..Len(buses), tag : Nat]
      /\ \A i \in DOMAIN buses : buses[i] \in Info
      /\ at.comp \in Comps => Piece(PieceAt(at))
  BY StateFacts DEF ListInv
<1>2. design' = design /\ Comps' = Comps /\ errors \subseteq errors'  BY BusesKept DEF Comps
<1>3. at' = at => PieceAt(at)' = PieceAt(at)  BY <1>2 DEF PieceAt
<1>4. CASE CheckMerge
  <2> DEFINE p == PieceAt(at)
  <2>1. /\ at.comp \in Comps /\ p.kind = "map" /\ p.name # NoName /\ Find(p.name) # 0
        /\ merging' = [bus |-> Find(p.name), tag |-> 1] /\ at' = at /\ buses' = buses
    BY <1>4 DEF CheckMerge, Looking
  <2>2. Find(p.name) \in DOMAIN buses /\ buses[Find(p.name)].name = p.name
    BY <2>1, <1>1, StateFacts, FindFacts
  <2>3. Len(p.tags) \in Nat /\ DOMAIN p.tags = 1..Len(p.tags)  BY <2>1, <1>1, PieceFacts
  <2>4. \A j \in DOMAIN p.tags : ~(j < 1)  BY <2>3
  <2>5. QED  BY <2>1, <2>2, <2>4, <1>2, <1>3 DEF BeingMerged
<1>5. CASE MergeTag
  <2> DEFINE p == PieceAt(at)
             m == merging.bus
             x == p.tags[merging.tag]
  <2>1. /\ at.comp \in Comps /\ m \in DOMAIN buses
        /\ p.kind = "map" /\ p.name # NoName /\ buses[m].name = p.name
        /\ merging.tag \in DOMAIN p.tags /\ x \in DOMAIN p.val
        /\ merging' \in [bus : {m}, tag : {2, merging.tag + 1}]
    BY <1>5, MergeFacts
  <2>2. PICK new \in Info :
          /\ buses' = [buses EXCEPT ![m] = new] /\ Extends(buses[m], new)
          /\ Covered(new, x, p.val[x], errors')
    BY <1>5, MergeFacts
  <2>3. pc = "merge" /\ at' = at  BY <1>5 DEF MergeTag
  <2>4. /\ merging.tag > 0 /\ merging.tag \in Nat
        /\ \A j \in DOMAIN p.tags : j < merging.tag =>
             Covered(buses[m], p.tags[j], p.val[p.tags[j]], errors)
    BY <2>3, <1>1 DEF BeingMerged
  <2>5. buses'[m] = new /\ m \in DOMAIN buses' /\ merging'.bus = m  BY <2>1, <2>2
  <2>6. merging'.tag \in {2, merging.tag + 1}  BY <2>1
  <2>7. /\ DOMAIN p.tags \subseteq Nat /\ \A j \in DOMAIN p.tags : j > 0
        /\ \A j \in DOMAIN p.tags : p.tags[j] \in DOMAIN p.val /\ p.val[p.tags[j]] \in Nat
    BY <2>1, <1>1, PieceFacts
  <2> HIDE DEF p, m
  <2>8. \A j \in DOMAIN p.tags : j < merging.tag => Covered(new, p.tags[j], p.val[p.tags[j]], errors')
    BY <2>1, <2>2, <2>4, <2>7, <1>1, <1>2, CoveredKept
  <2>9. \A j \in DOMAIN p.tags : j < merging'.tag => j < merging.tag \/ j = merging.tag
    BY <2>4, <2>6, <2>7
  <2>10. \A j \in DOMAIN p.tags : j < merging'.tag =>
           Covered(new, p.tags[j], p.val[p.tags[j]], errors')
    BY <2>2, <2>8, <2>9
  <2>11. new.name = p.name  BY <2>1, <2>2 DEF Extends
  <2>12. merging'.tag > 0  BY <2>4, <2>6
  <2>13. PieceAt(at)' = p  BY <2>3, <1>3 DEF p
  <2>14. QED  BY <2>1, <2>3, <2>5, <2>10, <2>11, <2>12, <2>13, <1>2 DEF BeingMerged
<1>6. CASE UNCHANGED vars
  BY <1>1, <1>2, <1>3, <1>6 DEF vars, BeingMerged
<1>7. ASSUME ~CheckMerge, ~MergeTag, ~UNCHANGED vars PROVE pc' # "merge"
  BY <1>7 DEF Next, Looking, AddDefault, CheckNoDefn, CheckUnnamed, CheckName, CheckNewBus,
         EndMerge, Generators, AssignRefs, SetClocks, NoClock, AddToBuses, AddAborts, EndAdd, Pass
<1>8. QED  BY <1>4, <1>5, <1>6, <1>7 DEF BeingMerged
-----------------------------------------------------------------------------
LEMMA PassesKept ==
  ASSUME ListInv, [Next]_vars
  PROVE  PassesDone'
<1> DEFINE Done(p, b) ==
             /\ p \in {"defns", "merge"} /\ b.gen # 0 => "TYPE" \in DOMAIN b.hash
             /\ p \in {"refs", "add", "done"} => b.gen # 0
             /\ p \in {"add", "done"} => b.clock # 0
             /\ p \in {"defns", "merge", "refs"} => b.slaves = <<>> /\ b.masters = <<>>
<1>1. /\ TypeOK /\ DOMAIN buses = 1..Len(buses) /\ Len(buses) \in Nat
      /\ \A i \in DOMAIN buses : buses[i] \in Info /\ Sound(design, buses[i])
  BY StateFacts DEF ListInv, AllSound
<1>2. \A i \in DOMAIN buses : Done(pc, buses[i])
  BY DEF ListInv, PassesDone, Merged
<1>3. (\A i \in DOMAIN buses' : Done(pc', buses'[i])) => PassesDone'
  BY DEF PassesDone, Merged
<1> SUFFICES ASSUME NEW i \in DOMAIN buses' PROVE Done(pc', buses'[i])
  BY <1>3
<1> HIDE DEF Done
<1>4. CASE AddDefault
  <2>1. pc' = "defns" /\ buses' = IF design.default = NoName THEN <<>> ELSE <<NewBus(design.default)>>
    BY <1>4 DEF AddDefault
  <2>2. buses'[i] = NewBus(design.default)  BY <2>1
  <2>3. QED  BY <2>1, <2>2 DEF Done, NewBus
<1>5. CASE MergeTag
  <2>1. PICK new \in Info :
          /\ buses' = [buses EXCEPT ![merging.bus] = new] /\ Extends(buses[merging.bus], new)
          /\ new.gen = buses[merging.bus].gen
          /\ new.slaves = buses[merging.bus].slaves /\ new.masters = buses[merging.bus].masters
    BY <1>5, MergeFacts
  <2>2. pc = "merge" /\ pc' = "merge"  BY <1>5 DEF MergeTag
  <2>3. i \in DOMAIN buses /\ Done(pc, buses[i])  BY <2>1, <1>2
  <2>4. CASE i = merging.bus  BY <2>1, <2>2, <2>3, <2>4 DEF Done, Extends
  <2>5. CASE i # merging.bus  BY <2>1, <2>2, <2>3, <2>5
  <2>6. QED  BY <2>4, <2>5
<1>6. CASE Generators
  <2>1. /\ pc = "defns" /\ pc' = "refs" /\ i \in DOMAIN buses /\ buses'[i] = Generator(buses[i])
    BY <1>6 DEF Generators, Pass
  <2>2. /\ Generator(buses[i]).gen # 0 /\ Generator(buses[i]).slaves = buses[i].slaves
        /\ Generator(buses[i]).masters = buses[i].masters
    BY <2>1, <1>1, GeneratorFacts
  <2>3. Done(pc, buses[i])  BY <2>1, <1>2
  <2>4. QED  BY <2>1, <2>2, <2>3 DEF Done
<1>7. CASE SetClocks
  <2>1. pc = "refs" /\ pc' = "add" /\ i \in DOMAIN buses  BY <1>7 DEF SetClocks, Pass
  <2>2. /\ buses'[i] = Clocked(buses[i])
        /\ buses[i].clock # 0 \/ "CLOCK" \in DOMAIN buses[i].hash
    BY <1>7, <2>1, SetClocksFacts
  <2>3. Clocked(buses[i]).clock # 0 /\ Clocked(buses[i]).gen = buses[i].gen
    BY <2>1, <2>2, <1>1, ClockedFacts
  <2>4. Done(pc, buses[i])  BY <2>1, <1>2
  <2>5. QED  BY <2>1, <2>2, <2>3, <2>4 DEF Done
<1>8. CASE AddToBuses
  <2>1. pc = "add" /\ pc' = "add"  BY <1>8 DEF AddToBuses
  <2>2. i \in DOMAIN buses  BY <1>8, AddFacts
  <2> DEFINE s == Joined(buses[i].slaves, at.comp,
                    design.comps[at.comp].slave /\ BusOf(at.comp, "SLAVE") = i)
             m == Joined(buses[i].masters, at.comp,
                    design.comps[at.comp].master /\ BusOf(at.comp, "MASTER") = i)
  <2>3. /\ buses'[i] = [buses[i] EXCEPT !.slaves = s, !.masters = m]
        /\ s \in Seq(Nat) /\ m \in Seq(Nat)
    BY <1>8, <2>2, AddFacts
  <2> HIDE DEF s, m
  <2>4. PICK b \in Info : b = buses[i] /\ Sound(design, b)  BY <2>2, <1>1
  <2>5. LET g == [b EXCEPT !.slaves = s, !.masters = m]
        IN  g.gen = b.gen /\ g.clock = b.clock
    BY DEF Info
  <2>6. Done(pc, buses[i])  BY <2>2, <1>2
  <2>7. QED  BY <2>1, <2>3, <2>4, <2>5, <2>6 DEF Done
<1>9. CASE CheckNoDefn \/ CheckUnnamed \/ CheckMerge \/ EndMerge
  <2>1. buses' = buses /\ pc \in {"defns", "merge"} /\ pc' \in {"defns", "merge"}
    BY <1>9 DEF CheckNoDefn, CheckUnnamed, CheckMerge, EndMerge, Looking
  <2>2. Done(pc, buses[i])  BY <2>1, <1>2
  <2>3. QED  BY <2>1, <2>2 DEF Done
<1>10. CASE CheckName \/ CheckNewBus
  <2>1. pc = "defns" /\ pc' = "defns"  BY <1>10 DEF CheckName, CheckNewBus, Looking
  <2>2. ~AddDefault  BY <2>1 DEF AddDefault
  <2>3. CASE DOMAIN buses' = DOMAIN buses
    <3>1. buses' = buses
      <4>1. buses' # buses => \E b : buses' = Append(buses, b)
        BY <1>10 DEF CheckName, CheckNewBus
      <4>2. ASSUME NEW b, buses' = Append(buses, b) PROVE FALSE
        <5>1. buses \in Seq(Info)  BY <1>1, StateFacts
        <5>2. buses' \in Seq(Info) /\ Len(buses') = Len(buses) + 1
          BY <4>2, <5>1, BusesKept
        <5>3. DOMAIN buses' = 1..(Len(buses) + 1)  BY <5>2, LenProperties
        <5>4. Len(buses) + 1 \in DOMAIN buses' /\ Len(buses) + 1 \notin DOMAIN buses
          BY <5>3, <1>1
        <5>5. QED  BY <5>4, <2>3
      <4>3. QED  BY <4>1, <4>2
    <3>2. QED  BY <3>1, <2>1, <1>2
  <2>4. CASE \E b \in Info : /\ buses' = Append(buses, b) /\ Sound(design, b)
                             /\ b.slaves = <<>> /\ b.masters = <<>>
                             /\ b.gen # 0 => "TYPE" \in DOMAIN b.hash
    <3>1. PICK b \in Info : /\ buses' = Append(buses, b) /\ Sound(design, b)
                            /\ b.slaves = <<>> /\ b.masters = <<>>
                            /\ b.gen # 0 => "TYPE" \in DOMAIN b.hash
      BY <2>4
    <3>2. /\ buses'[Len(buses) + 1] = b /\ DOMAIN buses' = 1..(Len(buses) + 1)
          /\ \A j \in DOMAIN buses : buses'[j] = buses[j]
      BY <3>1, OneMoreBus
    <3>3. CASE i = Len(buses) + 1  BY <2>1, <3>1, <3>2, <3>3 DEF Done
    <3>4. CASE i # Len(buses) + 1
      <4>1. i \in DOMAIN buses  BY <3>2, <3>4, <1>1
      <4>2. QED  BY <4>1, <3>2, <2>1, <1>2
    <3>5. QED  BY <3>3, <3>4
  <2>5. QED  BY <2>2, <2>3, <2>4, AddedOrNot
<1>11. CASE AssignRefs \/ EndAdd \/ UNCHANGED vars
  <2>1. buses' = buses /\ (pc' = pc \/ (pc = "add" /\ pc' = "done"))
    BY <1>11 DEF AssignRefs, EndAdd, vars, Pass
  <2>2. Done(pc, buses[i])  BY <2>1, <1>2
  <2>3. QED  BY <2>1, <2>2 DEF Done
<1>12. CASE NoClock \/ AddAborts
  <2>1. pc' = "fatal"  BY <1>12 DEF NoClock, AddAborts, Pass
  <2>2. QED  BY <2>1 DEF Done
<1>13. QED
  BY <1>4, <1>5, <1>6, <1>7, <1>8, <1>9, <1>10, <1>11, <1>12 DEF Next
-----------------------------------------------------------------------------
(* Joining a list counts once, for the one who joins.                      *)
LEMMA JoinedTally ==
  ASSUME NEW q \in Seq(Nat), NEW x \in Nat, NEW c \in Nat, NEW yes \in BOOLEAN
  PROVE  Tally(Joined(q, x, yes), {c}) = Tally(q, {c}) + OnceIf(yes /\ c = x)
<1>1. Tally(q, {c}) \in Nat  BY TallyType
<1>2. CASE yes
  <2>1. Tally(Append(q, x), {c}) = Tally(q, {c}) + (IF x \in {c} THEN 1 ELSE 0)
    BY AppendTally
  <2>2. QED  BY <2>1, <1>1, <1>2 DEF Joined, OnceIf
<1>3. CASE ~yes  BY <1>1, <1>3 DEF Joined, OnceIf
<1>4. QED  BY <1>2, <1>3

(* On which bus a component belongs is settled before any is attached.     *)
LEMMA PlacesStay ==
  ASSUME ListInv, [Next]_vars, pc \in {"refs", "add"}
  PROVE  /\ design' = design /\ ref' = ref /\ DOMAIN buses' = DOMAIN buses
         /\ \A c \in Comps : /\ Aborts(c)' <=> Aborts(c)
                             /\ \A k : BusOf(c, k)' = BusOf(c, k)
<1>1. /\ buses \in Seq(Info) /\ DOMAIN buses = 1..Len(buses) /\ Len(buses) \in Nat
  BY StateFacts DEF ListInv
<1>2. design' = design /\ buses' \in Seq(Info)  BY BusesKept
<1>3. Len(buses') \in Nat /\ DOMAIN buses' = 1..Len(buses')  BY <1>2, LenProperties
<1>4. ref' = ref
  BY DEF Next, vars, AddDefault, CheckNoDefn, CheckUnnamed, CheckName, CheckNewBus, CheckMerge,
         MergeTag, EndMerge, Generators, AssignRefs, SetClocks, NoClock, AddToBuses, AddAborts,
         EndAdd, Looking, Pass
<1>5. DOMAIN buses' = DOMAIN buses
  BY DEF Next, vars, AddDefault, CheckNoDefn, CheckUnnamed, CheckName, CheckNewBus, CheckMerge,
         MergeTag, EndMerge, Generators, AssignRefs, SetClocks, NoClock, AddToBuses, AddAborts,
         EndAdd, Looking, Pass
<1>6. buses = <<>> <=> 1 \notin DOMAIN buses  BY <1>1
<1>7. buses' = <<>> <=> 1 \notin DOMAIN buses'  BY <1>2, <1>3
<1>8. buses' = <<>> <=> buses = <<>>  BY <1>5, <1>6, <1>7
<1>9. QED  BY <1>2, <1>4, <1>5, <1>8 DEF Aborts, BusOf
-----------------------------------------------------------------------------
LEMMA AttachedKept ==
  ASSUME ListInv, [Next]_vars
  PROVE  Attached'
<1> DEFINE S(c, b) == Tally(buses[b].slaves, {c})
           M(c, b) == Tally(buses[b].masters, {c})
           OnS(c, b) == design.comps[c].slave /\ BusOf(c, "SLAVE") = b
           OnM(c, b) == design.comps[c].master /\ BusOf(c, "MASTER") = b
           Good(c) == /\ Passed(c) => ~Aborts(c)
                      /\ \A b \in DOMAIN buses : /\ S(c, b) = OnceIf(Passed(c) /\ OnS(c, b))
                                                 /\ M(c, b) = OnceIf(Passed(c) /\ OnM(c, b))
<1>1. /\ TypeOK /\ design \in Designs /\ Len(design.comps) \in Nat /\ Comps = 1..Len(design.comps)
      /\ DOMAIN buses = 1..Len(buses) /\ Len(buses) \in Nat
      /\ \A i \in DOMAIN buses : buses[i] \in Info /\ Sound(design, buses[i])
      /\ at.comp \in 1..(Len(design.comps) + 1)
  BY StateFacts DEF ListInv, AllSound
<1>2. Attached <=> (pc \in {"add", "done"} => \A c \in Comps : Good(c))
  BY DEF Attached
<1>3. Attached' <=> (pc' \in {"add", "done"} => \A c \in Comps' : Good(c)')
  BY DEF Attached
<1>4. Attached  BY DEF ListInv
<1>5. design' = design /\ Comps' = Comps  BY BusesKept DEF Comps
<1>6. CASE SetClocks
  <2>1. /\ pc = "refs" /\ pc' = "add" /\ at' = FirstPlace  BY <1>6 DEF SetClocks, Pass
  <2>2. \A c \in Comps : Passed(c)' = FALSE
    BY <2>1, <1>1 DEF Passed, FirstPlace
  <2>3. ASSUME NEW b \in DOMAIN buses PROVE buses'[b].slaves = <<>> /\ buses'[b].masters = <<>>
    <3>1. /\ buses'[b] = Clocked(buses[b])
          /\ buses[b].clock # 0 \/ "CLOCK" \in DOMAIN buses[b].hash
      BY <1>6, SetClocksFacts
    <3>2. Clocked(buses[b]).slaves = buses[b].slaves /\ Clocked(buses[b]).masters = buses[b].masters
      BY <3>1, <1>1, ClockedFacts
    <3>3. buses[b].slaves = <<>> /\ buses[b].masters = <<>>
      BY <2>1 DEF ListInv, PassesDone
    <3>4. QED  BY <3>1, <3>2, <3>3
  <2>4. DOMAIN buses' = DOMAIN buses  BY <2>1, PlacesStay
  <2>5. \A c \in Comps : Good(c)'
    BY <2>2, <2>3, <2>4, TallyEmpty DEF OnceIf
  <2>6. QED  BY <2>5, <1>3, <1>5
<1>7. CASE AddToBuses
  <2>1. /\ pc = "add" /\ pc' = "add" /\ at' = [at EXCEPT !.comp = @ + 1]
    BY <1>7 DEF AddToBuses
  <2>2. at.comp \in Comps /\ ~Aborts(at.comp) /\ at.comp \in Nat  BY <1>7, AddFacts
  <2>3. at'.comp = at.comp + 1  BY <2>1, <1>1, StateFacts
  <2>4. /\ ref' = ref /\ DOMAIN buses' = DOMAIN buses
        /\ \A c \in Comps : /\ Aborts(c)' <=> Aborts(c)
                            /\ \A k : BusOf(c, k)' = BusOf(c, k)
    BY <2>1, PlacesStay
  <2>5. ASSUME NEW c \in Comps PROVE Good(c)'
    <3>1. c \in Nat  BY <1>1
    <3>2. Good(c)  BY <2>1, <1>2, <1>4
    <3>3. Passed(c)' <=> Passed(c) \/ c = at.comp  BY <2>1, <2>2, <2>3, <3>1 DEF Passed
    <3>4. Passed(c) => c # at.comp  BY <2>1, <2>2, <3>1 DEF Passed
    <3>5. ASSUME NEW b \in DOMAIN buses
          PROVE  /\ S(c, b)' = OnceIf(Passed(c)' /\ OnS(c, b)')
                 /\ M(c, b)' = OnceIf(Passed(c)' /\ OnM(c, b)')
      <4> DEFINE yes == OnS(at.comp, b)
                 too == OnM(at.comp, b)
                 s == Joined(buses[b].slaves, at.comp, yes)
                 m == Joined(buses[b].masters, at.comp, too)
      <4>1. buses'[b] = [buses[b] EXCEPT !.slaves = s, !.masters = m]  BY <1>7, AddFacts
      <4>2. buses[b] \in Info  BY <1>1
      <4>3. buses[b].slaves \in Seq(Nat) /\ buses[b].masters \in Seq(Nat)  BY <4>2 DEF Info
      <4>4. yes \in BOOLEAN /\ too \in BOOLEAN  BY <2>2, <1>1, DesignFacts
      <4>5. /\ Tally(s, {c}) = S(c, b) + OnceIf(yes /\ c = at.comp)
            /\ Tally(m, {c}) = M(c, b) + OnceIf(too /\ c = at.comp)
        <5> HIDE DEF yes, too
        <5>1. QED  BY <4>3, <4>4, <3>1, <2>2, JoinedTally
      <4>6. buses'[b].slaves = s /\ buses'[b].masters = m
        <5> HIDE DEF s, m
        <5>1. QED  BY <4>1, <4>2 DEF Info
      <4>7. /\ S(c, b)' = S(c, b) + OnceIf(yes /\ c = at.comp)
            /\ M(c, b)' = M(c, b) + OnceIf(too /\ c = at.comp)
        <5> HIDE DEF s, m, yes, too
        <5>1. QED  BY <4>5, <4>6 DEF s, m
      <4>8. S(c, b) = OnceIf(Passed(c) /\ OnS(c, b)) /\ M(c, b) = OnceIf(Passed(c) /\ OnM(c, b))
        BY <3>2
      <4>9. (OnS(c, b)' <=> OnS(c, b)) /\ (OnM(c, b)' <=> OnM(c, b))
        BY <2>4, <1>5
      <4>10. c = at.comp => (yes <=> OnS(c, b)) /\ (too <=> OnM(c, b))  OBVIOUS
      <4> HIDE DEF s, m, yes, too, S, M, OnS, OnM
      <4>11. QED  BY <4>7, <4>8, <4>9, <4>10, <3>3, <3>4 DEF OnceIf
    <3>6. Passed(c)' => ~Aborts(c)'  BY <2>2, <2>4, <3>2, <3>3
    <3>7. QED  BY <2>4, <3>5, <3>6
  <2>6. QED  BY <2>5, <1>3, <1>5
<1>8. CASE EndAdd
  <2>1. /\ at.comp \notin Comps /\ pc = "add" /\ pc' = "done" /\ buses' = buses
    BY <1>8 DEF EndAdd, Pass
  <2>2. \A c \in Comps : Passed(c)' /\ Passed(c)
    BY <2>1, <1>1 DEF Passed
  <2>3. \A c \in Comps : /\ Aborts(c)' <=> Aborts(c)
                         /\ \A k : BusOf(c, k)' = BusOf(c, k)
    BY <2>1, PlacesStay
  <2>4. \A c \in Comps : Good(c)  BY <2>1, <1>2, <1>4
  <2>5. \A c \in Comps : Good(c)'  BY <2>1, <2>2, <2>3, <2>4, <1>5
  <2>6. QED  BY <2>5, <1>3, <1>5
<1>9. CASE UNCHANGED vars
  <2>1. /\ design' = design /\ pc' = pc /\ at' = at /\ buses' = buses /\ ref' = ref
    BY <1>9 DEF vars
  <2>2. \A c : (Passed(c)' <=> Passed(c)) /\ (Aborts(c)' <=> Aborts(c))
    BY <2>1 DEF Passed, Aborts
  <2>3. \A c, k : BusOf(c, k)' = BusOf(c, k)  BY <2>1 DEF BusOf
  <2>4. \A c \in Comps : Good(c) => Good(c)'  BY <2>1, <2>2, <2>3
  <2>5. QED  BY <2>1, <2>4, <1>2, <1>3, <1>4, <1>5
<1>10. ASSUME ~SetClocks, ~AddToBuses, ~EndAdd, ~UNCHANGED vars
       PROVE  pc' \notin {"add", "done"}
  BY <1>10 DEF Next, AddDefault, CheckNoDefn, CheckUnnamed, CheckName, CheckNewBus, CheckMerge,
         MergeTag, EndMerge, Generators, AssignRefs, NoClock, AddAborts, Looking, Pass
<1>11. QED  BY <1>6, <1>7, <1>8, <1>9, <1>10, <1>3
-----------------------------------------------------------------------------
LEMMA InvFirst ==
  ASSUME Init
  PROVE  ListInv
<1>1. /\ design \in Designs /\ pc = "default" /\ at = FirstPlace /\ buses = <<>>
      /\ merging = [bus |-> 0, tag |-> 0] /\ errors = {}
      /\ ref = [c \in Comps |-> [k \in Range(Key) |-> 0]]
  BY DEF Init
<1>2. /\ Len(design.comps) \in Nat /\ Comps = 1..Len(design.comps)
  BY <1>1, DesignFacts DEF Comps
<1>3. DOMAIN buses = {} /\ Len(buses) = 0  BY <1>1
<1>4. TypeOK
  <2>1. at \in [comp : 1..(Len(design.comps) + 1), key : DOMAIN Key]
    BY <1>1, <1>2, KeyFacts DEF FirstPlace
  <2>2. buses \in Seq(Range(buses))  BY <1>1 DEF Range
  <2>3. ref \in [Comps -> [Range(Key) -> 0..Len(buses)]]  BY <1>1, <1>3
  <2>4. merging \in [bus : 0..Len(buses), tag : Nat]  BY <1>1, <1>3
  <2>5. QED  BY <1>1, <1>3, <2>1, <2>2, <2>3, <2>4 DEF TypeOK
<1>5. AllReferred
  <2> SUFFICES ASSUME NEW c \in Comps, NEW k \in DOMAIN Key PROVE Referred(c, k)
    BY DEF AllReferred
  <2>1. ~Visited(c, k)
    BY <1>1, <1>2, KeyFacts DEF Visited, FirstPlace
  <2>2. Key[k] \in Range(Key)  BY DEF Range
  <2>3. ref[c][Key[k]] = 0  BY <1>1, <2>2
  <2>4. QED  BY <2>1, <2>3 DEF Referred
<1>6. BusesNamed  BY <1>1, <1>3 DEF BusesNamed, OneBusPerName
<1>7. QED
  BY <1>1, <1>3, <1>4, <1>5, <1>6
     DEF ListInv, AllSound, BeingMerged, ErrorsTrue, PassesDone, Attached, Merged

LEMMA InvKept ==
  ASSUME ListInv, [Next]_vars
  PROVE  ListInv'
<1>1. design' = design /\ \A i \in DOMAIN buses' : Sound(design, buses'[i])
  BY BusesKept
<1>2. AllSound'  BY <1>1 DEF AllSound
<1>3. QED
  BY <1>2, TypeKept, NamedKept, ReferredKept, MergingKept, ErrorsKept, PassesKept, AttachedKept
     DEF ListInv

LEMMA ListInvHolds == Spec => []ListInv
<1>1. Init => ListInv  BY InvFirst
<1>2. ListInv /\ [Next]_vars => ListInv'  BY InvKept
<1>3. QED  BY <1>1, <1>2, PTL DEF Spec

(* Every variable keeps its type, for every design.                        *)
THEOREM BusTypes == Spec => []TypeOK
<1>1. ListInv => TypeOK  BY DEF ListInv
<1>2. QED  BY <1>1, ListInvHolds, PTL
-----------------------------------------------------------------------------
(* The values given to a tag, as the properties of BusList write them.     *)
LEMMA GivenSame ==
  ASSUME design \in Designs, NEW n, NEW t
  PROVE  Given(n, t) = GivenBy(design, n, t)
<1>1. \A c \in Comps : \A k \in DOMAIN Key :
        /\ Piece(PieceOf(design, c, k))
        /\ PieceOf(design, c, k) \in Range(design.comps[c].pieces)
  <2>1. ASSUME NEW c \in Comps, NEW k \in DOMAIN Key
        PROVE  PieceOf(design, c, k) \in Range(design.comps[c].pieces)
    <3>1. DOMAIN design.comps[c].pieces = Range(Key)  BY DesignAssumption DEF Comps
    <3>2. Key[k] \in Range(Key)  BY DEF Range
    <3>3. QED  BY <3>1, <3>2 DEF PieceOf, Range
  <2>2. QED  BY <2>1, DesignFacts DEF Comps
<1>2. \A c \in Comps : \A p \in Range(design.comps[c].pieces) :
        \E k \in DOMAIN Key : p = PieceOf(design, c, k)
  <2>1. ASSUME NEW c \in Comps, NEW p \in Range(design.comps[c].pieces)
        PROVE  \E k \in DOMAIN Key : p = PieceOf(design, c, k)
    <3>1. DOMAIN design.comps[c].pieces = Range(Key)  BY DesignAssumption DEF Comps
    <3>2. PICK x \in Range(Key) : p = design.comps[c].pieces[x]  BY <3>1 DEF Range
    <3>3. PICK k \in DOMAIN Key : x = Key[k]  BY <3>2 DEF Range
    <3>4. QED  BY <3>2, <3>3 DEF PieceOf
  <2>2. QED  BY <2>1
<1>3. ASSUME NEW v \in Given(n, t) PROVE v \in GivenBy(design, n, t)
  <2>1. PICK p \in Pieces(n) : t \in DOMAIN p.val /\ v = p.val[t]  BY DEF Given
  <2>2. PICK c \in Comps : p \in Range(design.comps[c].pieces)  BY DEF Pieces
  <2>3. p.kind = "map" /\ p.name = n  BY DEF Pieces
  <2>4. PICK k \in DOMAIN Key : p = PieceOf(design, c, k)  BY <2>2, <1>2
  <2>5. p.val[t] \in Nat \ {0}  BY <2>1, <2>4, <1>1, PieceFacts
  <2>6. QED  BY <2>1, <2>3, <2>4, <2>5 DEF GivenBy, Says, Comps
<1>4. ASSUME NEW v \in GivenBy(design, n, t) PROVE v \in Given(n, t)
  <2>1. PICK c \in Comps, k \in DOMAIN Key :
          Says(PieceOf(design, c, k), n, t) /\ PieceOf(design, c, k).val[t] = v
    BY DEF GivenBy, Comps
  <2>2. PICK p \in Range(design.comps[c].pieces) : p = PieceOf(design, c, k)  BY <1>1
  <2>3. p.kind = "map" /\ p.name = n /\ t \in DOMAIN p.val /\ p.val[t] = v
    BY <2>1, <2>2 DEF Says
  <2>4. p \in Pieces(n)  BY <2>3 DEF Pieces
  <2>5. QED  BY <2>3, <2>4 DEF Given
<1>5. QED  BY <1>3, <1>4

LEMMA GivenFinite ==
  ASSUME NEW d \in Designs, NEW n, NEW t
  PROVE  IsFiniteSet(GivenBy(d, n, t))
<1> DEFINE P == (DOMAIN d.comps) \X (DOMAIN Key)
           Q == {x \in P : Says(PieceOf(d, x[1], x[2]), n, t)}
           f == [x \in Q |-> PieceOf(d, x[1], x[2]).val[t]]
           R == {f[x] : x \in Q}
<1>1. IsFiniteSet(DOMAIN d.comps) /\ IsFiniteSet(DOMAIN Key)
  <2>1. Len(d.comps) \in Nat /\ DOMAIN d.comps = 1..Len(d.comps)  BY DesignFacts
  <2>2. \A j \in Nat : IsFiniteSet(1..j)  BY FS_Interval
  <2>3. IsFiniteSet(1..Len(d.comps)) /\ IsFiniteSet(1..3)  BY <2>1, <2>2
  <2>4. QED  BY <2>1, <2>3, KeyFacts
<1>2. IsFiniteSet(P)  BY <1>1, FS_Product
<1>3. IsFiniteSet(Q)
  <2>1. Q \subseteq P  OBVIOUS
  <2> HIDE DEF P, Q
  <2>2. QED  BY <2>1, <1>2, FS_Subset
<1>4. GivenBy(d, n, t) \subseteq R
  <2>1. ASSUME NEW v \in GivenBy(d, n, t) PROVE v \in R
    <3>1. PICK c \in DOMAIN d.comps, k \in DOMAIN Key :
            Says(PieceOf(d, c, k), n, t) /\ PieceOf(d, c, k).val[t] = v
      BY DEF GivenBy
    <3>2. <<c, k>> \in Q  BY <3>1
    <3>3. f[<<c, k>>] = v  BY <3>1, <3>2
    <3>4. QED  BY <3>2, <3>3
  <2>2. QED  BY <2>1
<1>5. IsFiniteSet(R)
  <2>1. f \in [Q -> R] /\ \A v \in R : \E x \in Q : f[x] = v  OBVIOUS
  <2>2. f \in Surjection(Q, R)  BY <2>1, Zenon DEF Surjection
  <2> HIDE DEF Q, f, R
  <2>3. QED  BY <1>3, <2>2, FS_Surjection
<1> HIDE DEF R
<1>6. QED  BY <1>4, <1>5, FS_Subset

(* More than one value is given where two differ.                          *)
LEMMA TwoGiven ==
  ASSUME NEW d \in Designs, NEW n, NEW t
  PROVE  Cardinality(GivenBy(d, n, t)) > 1 <=> Disagree(d, n, t)
<1> DEFINE G == GivenBy(d, n, t)
<1>1. IsFiniteSet(G) /\ Cardinality(G) \in Nat  BY GivenFinite, FS_CardinalityType
<1>2. Disagree(d, n, t) <=> \E v, w \in G : v # w  BY DEF Disagree
<1> HIDE DEF G
<1>3. CASE \A v, w \in G : v = w
  <2>1. CASE G = {}
    <3>1. Cardinality(G) = 0  BY <2>1, FS_EmptySet
    <3>2. QED  BY <3>1, <2>1, <1>2 DEF G
  <2>2. CASE G # {}
    <3>1. PICK v : v \in G  BY <2>2
    <3>2. G = {v}  BY <3>1, <1>3
    <3>3. Cardinality(G) = 1  BY <3>2, FS_Singleton
    <3>4. QED  BY <3>3, <1>2, <1>3 DEF G
  <2>3. QED  BY <2>1, <2>2
<1>4. CASE \E v, w \in G : v # w
  <2>1. PICK v \in G, w \in G : v # w  BY <1>4
  <2>2. G # {} /\ G # {v}  BY <2>1
  <2>3. Cardinality(G) # 0  BY <2>2, <1>1, FS_EmptySet
  <2>4. Cardinality(G) # 1
    <3>1. Cardinality(G) = 1 => \E x : G = {x}  BY <1>1, FS_Singleton
    <3>2. QED  BY <3>1, <2>1
  <2>5. Cardinality(G) > 1  BY <2>3, <2>4, <1>1
  <2>6. QED  BY <2>5, <1>2, <1>4 DEF G
<1>5. QED  BY <1>3, <1>4 DEF G
-----------------------------------------------------------------------------
(* Once all pieces have been visited, a bus has heard all that is said of  *)
(* it.                                                                     *)
LEMMA Heard ==
  ASSUME ListInv, Merged, NEW i \in DOMAIN buses, NEW t,
         NEW v \in GivenBy(design, buses[i].name, t)
  PROVE  Covered(buses[i], t, v, errors)
<1>1. /\ TypeOK /\ AllReferred /\ OneBusPerName /\ \A j \in DOMAIN buses : buses[j] \in Info
  BY StateFacts DEF ListInv, BusesNamed
<1>2. PICK c \in Comps, k \in DOMAIN Key :
        Says(PieceOf(design, c, k), buses[i].name, t) /\ PieceOf(design, c, k).val[t] = v
  BY DEF GivenBy, Comps
<1> DEFINE p == PieceOf(design, c, k)
           r == ref[c][Key[k]]
<1>3. /\ p.kind = "map" /\ p.name = buses[i].name /\ t \in DOMAIN p.val /\ p.val[t] = v
  BY <1>2 DEF Says
<1>4. p.name # NoName  BY <1>1, <1>3, NameAssumption DEF Info
<1>5. Visited(c, k)  BY DEF Merged, Visited
<1>6. Referred(c, k)  BY <1>1 DEF AllReferred
<1>7. /\ r \in DOMAIN buses /\ buses[r].name = p.name
      /\ \A x \in DOMAIN p.val : Covered(buses[r], x, p.val[x], errors)
  BY <1>3, <1>4, <1>5, <1>6 DEF Referred
<1>8. r = i  BY <1>1, <1>3, <1>7 DEF OneBusPerName
<1> HIDE DEF p, r
<1>9. Covered(buses[i], t, p.val[t], errors)  BY <1>3, <1>7, <1>8
<1>10. QED  BY <1>3, <1>9

(* "Merge description of bus from multiple disparate sources"              *)
(* (businfo.cpp:329): what the pieces of a bus agree on is what its map    *)
(* and its BUSINFO end with, and nothing is in its map that no piece says, *)
(* for every design and every order of its hash tables.                    *)
THEOREM DefinitionsRight == Spec => []DefinitionsMerged
<1>1. ASSUME ListInv PROVE DefinitionsMerged
  <2>1. /\ TypeOK /\ design \in Designs
        /\ \A j \in DOMAIN buses : buses[j] \in Info /\ Sound(design, buses[j])
    BY <1>1, StateFacts DEF ListInv, AllSound
  <2> SUFFICES ASSUME Merged, NEW i \in DOMAIN buses,
                      NEW b, b = buses[i]
               PROVE  /\ \A t \in Tag \ {"OPT_PIPE"} : \A v \in Given(b.name, t) :
                           Given(b.name, t) = {v} =>
                             /\ t \in DOMAIN b.hash /\ b.hash[t] = v
                             /\ t = "WIDTH"  => b.width = v /\ b.hash["NSELECT"] = Select(v)
                             /\ t = "NULLSZ" => b.nullsz = v
                             /\ t = "CLOCK"  => b.clock = v \/ (pc = "refs" /\ b.clock = 0)
                             /\ t = "TYPE"   => b.gen = v
                      /\ \A t \in DOMAIN b.hash \cap Tag : b.hash[t] \in Given(b.name, t)
                      /\ b.gen = Matching(b.hash)
    BY DEF DefinitionsMerged
  <2>2. b \in Info /\ Sound(design, b)  BY <2>1
  <2>3. \A t : Given(b.name, t) = GivenBy(design, b.name, t)  BY <2>1, GivenSame
  <2>4. b.gen # 0 /\ (pc \in {"add", "done"} => b.clock # 0)
    BY <1>1 DEF ListInv, PassesDone
  <2>5. b.gen = Matching(b.hash)  BY <2>2, <2>4 DEF Sound
  <2>6. \A t \in DOMAIN b.hash \cap Tag : b.hash[t] \in Given(b.name, t)
    BY <2>2, <2>3 DEF Sound
  <2>7. ASSUME NEW t \in Tag \ {"OPT_PIPE"}, NEW v \in GivenBy(design, b.name, t),
               GivenBy(design, b.name, t) = {v}
        PROVE  /\ t \in DOMAIN b.hash /\ b.hash[t] = v
               /\ t = "WIDTH"  => b.width = v /\ b.hash["NSELECT"] = Select(v)
               /\ t = "NULLSZ" => b.nullsz = v
               /\ t = "CLOCK"  => b.clock = v \/ (pc = "refs" /\ b.clock = 0)
               /\ t = "TYPE"   => b.gen = v
    <3>1. Covered(b, t, v, errors)  BY <1>1, Heard
    <3>2. t \in DOMAIN b.hash  BY <3>1 DEF Covered
    <3>3. b.hash[t] = v  BY <3>2, <2>3, <2>6, <2>7
    <3>4. ASSUME t = "WIDTH" PROVE b.width = v /\ b.hash["NSELECT"] = Select(v)
      BY <3>2, <3>3, <3>4, <2>2 DEF Sound, Get
    <3>5. ASSUME t = "NULLSZ" PROVE b.nullsz = v
      <4>1. v \in Nat /\ v > 0  BY GivenPositive
      <4>2. b.nullsz >= v /\ b.nullsz \in Nat  BY <3>1, <3>5, <2>2 DEF Covered, Info
      <4>3. b.nullsz # 0  BY <4>1, <4>2
      <4>4. b.nullsz \in GivenBy(design, b.name, t)  BY <4>3, <3>5, <2>2 DEF Sound
      <4>5. QED  BY <4>4, <2>7
    <3>6. ASSUME t = "CLOCK" PROVE b.clock = v \/ (pc = "refs" /\ b.clock = 0)
      <4>1. b.clock # 0 => b.clock \in GivenBy(design, b.name, t)
        BY <3>6, <2>2 DEF Sound
      <4>2. QED  BY <4>1, <2>4, <2>7 DEF Merged
    <3>7. ASSUME t = "TYPE" PROVE b.gen = v
      BY <3>2, <3>3, <3>7, <2>5 DEF Matching
    <3>8. QED  BY <3>2, <3>3, <3>4, <3>5, <3>6, <3>7
  <2>8. QED  BY <2>3, <2>5, <2>6, <2>7
<1>2. QED  BY <1>1, ListInvHolds, PTL

(* Pieces that disagree on a width, an ID width or a reset are reported,   *)
(* and only those, for every design and every order of its hash tables.    *)
THEOREM ConflictsRight == Spec => []ConflictsReported
<1>1. ASSUME ListInv PROVE ConflictsReported
  <2>1. TypeOK /\ design \in Designs /\ \A j \in DOMAIN buses : buses[j] \in Info
    BY <1>1, StateFacts DEF ListInv
  <2> SUFFICES ASSUME Merged, NEW i \in DOMAIN buses, NEW t \in Watched
               PROVE  <<buses[i].name, t>> \in errors <=>
                        Cardinality(Given(buses[i].name, t)) > 1
    BY DEF ConflictsReported, Watched
  <2> DEFINE n == buses[i].name
  <2>2. n \in Names  BY <2>1 DEF Info
  <2>3. Cardinality(Given(n, t)) > 1 <=> Disagree(design, n, t)
    <3>1. Given(n, t) = GivenBy(design, n, t)  BY <2>1, GivenSame
    <3>2. Cardinality(GivenBy(design, n, t)) > 1 <=> Disagree(design, n, t)  BY <2>1, TwoGiven
    <3>3. QED  BY <3>1, <3>2
  <2>4. <<n, t>> \in errors => Disagree(design, n, t)  BY <1>1, <2>2 DEF ListInv, ErrorsTrue
  <2>5. ASSUME Disagree(design, n, t) PROVE <<n, t>> \in errors
    <3>1. PICK v \in GivenBy(design, n, t), w \in GivenBy(design, n, t) : v # w
      BY <2>5 DEF Disagree
    <3>2. Covered(buses[i], t, v, errors) /\ Covered(buses[i], t, w, errors)
      BY <1>1, Heard
    <3>3. QED  BY <3>1, <3>2 DEF Covered
  <2>6. QED  BY <2>3, <2>4, <2>5
<1>2. QED  BY <1>1, ListInvHolds, PTL
-----------------------------------------------------------------------------
(* A component that says something of a bus belongs to the bus that it     *)
(* names.                                                                  *)
LEMMA Belongs ==
  ASSUME ListInv, pc = "done", NEW c \in Comps, NEW k \in DOMAIN Key, NEW b \in DOMAIN buses,
         PieceOf(design, c, k).kind # "none"
  PROVE  BusOf(c, Key[k]) = b <=> PieceOf(design, c, k).name = buses[b].name
<1> DEFINE p == PieceOf(design, c, k)
           r == ref[c][Key[k]]
<1>1. /\ TypeOK /\ AllReferred /\ OneBusPerName /\ \A j \in DOMAIN buses : buses[j] \in Info
      /\ DOMAIN buses = 1..Len(buses) /\ Len(buses) \in Nat
  BY StateFacts DEF ListInv, BusesNamed
<1>2. BusOf(c, Key[k]) = r  BY DEF BusOf, PieceOf
<1>3. Referred(c, k) /\ Visited(c, k)  BY <1>1 DEF AllReferred, Visited
<1>4. buses[b].name # NoName  BY <1>1, NameAssumption DEF Info
<1>5. CASE p.name # NoName
  <2>1. r \in DOMAIN buses /\ buses[r].name = p.name  BY <1>3, <1>5 DEF Referred
  <2>2. QED  BY <1>1, <1>2, <2>1 DEF OneBusPerName
<1>6. CASE p.name = NoName
  <2>1. r = 0  BY <1>3, <1>6 DEF Referred
  <2>2. QED  BY <1>1, <1>2, <1>4, <1>6, <2>1
<1>7. QED  BY <1>5, <1>6

(* PLIST::add: a slave ends on the bus that its SLAVE.BUS names and on no  *)
(* other, once; a master on that of its MASTER.BUS, or on the default bus; *)
(* and no two buses of gbl_blist have the same name.                       *)
THEOREM OnRightBus == Spec => []OnItsBus
<1>1. ASSUME ListInv PROVE OnItsBus
  <2>1. /\ TypeOK /\ OneBusPerName /\ \A j \in DOMAIN buses : buses[j] \in Info
        /\ DOMAIN buses = 1..Len(buses) /\ Len(buses) \in Nat /\ design \in Designs
    BY <1>1, StateFacts DEF ListInv, BusesNamed
  <2> SUFFICES ASSUME pc = "done", NEW c \in Comps, NEW b \in DOMAIN buses
      PROVE  LET comp  == design.comps[c]
                 count(list) == Cardinality({i \in DOMAIN list : list[i] = c})
                 named(k) == comp.pieces[k].kind # "none" /\ comp.pieces[k].name = buses[b].name
                 default  == b = 1 /\ design.default \in {buses[b].name, NoName}
             IN  /\ count(buses[b].slaves) = IF comp.slave /\ named("SLAVE") THEN 1 ELSE 0
                 /\ count(buses[b].masters) =
                      IF comp.master /\ (named("MASTER") \/ (comp.pieces["MASTER"].kind = "none" /\ default))
                        THEN 1 ELSE 0
    BY <2>1 DEF OnItsBus
  <2> DEFINE comp  == design.comps[c]
             count(list) == Cardinality({i \in DOMAIN list : list[i] = c})
             named(k) == comp.pieces[k].kind # "none" /\ comp.pieces[k].name = buses[b].name
             default  == b = 1 /\ design.default \in {buses[b].name, NoName}
  <2>2. \A list : count(list) = Tally(list, {c})
    <3>1. \A list : {i \in DOMAIN list : list[i] = c} = Hits(list, {c})  BY DEF Hits
    <3>2. QED  BY <3>1 DEF Tally
  <2>3. /\ ~Aborts(c)
        /\ Tally(buses[b].slaves, {c}) = OnceIf(comp.slave /\ BusOf(c, "SLAVE") = b)
        /\ Tally(buses[b].masters, {c}) = OnceIf(comp.master /\ BusOf(c, "MASTER") = b)
    BY <1>1 DEF ListInv, Attached, Passed
  <2>4. \A k \in DOMAIN Key : comp.pieces[Key[k]].kind # "none" =>
                                (BusOf(c, Key[k]) = b <=> named(Key[k]))
    BY <1>1, Belongs DEF PieceOf
  <2>5. 2 \in DOMAIN Key /\ Key[2] = "SLAVE" /\ 3 \in DOMAIN Key /\ Key[3] = "MASTER"
    BY KeyFacts
  <2>6. comp.slave => (BusOf(c, "SLAVE") = b <=> named("SLAVE"))
    <3>1. comp.slave => comp.pieces["SLAVE"].kind # "none"  BY <2>3 DEF Aborts
    <3>2. QED  BY <3>1, <2>4, <2>5
  <2>7. BusOf(c, "MASTER") = b <=>
          (named("MASTER") \/ (comp.pieces["MASTER"].kind = "none" /\ default))
    <3>1. CASE comp.pieces["MASTER"].kind = "none"
      <4>1. BusOf(c, "MASTER") = 1  BY <3>1 DEF BusOf
      <4>2. b = 1 => design.default \in {buses[b].name, NoName}
        <5>1. buses # <<>>  BY <2>1
        <5>2. QED  BY <5>1, <2>1 DEF OneBusPerName
      <4>3. QED  BY <4>1, <4>2, <3>1
    <3>2. CASE comp.pieces["MASTER"].kind # "none"  BY <3>2, <2>4, <2>5
    <3>3. QED  BY <3>1, <3>2
  <2> HIDE DEF comp, count, named, default
  <2>8. count(buses[b].slaves) = IF comp.slave /\ named("SLAVE") THEN 1 ELSE 0
    BY <2>2, <2>3, <2>6 DEF OnceIf
  <2>9. count(buses[b].masters) =
          IF comp.master /\ (named("MASTER") \/ (comp.pieces["MASTER"].kind = "none" /\ default))
            THEN 1 ELSE 0
    BY <2>2, <2>3, <2>7 DEF OnceIf
  <2>10. QED  BY <2>8, <2>9 DEF comp, count, named, default
<1>2. QED  BY <1>1, ListInvHolds, PTL
=============================================================================
