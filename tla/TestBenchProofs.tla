--------------------------- MODULE TestBenchProofs ---------------------------
(***************************************************************************)
(* Proofs about find_clocks and the simulation that is generated from its  *)
(* list: what components say of a clock is merged, every component is      *)
(* ticked on its clock, the methods return where they should, and what is  *)
(* loaded is in its place.                                                 *)
(***************************************************************************)
EXTENDS TestBench, Lemmas

(* What is assumed of designs, where a theorem needs it: no frequency      *)
(* whose period is as short as that of a clock not set, and a design that  *)
(* names clocks names "clk".                                               *)
SlowClocks ==
  \A d \in Designs : \A c \in DOMAIN d : \A hz \in Range(d[c].freq) \cup {d[c].number} :
    hz # 0 => PicosPerSecond \div hz > UnknownPS
ClkNamed ==
  \A d \in Designs : (\E c \in DOMAIN d : d[c].name # <<>>) =>
    \E c \in DOMAIN d : Clk \in Range(d[c].name)

(* No component gives "clk" another wire than that which reset() looks at. *)
ClkWired ==
  \A d \in Designs : \A c \in DOMAIN d : \A k \in DOMAIN d[c].name :
    d[c].name[k] = Clk => Token(d[c]["wire"], k) \in {None, <<Default(Clk)>>}

(* What is loaded fits into the address space, as the memories do, and     *)
(* these lie apart.                                                        *)
ProgramFits == \A p \in Program : p[1] + p[2] < 2^AddrBits
Octets(m) == m.naddr * (m.width \div 8)
MemoriesFit ==
  \A d \in Designs : \A c \in DOMAIN d :
    d[c].simload # <<>> => Octets(d[c].simload[1]) <= 2^AddrBits
MemoriesApart ==
  \A d \in Designs : \A b, c \in DOMAIN d :
    LET m == d[b].simload[1]
        n == d[c].simload[1]
    IN  b # c /\ <<>> \notin {d[b].simload, d[c].simload} =>
          m.base + Octets(m) <= n.base \/ n.base + Octets(n) <= m.base

(* What tags say, and the clocks of the list.                              *)
Words ==
  {Default(n) : n \in ClockNames} \cup
  UNION {UNION {UNION {Range(d[c][t]) : t \in Tag} : c \in DOMAIN d} : d \in Designs}
Said == {None} \cup {<<w>> : w \in Words}
Clock == [name : ClockNames \cup {NoName}, tag : [Tag -> Said], ps : Nat, frequency : Nat]

(* What a place where a clock is named says of it.                         *)
Say(d, a, t) == Token(d[a[1]][t], a[2])
Rate(d, a) ==
  LET freq == d[a[1]].freq
  IN  IF a[2] \in DOMAIN freq THEN freq[a[2]]
      ELSE IF a[2] = 1 /\ freq = <<>> THEN d[a[1]].number ELSE 0
FirstIn(a, S) == a \in S /\ \A b \in S \ {a} : Before(a, b)
Saying(d, H, t) == {a \in H : Say(d, a, t) # None}
Timed(d, H) == {a \in H : Rate(d, a) # 0}

(* find_clock(), in any list.                                              *)
Place(list, n) == SelectInSeq(list, LAMBDA ck : ck.name = n)

(* The mentions of a clock that the walk has come past.                    *)
Heard(n) == {a \in Mentions(n) : pc = "list" => Before(a, <<comp, token>>)}

(* A clock, the i-th of the list, knows what the mentions H say of it: the *)
(* first of them that says something is believed.                          *)
Knows(d, ck, H, i, reported) ==
  /\ \A t \in Tag \ {"wire"} :
       IF Saying(d, H, t) = {} THEN ck.tag[t] = None
       ELSE \E a \in H : FirstIn(a, Saying(d, H, t)) /\ ck.tag[t] = Say(d, a, t)
  /\ \E a \in H : /\ FirstIn(a, H)
                  /\ ck.tag["wire"] = IF Say(d, a, "wire") # None THEN Say(d, a, "wire")
                                                                  ELSE <<Default(ck.name)>>
  /\ IF Timed(d, H) = {} THEN ck.ps = UnknownPS
     ELSE \E a \in H : FirstIn(a, Timed(d, H)) /\ ck.ps = PicosPerSecond \div Rate(d, a)
  /\ \A a \in H : \A t \in Tag : Say(d, a, t) \in {None, ck.tag[t]} \/ <<i, t>> \in reported

(* The walk over the names of clocks.                                      *)
ClockTypes ==
  /\ design \in Designs
  /\ pc \in {"list", "expand", "clocks", "bench", "aborted"}
  /\ comp \in 1..(Len(design) + 1) /\ token \in Nat \ {0}
  /\ cklist \in Seq(Clock)
  /\ clockOf \in [Comps -> 0..Len(cklist)]

(* Each clock is listed once; there is a clock as soon as the walk is over.*)
NamesOnce ==
  /\ \A i, j \in DOMAIN cklist : cklist[i].name = cklist[j].name => i = j
  /\ pc = "list" => \A i \in DOMAIN cklist : cklist[i].name # NoName
  /\ pc # "list" => cklist # <<>>
  /\ \A i \in DOMAIN cklist : cklist[i].ps >= UnknownPS

(* The clocks that have been named are those of the list, and know what    *)
(* has been said of them.                                                  *)
AllHeard ==
  /\ \A n \in ClockNames : Heard(n) # {} => FindClock(n) # 0
  /\ \A i \in DOMAIN cklist : \A n \in {cklist[i].name} :
       /\ pc = "list" => Heard(n) # {}
       /\ Heard(n) # {} => Knows(design, cklist[i], Heard(n), i, conflicts)

(* The FREQUENCY of a clock is that at which the simulation runs it.       *)
FrequencyShown ==
  \A i \in DOMAIN cklist : LET ck == cklist[i] IN
    IF ck.ps = UnknownPS THEN ck.frequency = 0
    ELSE ck.frequency # 0 /\ ck.ps = PicosPerSecond \div ck.frequency

(* The components whose CLOCK has been made to point to a clock.           *)
Expanded ==
  \A c \in Comps : pc \notin {"list"} /\ (pc = "expand" => c < comp) /\ Len(design[c].name) = 1 =>
    clockOf[c] = FindClock(design[c].name[1])

ClocksInv == ClockTypes /\ NamesOnce /\ AllHeard /\ FrequencyShown /\ Expanded
-----------------------------------------------------------------------------
(* The clocks of the simulation start on a falling edge.                   *)
PhaseAt(t, half) ==
  LET past == t % (2 * half)
  IN  IF past < half THEN past + half ELSE past - half
InPhase ==
  /\ mtime \in Nat
  /\ pc \in {"list", "expand", "clocks"} => mtime = 0 /\ ticks = [c \in Comps |-> 0]
  /\ pc = "bench" => phase \in [Clocked -> Nat]
  /\ pc = "bench" /\ MultiClock => \A i \in Clocked :
       /\ phase[i] = PhaseAt(mtime, Half(i))
       /\ level[i] = IF phase[i] < Half(i) THEN 1 ELSE 0

(* A call of tick_<clock>() or of reset() that has not returned.           *)
Calling ==
  /\ pc \in {"list", "expand", "clocks"} => call.op = "none"
  /\ pc = "bench" /\ call.op = "tick_clock" =>
       /\ call.clock \in Clocked /\ call.since \in Nat
       /\ IF MultiClock THEN call.since <= mtime /\ mtime <= call.since + phase[call.clock]
                        ELSE call.since = mtime
  /\ pc = "bench" /\ call.op = "reset" =>
       /\ iReset = 1 /\ call.clock = MainClock
       /\ MultiClock /\ call.low => seen \/ level[MainClock] = 0

(* The clock that reset() looks at is in the list.                         *)
ClkListed == pc # "list" => \E i \in Clocked : cklist[i].tag["wire"] = <<Default(Clk)>>

(* The places of the buffer that have been copied, and what one step of    *)
(* load() copies.                                                          *)
Places(S) == {o[3] : o \in S}
Served(c, start, buf, wlen) == {<<c, start + i, buf + i>> : i \in 0..wlen - 1}

(* What has been loaded, and what is left.                                 *)
Loading ==
  /\ load \in [program : Nat \X Nat, addr : Nat, len : Nat, buf : Nat,
               result : {"none", "true", "false"}]
  /\ loaded \subseteq Loadable \X Nat \X Nat
  /\ call.op = "load" => load.result = "none" /\ load.program \in Program
  /\ call.op # "load" /\ load.result = "none" => load = NoLoad /\ loaded = {}
  /\ load.result = "none" =>
       /\ load.addr = load.program[1] + load.buf
       /\ load.len + load.buf = load.program[2] /\ (load.buf > 0 => load.len > 0)
       /\ Places(loaded) = 0..load.buf - 1
-----------------------------------------------------------------------------
LEMMA TestDesignFacts ==
  ASSUME NEW d \in Designs
  PROVE  /\ Len(d) \in Nat /\ DOMAIN d = 1..Len(d)
         /\ \A c \in DOMAIN d :
              /\ d[c].name \in Seq(ClockNames) /\ Len(d[c].name) \in Nat
              /\ DOMAIN d[c].name = 1..Len(d[c].name)
              /\ \A k \in DOMAIN d[c].name : d[c].name[k] \in ClockNames
              /\ \A k \in DOMAIN d[c].freq :
                   d[c].freq[k] \in 0..PicosPerSecond /\ d[c].freq[k] \in Range(d[c].freq)
              /\ d[c].number \in 0..PicosPerSecond
<1>1. d \in Seq(Range(d))  BY ClockTagAssumption
<1>2. ASSUME NEW c \in DOMAIN d
      PROVE  /\ d[c].name \in Seq(ClockNames) /\ Len(d[c].name) \in Nat
             /\ DOMAIN d[c].name = 1..Len(d[c].name)
             /\ \A k \in DOMAIN d[c].name : d[c].name[k] \in ClockNames
             /\ \A k \in DOMAIN d[c].freq :
                  d[c].freq[k] \in 0..PicosPerSecond /\ d[c].freq[k] \in Range(d[c].freq)
             /\ d[c].number \in 0..PicosPerSecond
  <2>1. /\ d[c].name \in Seq(ClockNames) /\ d[c].freq \in Seq(0..PicosPerSecond)
        /\ d[c].number \in 0..PicosPerSecond
    BY ClockTagAssumption
  <2>2. Len(d[c].name) \in Nat /\ DOMAIN d[c].name = 1..Len(d[c].name)  BY <2>1, LenProperties
  <2>3. Len(d[c].freq) \in Nat /\ DOMAIN d[c].freq = 1..Len(d[c].freq)  BY <2>1, LenProperties
  <2>4. \A k \in DOMAIN d[c].freq : d[c].freq[k] \in 0..PicosPerSecond
    BY <2>1, <2>3, ElementOfSeq
  <2>5. \A k \in DOMAIN d[c].name : d[c].name[k] \in ClockNames  BY <2>1, <2>2
  <2>6. QED  BY <2>1, <2>2, <2>4, <2>5 DEF Range
<1>3. QED  BY <1>1, <1>2, LenProperties

(* A period is a natural number, and that of a clock that runs is not 0.   *)
LEMMA PeriodType ==
  ASSUME NEW hz \in Nat \ {0}
  PROVE  PicosPerSecond \div hz \in Nat
<1>1. PicosPerSecond \in Nat  BY FrequencyAssumption
<1>2. QED  BY <1>1, Z3

LEMMA GivenType ==
  ASSUME design \in Designs, NEW c \in Comps, NEW k
  PROVE  /\ Given(c, k) \in [Tag -> Said]
         /\ Hertz(c, k) \in Nat
         /\ SlowClocks /\ Hertz(c, k) # 0 => PicosPerSecond \div Hertz(c, k) > UnknownPS
<1>1. ASSUME NEW t \in Tag PROVE Token(design[c][t], k) \in Said
  <2>1. CASE k \in DOMAIN design[c][t]
    <3>1. design[c][t][k] \in Range(design[c][t])  BY <2>1 DEF Range
    <3>2. design[c][t][k] \in Words  BY <3>1 DEF Words, Comps
    <3>3. QED  BY <2>1, <3>2 DEF Token, Said
  <2>2. CASE k \notin DOMAIN design[c][t]  BY <2>2 DEF Token, Said
  <2>3. QED  BY <2>1, <2>2
<1>2. Given(c, k) \in [Tag -> Said]  BY <1>1 DEF Given
<1>3. PicosPerSecond \in Nat  BY FrequencyAssumption
<1>4. /\ \A j \in DOMAIN design[c].freq :
           design[c].freq[j] \in 0..PicosPerSecond /\ design[c].freq[j] \in Range(design[c].freq)
      /\ design[c].number \in 0..PicosPerSecond
  BY TestDesignFacts DEF Comps
<1>5. Hertz(c, k) \in Nat  BY <1>3, <1>4 DEF Hertz
<1>6. Hertz(c, k) # 0 => Hertz(c, k) \in Range(design[c].freq) \cup {design[c].number}
  BY <1>4 DEF Hertz
<1>7. SlowClocks /\ Hertz(c, k) # 0 => PicosPerSecond \div Hertz(c, k) > UnknownPS
  BY <1>6 DEF SlowClocks, Comps
<1>8. QED  BY <1>2, <1>5, <1>7

(* find_clock(): the place of the clock of that name, if there is one.     *)
LEMMA PlaceFacts ==
  ASSUME NEW list \in Seq(Clock), NEW n
  PROVE  /\ Place(list, n) \in 0..Len(list)
         /\ Place(list, n) = 0 => \A i \in DOMAIN list : list[i].name # n
         /\ Place(list, n) # 0 => Place(list, n) \in DOMAIN list /\ list[Place(list, n)].name = n
<1> DEFINE I == {i \in 1..Len(list) : list[i].name = n}
<1>1. Len(list) \in Nat /\ DOMAIN list = 1..Len(list)  BY LenProperties
<1>2. Place(list, n) = IF I # {} THEN Min(I) ELSE 0  BY DEF Place, SelectInSeq
<1>3. ASSUME I # {} PROVE Min(I) \in I
  <2>1. I \subseteq Nat  BY <1>1
  <2>2. PICK m \in I : \A x \in I : m <= x  BY <2>1, <1>3, LeastNatural
  <2>3. QED  BY <2>2 DEF Min
<1>4. QED  BY <1>1, <1>2, <1>3

LEMMA FindClockFacts ==
  ASSUME cklist \in Seq(Clock), NEW n
  PROVE  /\ FindClock(n) = Place(cklist, n) /\ FindClock(n)' = Place(cklist', n)
         /\ FindClock(n) \in 0..Len(cklist)
         /\ FindClock(n) = 0 => \A i \in DOMAIN cklist : cklist[i].name # n
         /\ FindClock(n) # 0 => FindClock(n) \in DOMAIN cklist /\ cklist[FindClock(n)].name = n
<1>1. FindClock(n) = Place(cklist, n) /\ FindClock(n)' = Place(cklist', n)  BY DEF FindClock, Place, SelectInSeq
<1>2. QED  BY <1>1, PlaceFacts
-----------------------------------------------------------------------------
(* The two setters, of a clock.                                            *)
LEMMA FrequencySet ==
  ASSUME NEW ck \in Clock, NEW hz \in Nat
  PROVE  LET r == SetFrequency(ck, hz)
         IN  /\ r \in Clock /\ r.name = ck.name /\ r.tag = ck.tag
             /\ hz = 0 => r = ck
             /\ hz # 0 => /\ r.ps = PicosPerSecond \div hz
                          /\ r.frequency = IF ck.frequency = 0 THEN hz ELSE ck.frequency
<1>1. CASE hz = 0  BY <1>1 DEF SetFrequency
<1>2. CASE hz # 0
  <2>1. PICK ps \in Nat : ps = PicosPerSecond \div hz  BY <1>2, PeriodType
  <2>2. PICK f \in Nat : f = IF ck.frequency = 0 THEN hz ELSE ck.frequency  BY DEF Clock
  <2>3. SetFrequency(ck, hz) = [ck EXCEPT !.ps = ps, !.frequency = f]
    BY <1>2, <2>1, <2>2 DEF SetFrequency, Clock
  <2>4. QED  BY <1>2, <2>1, <2>2, <2>3 DEF Clock
<1>3. QED  BY <1>1, <1>2

LEMMA TagsSet ==
  ASSUME NEW ck \in Clock, NEW given \in [Tag -> Said]
  PROVE  LET r == SetTags(ck, given)
         IN  /\ r \in Clock /\ r.name = ck.name /\ r.ps = ck.ps /\ r.frequency = ck.frequency
             /\ \A t \in Tag : r.tag[t] = IF ck.tag[t] = None THEN given[t] ELSE ck.tag[t]
<1> DEFINE g == [t \in Tag |-> IF ck.tag[t] = None THEN given[t] ELSE ck.tag[t]]
<1>1. ck.tag \in [Tag -> Said]  BY DEF Clock
<1>2. g \in [Tag -> Said] /\ \A t \in Tag : g[t] = IF ck.tag[t] = None THEN given[t] ELSE ck.tag[t]
  BY <1>1
<1>3. SetTags(ck, given) = [ck EXCEPT !.tag = g]  BY DEF SetTags, Clock
<1> HIDE DEF g
<1>4. QED  BY <1>2, <1>3 DEF Clock

LEMMA NewClockType == NewClock \in Clock
<1>1. None \in Said  BY DEF Said
<1>2. QED  BY <1>1 DEF NewClock, Clock, UnknownPS
-----------------------------------------------------------------------------
LEMMA SaidFacts ==
  ASSUME NEW c, NEW k
  PROVE  /\ Hertz(c, k) = Rate(design, <<c, k>>)
         /\ \A t \in Tag : Given(c, k)[t] = Say(design, <<c, k>>, t)
BY DEF Hertz, Rate, Given, Say

(* The places where a clock is named.                                      *)
LEMMA MentionFacts ==
  ASSUME design \in Designs, NEW n
  PROVE  /\ \A a \in Mentions(n) :
              /\ a[1] \in Comps /\ a[2] \in DOMAIN design[a[1]].name
              /\ a = <<a[1], a[2]>> /\ a[1] \in Nat /\ a[2] \in Nat /\ a[2] > 0
              /\ design[a[1]].name[a[2]] = n
         /\ \A c \in Comps : \A k \in DOMAIN design[c].name :
              design[c].name[k] = n => <<c, k>> \in Mentions(n)
<1>1. \A c \in Comps : c \in Nat /\ \A k \in DOMAIN design[c].name : k \in Nat /\ k > 0
  BY TestDesignFacts DEF Comps
<1>2. ASSUME NEW a \in Mentions(n)
      PROVE  \E c \in Comps : \E k \in DOMAIN design[c].name : design[c].name[k] = n /\ a = <<c, k>>
  BY DEF Mentions
<1>3. ASSUME NEW c \in Comps, NEW k \in DOMAIN design[c].name, design[c].name[k] = n
      PROVE  <<c, k>> \in Mentions(n)
  BY <1>3 DEF Mentions
<1>4. QED  BY <1>1, <1>2, <1>3

(* While a name is read, it has been mentioned once more.                  *)
LEMMA HeardNext ==
  ASSUME ClockTypes, Naming, design' = design, pc' = pc, comp' = comp, token' = token + 1
  PROVE  /\ Named \in ClockNames
         /\ \A n : /\ Heard(n)' = IF n = Named THEN Heard(n) \cup {<<comp, token>>} ELSE Heard(n)
                   /\ \A b \in Heard(n) : Before(b, <<comp, token>>) /\ b # <<comp, token>>
<1> DEFINE x == <<comp, token>>
<1>1. /\ design \in Designs /\ pc = "list" /\ comp \in Comps /\ token \in DOMAIN design[comp].name
      /\ comp \in Nat /\ token \in Nat
  BY TestDesignFacts DEF ClockTypes, Naming, Comps
<1>2. Named \in ClockNames  BY <1>1, TestDesignFacts DEF Named, Comps
<1>3. \A n : Mentions(n)' = Mentions(n)  BY DEF Mentions, Comps
<1>4. \A a \in Nat \X Nat : Before(a, <<comp, token + 1>>) <=> (Before(a, x) \/ a = x)
  BY <1>1 DEF Before
<1>5. \A n : \A a \in Mentions(n) : a \in Nat \X Nat  BY <1>1, MentionFacts
<1>6. \A n : x \in Mentions(n) <=> n = Named  BY <1>1, MentionFacts DEF Named
<1>7. ~Before(x, x)  BY <1>1 DEF Before
<1>8. ASSUME NEW n
      PROVE  /\ Heard(n)' = IF n = Named THEN Heard(n) \cup {x} ELSE Heard(n)
             /\ \A b \in Heard(n) : Before(b, x) /\ b # x
  <2>1. Heard(n) = {a \in Mentions(n) : Before(a, x)}  BY <1>1 DEF Heard
  <2>2. Heard(n)' = {a \in Mentions(n) : Before(a, <<comp, token + 1>>)}  BY <1>1, <1>3 DEF Heard
  <2>3. Heard(n)' = {a \in Mentions(n) : Before(a, x) \/ a = x}  BY <2>2, <1>4, <1>5
  <2>4. QED  BY <2>1, <2>3, <1>6, <1>7
<1>9. QED  BY <1>2, <1>8

(* In all other steps of the walk nothing new is heard.                    *)
LEMMA HeardSame ==
  ASSUME ClockTypes, design' = design,
         \/ pc = "list" /\ pc' = "list" /\ comp \in Comps /\ token \notin DOMAIN design[comp].name
            /\ comp' = comp + 1 /\ token' = 1
         \/ pc = "list" /\ pc' # "list" /\ comp \notin Comps
         \/ pc # "list" /\ pc' # "list"
         \/ pc' = pc /\ comp' = comp /\ token' = token
  PROVE  \A n : Heard(n)' = Heard(n)
<1>1. design \in Designs /\ comp \in Nat /\ token \in Nat /\ Len(design) \in Nat
      /\ Comps = 1..Len(design) /\ comp <= Len(design) + 1 /\ comp >= 1
  BY TestDesignFacts DEF ClockTypes, Comps
<1>2. \A n : Mentions(n)' = Mentions(n)  BY DEF Mentions, Comps
<1> SUFFICES ASSUME NEW n PROVE Heard(n)' = Heard(n)  OBVIOUS
<1>3. \A a \in Mentions(n) :
        /\ a[1] \in Comps /\ a[2] \in DOMAIN design[a[1]].name
        /\ a[1] \in Nat /\ a[2] \in Nat /\ a[2] > 0
  BY <1>1, MentionFacts
<1>4. CASE /\ pc = "list" /\ pc' = "list" /\ comp \in Comps /\ token \notin DOMAIN design[comp].name
           /\ comp' = comp + 1 /\ token' = 1
  <2>1. DOMAIN design[comp].name = 1..Len(design[comp].name) /\ Len(design[comp].name) \in Nat
    BY <1>1, <1>4, TestDesignFacts DEF Comps
  <2>2. token \in Nat \ {0}  BY DEF ClockTypes
  <2>3. \A k \in DOMAIN design[comp].name : k < token  BY <1>4, <2>1, <2>2
  <2>4. \A a \in Mentions(n) : Before(a, <<comp + 1, 1>>) <=> Before(a, <<comp, token>>)
    BY <1>1, <1>3, <2>3 DEF Before
  <2>5. QED  BY <1>2, <1>4, <2>4 DEF Heard
<1>5. CASE pc = "list" /\ pc' # "list" /\ comp \notin Comps
  <2>1. \A a \in Mentions(n) : Before(a, <<comp, token>>)  BY <1>1, <1>3, <1>5 DEF Before
  <2>2. QED  BY <1>2, <1>5, <2>1 DEF Heard
<1>6. CASE pc # "list" /\ pc' # "list"  BY <1>2, <1>6 DEF Heard
<1>7. CASE pc' = pc /\ comp' = comp /\ token' = token  BY <1>2, <1>7 DEF Heard
<1>8. QED  BY <1>4, <1>5, <1>6, <1>7
-----------------------------------------------------------------------------
(* The first that is said of a clock.                                      *)
LEMMA KnowsOne ==
  ASSUME NEW d, NEW x, NEW ck, NEW i, NEW r,
         \A t \in Tag \ {"wire"} : ck.tag[t] = Say(d, x, t),
         ck.tag["wire"] = IF Say(d, x, "wire") # None THEN Say(d, x, "wire")
                                                      ELSE <<Default(ck.name)>>,
         ck.ps = IF Rate(d, x) = 0 THEN UnknownPS ELSE PicosPerSecond \div Rate(d, x)
  PROVE  Knows(d, ck, {x}, i, r)
<1>1. \A t \in Tag \ {"wire"} :
        IF Saying(d, {x}, t) = {} THEN ck.tag[t] = None
        ELSE \E a \in {x} : FirstIn(a, Saying(d, {x}, t)) /\ ck.tag[t] = Say(d, a, t)
  BY DEF Saying, FirstIn
<1>2. \E a \in {x} : /\ FirstIn(a, {x})
                     /\ ck.tag["wire"] = IF Say(d, a, "wire") # None THEN Say(d, a, "wire")
                                                                     ELSE <<Default(ck.name)>>
  BY DEF FirstIn
<1>3. IF Timed(d, {x}) = {} THEN ck.ps = UnknownPS
      ELSE \E a \in {x} : FirstIn(a, Timed(d, {x})) /\ ck.ps = PicosPerSecond \div Rate(d, a)
  BY DEF Timed, FirstIn
<1>4. \A t \in Tag : Say(d, x, t) \in {None, ck.tag[t]}  OBVIOUS
<1>5. QED  BY <1>1, <1>2, <1>3, <1>4 DEF Knows

(* And what is said after that.                                            *)
LEMMA KnowsMore ==
  ASSUME NEW d, NEW x, NEW H, NEW ck, NEW new, NEW i, NEW r, NEW s,
         Knows(d, ck, H, i, r),
         \A b \in H : Before(b, x) /\ b # x,
         \A b \in H : Rate(d, b) # 0 => PicosPerSecond \div Rate(d, b) # UnknownPS,
         new.name = ck.name,
         \A t \in Tag : new.tag[t] = IF ck.tag[t] = None THEN Say(d, x, t) ELSE ck.tag[t],
         new.ps = IF ck.ps = UnknownPS /\ Rate(d, x) # 0 THEN PicosPerSecond \div Rate(d, x)
                                                         ELSE ck.ps,
         r \subseteq s,
         \A t \in Tag : Say(d, x, t) \in {None, ck.tag[t]} \/ ck.tag[t] = None \/ <<i, t>> \in s
  PROVE  Knows(d, new, H \cup {x}, i, s)
<1> DEFINE G == H \cup {x}
<1>1. \A S, a : S \subseteq H /\ FirstIn(a, S) => FirstIn(a, S) /\ FirstIn(a, S \cup {x})
  BY DEF FirstIn
<1>2. ASSUME NEW t \in Tag \ {"wire"}
      PROVE  IF Saying(d, G, t) = {} THEN new.tag[t] = None
             ELSE \E a \in G : FirstIn(a, Saying(d, G, t)) /\ new.tag[t] = Say(d, a, t)
  <2>1. Saying(d, G, t) = IF Say(d, x, t) # None THEN Saying(d, H, t) \cup {x} ELSE Saying(d, H, t)
    BY DEF Saying
  <2>2. CASE Saying(d, H, t) = {}
    <3>1. ck.tag[t] = None  BY <2>2 DEF Knows
    <3>2. new.tag[t] = Say(d, x, t)  BY <3>1
    <3>3. FirstIn(x, {x})  BY DEF FirstIn
    <3>4. QED  BY <2>1, <2>2, <3>2, <3>3
  <2>3. CASE Saying(d, H, t) # {}
    <3>1. PICK a \in H : FirstIn(a, Saying(d, H, t)) /\ ck.tag[t] = Say(d, a, t)
      BY <2>3 DEF Knows
    <3>2. Say(d, a, t) # None  BY <3>1 DEF FirstIn, Saying
    <3>3. new.tag[t] = Say(d, a, t)  BY <3>1, <3>2
    <3>4. Saying(d, H, t) \subseteq H  BY DEF Saying
    <3>5. FirstIn(a, Saying(d, G, t))  BY <1>1, <2>1, <3>1, <3>4
    <3>6. Saying(d, G, t) # {}  BY <3>5 DEF FirstIn
    <3>7. QED  BY <3>3, <3>5, <3>6
  <2>4. QED  BY <2>2, <2>3
<1>3. \E a \in G : /\ FirstIn(a, G)
                   /\ new.tag["wire"] = IF Say(d, a, "wire") # None THEN Say(d, a, "wire")
                                                                    ELSE <<Default(new.name)>>
  <2>1. PICK a \in H : /\ FirstIn(a, H)
                       /\ ck.tag["wire"] = IF Say(d, a, "wire") # None THEN Say(d, a, "wire")
                                                                       ELSE <<Default(ck.name)>>
    BY DEF Knows
  <2>2. <<Default(ck.name)>> # None  BY DEF None
  <2>3. ck.tag["wire"] # None  BY <2>1, <2>2
  <2>4. "wire" \in Tag  BY DEF Tag
  <2>5. new.tag["wire"] = ck.tag["wire"]  BY <2>3, <2>4
  <2>6. FirstIn(a, G)  BY <1>1, <2>1
  <2>7. QED  BY <2>1, <2>5, <2>6
<1>4. IF Timed(d, G) = {} THEN new.ps = UnknownPS
      ELSE \E a \in G : FirstIn(a, Timed(d, G)) /\ new.ps = PicosPerSecond \div Rate(d, a)
  <2>1. Timed(d, G) = IF Rate(d, x) # 0 THEN Timed(d, H) \cup {x} ELSE Timed(d, H)
    BY DEF Timed
  <2>2. CASE Timed(d, H) = {}
    <3>1. ck.ps = UnknownPS  BY <2>2 DEF Knows
    <3>2. FirstIn(x, {x})  BY DEF FirstIn
    <3>3. QED  BY <2>1, <2>2, <3>1, <3>2
  <2>3. CASE Timed(d, H) # {}
    <3>1. PICK a \in H : FirstIn(a, Timed(d, H)) /\ ck.ps = PicosPerSecond \div Rate(d, a)
      BY <2>3 DEF Knows
    <3>2. Rate(d, a) # 0  BY <3>1 DEF FirstIn, Timed
    <3>3. new.ps = ck.ps  BY <3>1, <3>2
    <3>4. Timed(d, H) \subseteq H  BY DEF Timed
    <3>5. FirstIn(a, Timed(d, G))  BY <1>1, <2>1, <3>1, <3>4
    <3>6. Timed(d, G) # {}  BY <3>5 DEF FirstIn
    <3>7. QED  BY <3>1, <3>3, <3>5, <3>6
  <2>4. QED  BY <2>2, <2>3
<1>5. ASSUME NEW a \in G, NEW t \in Tag
      PROVE  Say(d, a, t) \in {None, new.tag[t]} \/ <<i, t>> \in s
  <2>1. CASE a \in H
    <3>1. Say(d, a, t) \in {None, ck.tag[t]} \/ <<i, t>> \in r  BY <2>1 DEF Knows
    <3>2. QED  BY <3>1
  <2>2. CASE a = x  BY <2>2
  <2>3. QED  BY <2>1, <2>2
<1>6. QED  BY <1>2, <1>3, <1>4, <1>5 DEF Knows
-----------------------------------------------------------------------------
LEMMA WalkFacts ==
  ASSUME ClockTypes
  PROVE  /\ design \in Designs /\ Len(design) \in Nat /\ Comps = 1..Len(design)
         /\ comp \in Nat /\ token \in Nat /\ comp <= Len(design) + 1
         /\ Len(cklist) \in Nat /\ DOMAIN cklist = 1..Len(cklist)
         /\ \A i \in DOMAIN cklist : cklist[i] \in Clock
BY TestDesignFacts, LenProperties DEF ClockTypes, Comps

(* What is put into the list of clocks for the name that is read.          *)
LEMMA UpdateFacts ==
  ASSUME ClockTypes, UpdateClock
  PROVE  \E i \in DOMAIN cklist : \E new \in Clock :
           /\ Naming /\ i = FindClock(Named) /\ cklist[i].name = Named
           /\ cklist' = [cklist EXCEPT ![i] = new] /\ new.name = Named
           /\ \A t \in Tag : new.tag[t] = IF cklist[i].tag[t] = None
                                            THEN Say(design, <<comp, token>>, t)
                                            ELSE cklist[i].tag[t]
           /\ cklist[i].ps = UnknownPS /\ Rate(design, <<comp, token>>) # 0 =>
                /\ new.ps = PicosPerSecond \div Rate(design, <<comp, token>>)
                /\ new.frequency = IF cklist[i].frequency = 0 THEN Rate(design, <<comp, token>>)
                                                              ELSE cklist[i].frequency
           /\ cklist[i].ps # UnknownPS \/ Rate(design, <<comp, token>>) = 0 =>
                new.ps = cklist[i].ps /\ new.frequency = cklist[i].frequency
           /\ conflicts \subseteq conflicts'
           /\ \A t \in Tag : \/ Say(design, <<comp, token>>, t) \in {None, cklist[i].tag[t]}
                             \/ cklist[i].tag[t] = None \/ <<i, t>> \in conflicts'
<1> DEFINE i == FindClock(Named)
           given == Given(comp, token)
           hz == Hertz(comp, token)
           ck == SetTags(cklist[i], given)
           new == IF ck.ps = UnknownPS THEN SetFrequency(ck, hz) ELSE ck
<1>1. Naming /\ comp \in Comps /\ cklist \in Seq(Clock) /\ design \in Designs /\ i # 0
  BY DEF UpdateClock, Naming, ClockTypes
<1>2. i \in DOMAIN cklist /\ cklist[i].name = Named  BY <1>1, FindClockFacts
<1>3. given \in [Tag -> Said] /\ hz \in Nat  BY <1>1, GivenType
<1>4. /\ hz = Rate(design, <<comp, token>>)
      /\ \A t \in Tag : given[t] = Say(design, <<comp, token>>, t)
  BY SaidFacts
<1>5. PICK old \in Clock : old = cklist[i]  BY <1>2, WalkFacts
<1>6. /\ ck \in Clock /\ ck.name = old.name /\ ck.ps = old.ps /\ ck.frequency = old.frequency
      /\ \A t \in Tag : ck.tag[t] = IF old.tag[t] = None THEN given[t] ELSE old.tag[t]
  <2> HIDE DEF i, given, hz
  <2>1. ck = SetTags(old, given)  BY <1>5
  <2> HIDE DEF ck
  <2>2. QED  BY <2>1, <1>3, TagsSet
<1>7. LET f == SetFrequency(ck, hz)
      IN  /\ f \in Clock /\ f.name = ck.name /\ f.tag = ck.tag
          /\ hz = 0 => f = ck
          /\ hz # 0 => /\ f.ps = PicosPerSecond \div hz
                       /\ f.frequency = IF ck.frequency = 0 THEN hz ELSE ck.frequency
  <2> HIDE DEF ck, hz
  <2>1. QED  BY <1>3, <1>6, FrequencySet
<1>8. /\ cklist' = [cklist EXCEPT ![i] = new]
      /\ conflicts' = conflicts \cup ({i} \X Against(cklist[i], given))
  BY DEF UpdateClock
<1>9. Against(old, given) = {t \in Tag : None \notin {old.tag[t], given[t]} /\ old.tag[t] # given[t]}
  BY DEF Against
<1> HIDE DEF i, given, hz, ck
<1>10. /\ new \in Clock /\ new.name = old.name
       /\ \A t \in Tag : new.tag[t] = IF old.tag[t] = None THEN given[t] ELSE old.tag[t]
       /\ old.ps = UnknownPS /\ hz # 0 =>
            /\ new.ps = PicosPerSecond \div hz
            /\ new.frequency = IF old.frequency = 0 THEN hz ELSE old.frequency
       /\ old.ps # UnknownPS \/ hz = 0 => new.ps = old.ps /\ new.frequency = old.frequency
  BY <1>6, <1>7
<1>11. \A t \in Tag : given[t] \in {None, old.tag[t]} \/ old.tag[t] = None \/ <<i, t>> \in conflicts'
  BY <1>5, <1>8, <1>9
<1> HIDE DEF new
<1>12. /\ \A t \in Tag : new.tag[t] = IF cklist[i].tag[t] = None
                                         THEN Say(design, <<comp, token>>, t)
                                         ELSE cklist[i].tag[t]
       /\ \A t \in Tag : \/ Say(design, <<comp, token>>, t) \in {None, cklist[i].tag[t]}
                         \/ cklist[i].tag[t] = None \/ <<i, t>> \in conflicts'
  BY <1>4, <1>5, <1>10, <1>11
<1>13. /\ cklist[i].ps = UnknownPS /\ Rate(design, <<comp, token>>) # 0 =>
            /\ new.ps = PicosPerSecond \div Rate(design, <<comp, token>>)
            /\ new.frequency = IF cklist[i].frequency = 0 THEN Rate(design, <<comp, token>>)
                                                          ELSE cklist[i].frequency
       /\ cklist[i].ps # UnknownPS \/ Rate(design, <<comp, token>>) = 0 =>
            new.ps = cklist[i].ps /\ new.frequency = cklist[i].frequency
  BY <1>4, <1>5, <1>10
<1>14. /\ Naming /\ i = FindClock(Named) /\ cklist[i].name = Named
       /\ cklist' = [cklist EXCEPT ![i] = new] /\ new.name = Named
       /\ conflicts \subseteq conflicts' /\ i \in DOMAIN cklist /\ new \in Clock
  BY <1>1, <1>2, <1>5, <1>8, <1>10 DEF i
<1>15. QED  BY <1>12, <1>13, <1>14, Zenon

LEMMA AddClockFacts ==
  ASSUME ClockTypes, AddClock
  PROVE  \E new \in Clock :
           /\ Naming /\ FindClock(Named) = 0
           /\ cklist' = Append(cklist, new) /\ new.name = Named
           /\ \A t \in Tag \ {"wire"} : new.tag[t] = Say(design, <<comp, token>>, t)
           /\ new.tag["wire"] = IF Say(design, <<comp, token>>, "wire") # None
                                  THEN Say(design, <<comp, token>>, "wire")
                                  ELSE <<Default(Named)>>
           /\ new.ps = IF Rate(design, <<comp, token>>) = 0 THEN UnknownPS
                       ELSE PicosPerSecond \div Rate(design, <<comp, token>>)
           /\ new.frequency = Rate(design, <<comp, token>>)
<1> DEFINE given == Given(comp, token)
           hz == Hertz(comp, token)
           wired == [given EXCEPT !["wire"] = IF @ = None THEN <<Default(Named)>> ELSE @]
           bare == [NewClock EXCEPT !.name = Named]
           ck == SetTags(bare, wired)
           new == SetFrequency(ck, hz)
<1>1. Naming /\ comp \in Comps /\ token \in DOMAIN design[comp].name /\ design \in Designs
      /\ FindClock(Named) = 0
  BY DEF AddClock, Naming, ClockTypes
<1>2. Named \in ClockNames  BY <1>1, TestDesignFacts DEF Named, Comps
<1>3. given \in [Tag -> Said] /\ hz \in Nat  BY <1>1, GivenType
<1>4. /\ hz = Rate(design, <<comp, token>>)
      /\ \A t \in Tag : given[t] = Say(design, <<comp, token>>, t)
  BY SaidFacts
<1>5. <<Default(Named)>> \in Said  BY <1>2 DEF Said, Words
<1>6. "wire" \in Tag  BY DEF Tag
<1>7. /\ wired \in [Tag -> Said]
      /\ \A t \in Tag \ {"wire"} : wired[t] = given[t]
      /\ wired["wire"] = IF given["wire"] = None THEN <<Default(Named)>> ELSE given["wire"]
  <2> HIDE DEF given
  <2>1. QED  BY <1>3, <1>5, <1>6
<1>8. /\ bare \in Clock /\ bare.name = Named /\ bare.ps = UnknownPS /\ bare.frequency = 0
      /\ \A t \in Tag : bare.tag[t] = None
  <2>1. bare = [name |-> Named, tag |-> [t \in Tag |-> None], ps |-> UnknownPS, frequency |-> 0]
    BY DEF NewClock
  <2>2. None \in Said /\ UnknownPS \in Nat  BY DEF Said, UnknownPS
  <2>3. QED  BY <2>1, <2>2, <1>2 DEF Clock
<1> HIDE DEF given, hz, wired, bare
<1>9. /\ ck \in Clock /\ ck.name = Named /\ ck.ps = UnknownPS /\ ck.frequency = 0
      /\ \A t \in Tag : ck.tag[t] = wired[t]
  <2>1. LET r == SetTags(bare, wired)
        IN  /\ r \in Clock /\ r.name = bare.name /\ r.ps = bare.ps /\ r.frequency = bare.frequency
            /\ \A t \in Tag : r.tag[t] = IF bare.tag[t] = None THEN wired[t] ELSE bare.tag[t]
    BY <1>7, <1>8, TagsSet
  <2>2. QED  BY <2>1, <1>8
<1>10. cklist' = Append(cklist, new)
  BY DEF AddClock, given, hz, wired, bare
<1> HIDE DEF ck
<1>11. /\ new \in Clock /\ new.name = Named /\ new.tag = ck.tag
       /\ hz = 0 => new = ck
       /\ hz # 0 => /\ new.ps = PicosPerSecond \div hz
                    /\ new.frequency = hz
  <2>1. LET f == SetFrequency(ck, hz)
        IN  /\ f \in Clock /\ f.name = ck.name /\ f.tag = ck.tag
            /\ hz = 0 => f = ck
            /\ hz # 0 => /\ f.ps = PicosPerSecond \div hz
                         /\ f.frequency = IF ck.frequency = 0 THEN hz ELSE ck.frequency
    BY <1>3, <1>9, FrequencySet
  <2>2. QED  BY <2>1, <1>9
<1> HIDE DEF new
<1>12. /\ new.ps = IF hz = 0 THEN UnknownPS ELSE PicosPerSecond \div hz
       /\ new.frequency = hz
  BY <1>9, <1>11
<1>13. /\ \A t \in Tag \ {"wire"} : new.tag[t] = given[t]
       /\ new.tag["wire"] = IF given["wire"] # None THEN given["wire"] ELSE <<Default(Named)>>
  BY <1>6, <1>7, <1>9, <1>11
<1>14. QED  BY <1>1, <1>4, <1>6, <1>10, <1>11, <1>12, <1>13

(* The default clock, where there is no "clk".                             *)
LEMMA DefaultFacts ==
  ASSUME ClockTypes, AddDefault
  PROVE  \/ FindClock(Clk) # 0 /\ cklist' = cklist
         \/ \E first \in Clock :
              /\ FindClock(Clk) = 0
              /\ cklist' = [Append(cklist, NewClock) EXCEPT ![1] = first]
              /\ first.ps = PicosPerSecond \div DefaultFrequency /\ first.ps > UnknownPS
              /\ cklist = <<>> => /\ first.name = Clk /\ first.frequency = DefaultFrequency
                                  /\ first.tag["wire"] = <<Default(Clk)>>
              /\ cklist # <<>> /\ cklist[1].name # NoName => first.name = cklist[1].name
<1> DEFINE given == [t \in Tag |-> IF t = "wire" THEN <<Default(Clk)>> ELSE None]
           list == Append(cklist, NewClock)
           ck == SetTags(list[1], given)
           named == [ck EXCEPT !.name = IF @ = NoName THEN Clk ELSE @]
           first == SetFrequency(named, DefaultFrequency)
<1> SUFFICES ASSUME FindClock(Clk) = 0
             PROVE  /\ first \in Clock
                    /\ cklist' = [list EXCEPT ![1] = first]
                    /\ first.ps = PicosPerSecond \div DefaultFrequency /\ first.ps > UnknownPS
                    /\ cklist = <<>> => /\ first.name = Clk /\ first.frequency = DefaultFrequency
                                        /\ first.tag["wire"] = <<Default(Clk)>>
                    /\ cklist # <<>> /\ cklist[1].name # NoName => first.name = cklist[1].name
  BY DEF AddDefault
<1>1. cklist \in Seq(Clock) /\ Len(cklist) \in Nat /\ DOMAIN cklist = 1..Len(cklist)
  BY WalkFacts DEF ClockTypes
<1>2. Clk \in ClockNames  BY ClkAssumption
<1>3. given \in [Tag -> Said]
  <2>1. <<Default(Clk)>> \in Said /\ None \in Said  BY <1>2 DEF Said, Words
  <2>2. QED  BY <2>1
<1>4. /\ list[1] \in Clock
      /\ cklist = <<>> => list[1] = NewClock
      /\ cklist # <<>> => list[1] = cklist[1]
  <2>1. NewClock \in Clock  BY NewClockType
  <2>2. /\ \A i \in 1..Len(cklist) : list[i] = cklist[i]
        /\ list[Len(cklist) + 1] = NewClock
    BY <1>1, <2>1, Appended
  <2>3. cklist = <<>> => Len(cklist) = 0  OBVIOUS
  <2>4. cklist # <<>> => 1 \in 1..Len(cklist)  BY <1>1
  <2> HIDE DEF list
  <2>5. QED  BY <1>1, <2>1, <2>2, <2>3, <2>4
<1>5. "wire" \in Tag /\ given["wire"] = <<Default(Clk)>>
      /\ NewClock.name = NoName /\ NewClock.frequency = 0 /\ NewClock.tag["wire"] = None
  BY DEF NewClock, Tag
<1>6. cklist' = [list EXCEPT ![1] = first]  BY DEF AddDefault
<1> HIDE DEF given, list
<1>7. /\ ck \in Clock /\ ck.name = list[1].name /\ ck.frequency = list[1].frequency
      /\ \A t \in Tag : ck.tag[t] = IF list[1].tag[t] = None THEN given[t] ELSE list[1].tag[t]
  BY <1>3, <1>4, TagsSet
<1> HIDE DEF ck
<1>8. /\ named \in Clock /\ named.frequency = ck.frequency /\ named.tag = ck.tag
      /\ named.name = IF ck.name = NoName THEN Clk ELSE ck.name
  BY <1>2, <1>7 DEF Clock
<1> HIDE DEF named
<1>9. /\ DefaultFrequency \in Nat /\ DefaultFrequency # 0
      /\ PicosPerSecond \div DefaultFrequency > UnknownPS
  BY FrequencyAssumption DEF UnknownPS
<1>10. /\ first \in Clock /\ first.name = named.name /\ first.tag = named.tag
       /\ first.ps = PicosPerSecond \div DefaultFrequency
       /\ first.frequency = IF named.frequency = 0 THEN DefaultFrequency ELSE named.frequency
  BY <1>8, <1>9, FrequencySet
<1> HIDE DEF first
<1>11. QED  BY <1>4, <1>5, <1>6, <1>7, <1>8, <1>9, <1>10

LEMMA ClockSteps ==
  ASSUME [Next]_vars
  PROVE  /\ design' = design
         /\ \/ UpdateClock \/ AddClock \/ NextComp \/ AddDefault \/ ExpandClock
            \/ /\ cklist' = cklist /\ comp' = comp /\ token' = token
               /\ clockOf' = clockOf /\ conflicts' = conflicts
               /\ \/ pc' = pc
                  \/ pc \in {"clocks", "bench"} /\ pc' \in {"bench", "aborted"}
                  \/ pc = "expand" /\ pc' = "clocks" /\ comp \notin Comps
<1>1. CASE ListClocks
  BY <1>1 DEF ListClocks, ClockNext, UpdateClock, AddClock, NextComp, AddDefault, ExpandClock,
              Enumerated
<1>2. CASE UNCHANGED vars  BY <1>2 DEF vars, clockVars
<1>3. CASE Construct  BY <1>3 DEF Construct
<1>4. CASE CallTick \/ CallTickOf \/ CallReset \/ CallLoad
  BY <1>4 DEF CallTick, CallTickOf, CallReset, CallLoad, clockVars
<1>5. CASE Run
  BY <1>5 DEF Run, RunTick, LoadStep, clockVars
<1>6. QED  BY <1>1, <1>2, <1>3, <1>4, <1>5 DEF Next
-----------------------------------------------------------------------------
LEMMA ClockTypesFirst ==
  ASSUME Init
  PROVE  ClockTypes /\ NamesOnce /\ AllHeard /\ FrequencyShown /\ Expanded
<1>1. /\ design \in Designs /\ pc = "list" /\ comp = 1 /\ token = 1 /\ cklist = <<>>
      /\ clockOf = [c \in Comps |-> 0]
  BY DEF Init, ClockInit
<1>2. /\ Len(design) \in Nat /\ Comps = 1..Len(design)  BY <1>1, TestDesignFacts DEF Comps
<1>3. cklist \in Seq(Clock) /\ Len(cklist) = 0 /\ DOMAIN cklist = {}  BY <1>1
<1>4. ClockTypes  BY <1>1, <1>2, <1>3 DEF ClockTypes
<1>5. \A n : Heard(n) = {}
  <2>1. \A n : \A a \in Mentions(n) : a[1] \in Nat /\ a[2] \in Nat /\ a[2] > 0 /\ a[1] \in Comps
    BY <1>1, MentionFacts
  <2>2. \A n : \A a \in Mentions(n) : ~Before(a, <<comp, token>>)
    BY <2>1, <1>1, <1>2 DEF Before
  <2>3. QED  BY <2>2, <1>1 DEF Heard
<1>6. QED  BY <1>1, <1>3, <1>4, <1>5 DEF NamesOnce, AllHeard, FrequencyShown, Expanded

LEMMA ClockTypesKept ==
  ASSUME ClockTypes, [Next]_vars
  PROVE  ClockTypes'
<1>1. /\ design \in Designs /\ Len(design) \in Nat /\ Comps = 1..Len(design)
      /\ comp \in Nat /\ token \in Nat /\ comp <= Len(design) + 1
      /\ cklist \in Seq(Clock) /\ Len(cklist) \in Nat /\ DOMAIN cklist = 1..Len(cklist)
      /\ clockOf \in [Comps -> 0..Len(cklist)]
      /\ pc \in {"list", "expand", "clocks", "bench", "aborted"}
      /\ comp \in 1..(Len(design) + 1) /\ token \in Nat \ {0}
  BY WalkFacts DEF ClockTypes
<1>2. design' = design /\ Comps' = Comps  BY ClockSteps DEF Comps
<1>3. CASE UpdateClock
  <2>1. PICK i \in DOMAIN cklist, new \in Clock : cklist' = [cklist EXCEPT ![i] = new]
    BY <1>3, UpdateFacts
  <2>2. cklist' \in Seq(Clock) /\ Len(cklist') = Len(cklist)  BY <2>1, <1>1
  <2>3. /\ pc' = pc /\ comp' = comp /\ token' = token + 1 /\ clockOf' = clockOf
    BY <1>3 DEF UpdateClock, Naming
  <2>4. QED  BY <1>1, <1>2, <2>2, <2>3 DEF ClockTypes
<1>4. CASE AddClock
  <2>1. PICK new \in Clock : cklist' = Append(cklist, new)  BY <1>4, AddClockFacts
  <2>2. cklist' \in Seq(Clock) /\ Len(cklist') = Len(cklist) + 1  BY <2>1, <1>1
  <2>3. /\ pc' = pc /\ comp' = comp /\ token' = token + 1 /\ clockOf' = clockOf
    BY <1>4 DEF AddClock, Naming
  <2>4. clockOf \in [Comps -> 0..(Len(cklist) + 1)]  BY <1>1
  <2>5. QED  BY <1>1, <1>2, <2>2, <2>3, <2>4 DEF ClockTypes
<1>5. CASE NextComp
  <2>1. /\ pc' = pc /\ comp \in Comps /\ comp' = comp + 1 /\ token' = 1 /\ cklist' = cklist
        /\ clockOf' = clockOf
    BY <1>5 DEF NextComp
  <2>2. comp' \in 1..(Len(design) + 1)  BY <2>1, <1>1
  <2>3. QED  BY <1>1, <1>2, <2>1, <2>2 DEF ClockTypes
<1>6. CASE AddDefault
  <2>1. /\ pc' = "expand" /\ comp' = 1 /\ token' = token /\ clockOf' = clockOf
    BY <1>6 DEF AddDefault
  <2>2. cklist' \in Seq(Clock) /\ Len(cklist') \in {Len(cklist), Len(cklist) + 1}
    <3>1. CASE cklist' = cklist  BY <3>1, <1>1
    <3>2. CASE cklist' # cklist
      <4>1. PICK first \in Clock : cklist' = [Append(cklist, NewClock) EXCEPT ![1] = first]
        BY <1>6, <3>2, DefaultFacts
      <4>2. PICK ck \in Clock : ck = NewClock  BY NewClockType
      <4>3. PICK list \in Seq(Clock) : list = Append(cklist, ck) /\ Len(list) = Len(cklist) + 1
        <5>1. Append(cklist, ck) \in Seq(Clock) /\ Len(Append(cklist, ck)) = Len(cklist) + 1
          BY <1>1, Appended
        <5>2. QED  BY <5>1
      <4>4. cklist' = [list EXCEPT ![1] = first]  BY <4>1, <4>2, <4>3
      <4>5. cklist' \in Seq(Clock) /\ Len(cklist') = Len(list)  BY <4>3, <4>4
      <4>6. QED  BY <4>3, <4>5
    <3>3. QED  BY <3>1, <3>2
  <2>3. 1 \in 1..(Len(design) + 1)  BY <1>1
  <2>4. clockOf \in [Comps -> 0..Len(cklist')]  BY <2>2, <1>1
  <2>5. QED  BY <1>1, <1>2, <2>1, <2>2, <2>3, <2>4 DEF ClockTypes
<1>7. CASE ExpandClock
  <2>1. /\ pc' = pc /\ comp \in Comps /\ comp' = comp + 1 /\ token' = token /\ cklist' = cklist
        /\ clockOf' = [clockOf EXCEPT ![comp] =
              IF Len(design[comp].name) = 1 THEN FindClock(design[comp].name[1]) ELSE 0]
    BY <1>7 DEF ExpandClock
  <2>2. comp' \in 1..(Len(design) + 1)  BY <2>1, <1>1
  <2>3. FindClock(design[comp].name[1]) \in 0..Len(cklist)  BY <1>1, FindClockFacts
  <2>4. clockOf' \in [Comps -> 0..Len(cklist)]  BY <2>1, <2>3, <1>1
  <2>5. QED  BY <1>1, <1>2, <2>1, <2>2, <2>4 DEF ClockTypes
<1>8. CASE /\ cklist' = cklist /\ comp' = comp /\ token' = token /\ clockOf' = clockOf
           /\ pc' = pc \/ pc' \in {"clocks", "bench", "aborted"}
  BY <1>1, <1>2, <1>8 DEF ClockTypes
<1>9. QED  BY <1>3, <1>4, <1>5, <1>6, <1>7, <1>8, ClockSteps
-----------------------------------------------------------------------------
(* The list once the default clock has been added.                         *)
LEMMA DefaultList ==
  ASSUME ClockTypes, NEW first \in Clock,
         cklist' = [Append(cklist, NewClock) EXCEPT ![1] = first]
  PROVE  /\ DOMAIN cklist' = 1..(Len(cklist) + 1) /\ cklist'[1] = first
         /\ \A i \in DOMAIN cklist : i # 1 => cklist'[i] = cklist[i]
         /\ cklist # <<>> => cklist'[Len(cklist) + 1] = NewClock
<1>1. cklist \in Seq(Clock) /\ Len(cklist) \in Nat /\ DOMAIN cklist = 1..Len(cklist)
  BY WalkFacts DEF ClockTypes
<1>2. PICK ck \in Clock : ck = NewClock  BY NewClockType
<1> DEFINE list == Append(cklist, ck)
<1>3. /\ DOMAIN list = 1..(Len(cklist) + 1) /\ list[Len(cklist) + 1] = ck
      /\ \A i \in 1..Len(cklist) : list[i] = cklist[i]
  BY <1>1, Appended
<1>4. cklist' = [list EXCEPT ![1] = first]  BY <1>2
<1>5. list = [i \in 1..(Len(cklist) + 1) |-> list[i]]
  <2>1. list \in Seq(Clock) /\ Len(list) = Len(cklist) + 1  BY <1>1, Appended
  <2>2. \A q \in Seq(Clock) : q = [i \in 1..Len(q) |-> q[i]]  OBVIOUS
  <2> HIDE DEF list
  <2>3. QED  BY <2>1, <2>2
<1> HIDE DEF list
<1>6. /\ DOMAIN cklist' = 1..(Len(cklist) + 1) /\ cklist'[1] = first
      /\ \A i \in 2..(Len(cklist) + 1) : cklist'[i] = list[i]
  BY <1>1, <1>3, <1>4, <1>5
<1>7. cklist # <<>> => Len(cklist) + 1 \in 2..(Len(cklist) + 1)  BY <1>1
<1>8. QED  BY <1>1, <1>2, <1>3, <1>6, <1>7

LEMMA NamesKept ==
  ASSUME SlowClocks, ClockTypes, NamesOnce, [Next]_vars
  PROVE  NamesOnce'
<1>1. /\ design \in Designs /\ Comps = 1..Len(design) /\ cklist \in Seq(Clock)
      /\ Len(cklist) \in Nat /\ DOMAIN cklist = 1..Len(cklist)
      /\ \A i \in DOMAIN cklist : cklist[i] \in Clock
  BY WalkFacts DEF ClockTypes
<1>2. /\ \A i, j \in DOMAIN cklist : cklist[i].name = cklist[j].name => i = j
      /\ pc = "list" => \A i \in DOMAIN cklist : cklist[i].name # NoName
      /\ pc # "list" => cklist # <<>>
      /\ \A i \in DOMAIN cklist : cklist[i].ps >= UnknownPS
  BY DEF NamesOnce
<1>3. Naming => /\ Rate(design, <<comp, token>>) # 0 =>
                     PicosPerSecond \div Rate(design, <<comp, token>>) > UnknownPS
                /\ Named \in ClockNames
  BY <1>1, GivenType, SaidFacts, TestDesignFacts DEF Naming, Named, Comps
<1>4. NoName \notin ClockNames /\ Clk # NoName  BY ClkAssumption
<1>5. UnknownPS \in Nat /\ PicosPerSecond \in Nat  BY FrequencyAssumption DEF UnknownPS
<1>6. CASE UpdateClock
  <2>1. PICK i \in DOMAIN cklist, new \in Clock :
          /\ Naming /\ cklist[i].name = Named
          /\ cklist' = [cklist EXCEPT ![i] = new] /\ new.name = Named
          /\ cklist[i].ps = UnknownPS /\ Rate(design, <<comp, token>>) # 0 =>
               new.ps = PicosPerSecond \div Rate(design, <<comp, token>>)
          /\ cklist[i].ps # UnknownPS \/ Rate(design, <<comp, token>>) = 0 => new.ps = cklist[i].ps
    BY <1>6, UpdateFacts
  <2>2. pc = "list" /\ pc' = "list"  BY <1>6 DEF UpdateClock, Naming
  <2>3. /\ DOMAIN cklist' = DOMAIN cklist
        /\ \A j \in DOMAIN cklist : cklist'[j] = IF j = i THEN new ELSE cklist[j]
    BY <2>1, <1>1
  <2>4. new.ps \in Nat /\ cklist[i].ps \in Nat  BY <1>1 DEF Clock
  <2>5. new.ps >= UnknownPS
    <3>1. CASE cklist[i].ps = UnknownPS /\ Rate(design, <<comp, token>>) # 0
      <4>1. new.ps > UnknownPS  BY <3>1, <2>1, <1>3
      <4>2. QED  BY <4>1, <2>4, <1>5
    <3>2. CASE ~(cklist[i].ps = UnknownPS /\ Rate(design, <<comp, token>>) # 0)
      <4>1. new.ps = cklist[i].ps  BY <3>2, <2>1
      <4>2. QED  BY <4>1, <1>2
    <3>3. QED  BY <3>1, <3>2
  <2>6. \A j \in DOMAIN cklist : cklist'[j].name = cklist[j].name  BY <2>1, <2>3
  <2>7. \A j \in DOMAIN cklist : cklist'[j].ps >= UnknownPS  BY <2>3, <2>5, <1>2
  <2>8. QED  BY <2>2, <2>3, <2>6, <2>7, <1>2 DEF NamesOnce
<1>7. CASE AddClock
  <2>1. PICK new \in Clock :
          /\ Naming /\ FindClock(Named) = 0
          /\ cklist' = Append(cklist, new) /\ new.name = Named
          /\ new.ps = IF Rate(design, <<comp, token>>) = 0 THEN UnknownPS
                      ELSE PicosPerSecond \div Rate(design, <<comp, token>>)
    BY <1>7, AddClockFacts
  <2>2. pc = "list" /\ pc' = "list"  BY <1>7 DEF AddClock, Naming
  <2>3. /\ DOMAIN cklist' = 1..(Len(cklist) + 1) /\ cklist'[Len(cklist) + 1] = new
        /\ \A j \in DOMAIN cklist : cklist'[j] = cklist[j]
    BY <2>1, <1>1, Appended
  <2>4. new.ps \in Nat  BY DEF Clock
  <2>5. new.ps >= UnknownPS
    <3>1. CASE Rate(design, <<comp, token>>) = 0  BY <3>1, <2>1, <1>5
    <3>2. CASE Rate(design, <<comp, token>>) # 0
      <4>1. new.ps > UnknownPS  BY <3>2, <2>1, <1>3
      <4>2. QED  BY <4>1, <2>4, <1>5
    <3>3. QED  BY <3>1, <3>2
  <2>6. \A j \in DOMAIN cklist : cklist[j].name # Named  BY <2>1, <1>1, FindClockFacts
  <2>7. \A j \in DOMAIN cklist' : j \in DOMAIN cklist \/ j = Len(cklist) + 1  BY <2>3, <1>1
  <2>8. QED  BY <2>1, <2>2, <2>3, <2>5, <2>6, <2>7, <1>2, <1>3, <1>4 DEF NamesOnce
<1>8. CASE AddDefault
  <2>1. pc = "list" /\ pc' = "expand"  BY <1>8 DEF AddDefault
  <2>2. CASE FindClock(Clk) # 0 /\ cklist' = cklist
    <3>1. FindClock(Clk) \in DOMAIN cklist  BY <2>2, <1>1, FindClockFacts
    <3>2. cklist # <<>>  BY <3>1
    <3>3. QED  BY <3>2, <2>1, <2>2, <1>2 DEF NamesOnce
  <2>3. CASE ~(FindClock(Clk) # 0 /\ cklist' = cklist)
    <3>1. PICK first \in Clock :
            /\ cklist' = [Append(cklist, NewClock) EXCEPT ![1] = first]
            /\ first.ps > UnknownPS
            /\ cklist # <<>> /\ cklist[1].name # NoName => first.name = cklist[1].name
      BY <1>8, <2>3, DefaultFacts
    <3>2. /\ DOMAIN cklist' = 1..(Len(cklist) + 1) /\ cklist'[1] = first
          /\ \A i \in DOMAIN cklist : i # 1 => cklist'[i] = cklist[i]
          /\ cklist # <<>> => cklist'[Len(cklist) + 1] = NewClock
      BY <3>1, DefaultList
    <3>3. NewClock.name = NoName /\ NewClock.ps = UnknownPS  BY DEF NewClock
    <3>4. first.ps \in Nat  BY DEF Clock
    <3>5. CASE cklist = <<>>
      <4>1. \A i \in DOMAIN cklist' : i = 1  BY <3>2, <3>5
      <4>2. 1 \in DOMAIN cklist'  BY <3>2, <1>1
      <4>3. cklist' # <<>>  BY <4>2
      <4>4. QED  BY <2>1, <3>1, <3>2, <3>4, <4>1, <4>3, <1>5 DEF NamesOnce
    <3>6. CASE cklist # <<>>
      <4>1. 1 \in DOMAIN cklist  BY <3>6, <1>1
      <4>2. \A i \in DOMAIN cklist : cklist'[i].name = cklist[i].name
        BY <3>1, <3>2, <3>6, <4>1, <1>2, <2>1
      <4>3. cklist'[Len(cklist) + 1].name = NoName  BY <3>2, <3>3, <3>6
      <4>4. \A i \in DOMAIN cklist' : i \in DOMAIN cklist \/ i = Len(cklist) + 1  BY <3>2, <1>1
      <4>5. \A i \in DOMAIN cklist : cklist'[i].name # NoName  BY <4>2, <1>2, <2>1
      <4>6. \A i, j \in DOMAIN cklist' : cklist'[i].name = cklist'[j].name => i = j
        BY <4>2, <4>3, <4>4, <4>5, <1>2
      <4>7. \A i \in DOMAIN cklist' : cklist'[i].ps >= UnknownPS
        <5>1. first.ps >= UnknownPS  BY <3>1, <3>4, <1>5
        <5>2. \A i \in DOMAIN cklist : cklist'[i].ps >= UnknownPS  BY <5>1, <3>2, <1>2
        <5>3. cklist'[Len(cklist) + 1].ps >= UnknownPS  BY <3>2, <3>3, <3>6, <1>5
        <5>4. QED  BY <5>2, <5>3, <4>4
      <4>8. cklist' # <<>>
        <5>1. 1 \in DOMAIN cklist'  BY <3>2, <1>1
        <5>2. QED  BY <5>1
      <4>9. QED  BY <4>6, <4>7, <4>8, <2>1 DEF NamesOnce
    <3>7. QED  BY <3>5, <3>6
  <2>4. QED  BY <2>2, <2>3
<1>9. CASE /\ cklist' = cklist
           /\ pc' = pc \/ pc # "list"
  <2>1. pc' = "list" => pc = "list"
    BY <1>9 DEF Next, vars, clockVars, ListClocks, ClockNext, UpdateClock, AddClock, NextComp,
                AddDefault, ExpandClock, Enumerated, Construct, CallTick, CallTickOf, CallReset,
                CallLoad, Run, RunTick, LoadStep, Naming
  <2>2. QED  BY <1>2, <1>9, <2>1 DEF NamesOnce
<1>10. NextComp \/ ExpandClock => cklist' = cklist /\ pc' = pc
  BY DEF NextComp, ExpandClock
<1>11. QED  BY <1>6, <1>7, <1>8, <1>9, <1>10, ClockSteps
-----------------------------------------------------------------------------
(* The default clock is added to an empty list, if designs that name       *)
(* clocks name "clk".                                                      *)
LEMMA DefaultAlone ==
  ASSUME ClkNamed, ClockTypes, NamesOnce, AllHeard, AddDefault
  PROVE  \/ cklist' = cklist
         \/ /\ \A n \in ClockNames : Heard(n) = {}
            /\ cklist = <<>> /\ DOMAIN cklist' = {1} /\ cklist'[1] \in Clock
            /\ cklist'[1].name = Clk /\ cklist'[1].tag["wire"] = <<Default(Clk)>>
            /\ cklist'[1].ps = PicosPerSecond \div DefaultFrequency
            /\ cklist'[1].frequency = DefaultFrequency
<1>1. /\ design \in Designs /\ cklist \in Seq(Clock) /\ Len(cklist) \in Nat
      /\ DOMAIN cklist = 1..Len(cklist) /\ \A i \in DOMAIN cklist : cklist[i] \in Clock
      /\ Comps = 1..Len(design) /\ Len(design) \in Nat /\ comp <= Len(design) + 1
      /\ comp \in Nat /\ comp >= 1 /\ token \in Nat
  BY WalkFacts DEF ClockTypes
<1>2. pc = "list" /\ comp \notin Comps  BY DEF AddDefault
<1> SUFFICES ASSUME cklist' # cklist
             PROVE  /\ \A n \in ClockNames : Heard(n) = {}
                    /\ cklist = <<>> /\ DOMAIN cklist' = {1} /\ cklist'[1] \in Clock
                    /\ cklist'[1].name = Clk /\ cklist'[1].tag["wire"] = <<Default(Clk)>>
                    /\ cklist'[1].ps = PicosPerSecond \div DefaultFrequency
                    /\ cklist'[1].frequency = DefaultFrequency
  OBVIOUS
<1>3. PICK first \in Clock :
        /\ FindClock(Clk) = 0
        /\ cklist' = [Append(cklist, NewClock) EXCEPT ![1] = first]
        /\ first.ps = PicosPerSecond \div DefaultFrequency
        /\ cklist = <<>> => /\ first.name = Clk /\ first.frequency = DefaultFrequency
                            /\ first.tag["wire"] = <<Default(Clk)>>
  BY DefaultFacts
<1>4. Clk \in ClockNames  BY ClkAssumption
<1>5. Heard(Clk) = {}  BY <1>3, <1>4 DEF AllHeard
<1>6. \A n : \A a \in Mentions(n) : Before(a, <<comp, token>>)
  BY <1>1, <1>2, MentionFacts DEF Before
<1>7. Mentions(Clk) = {}  BY <1>5, <1>6 DEF Heard
<1>8. cklist = <<>>
  <2>1. SUFFICES ASSUME cklist # <<>> PROVE FALSE  OBVIOUS
  <2>2. 1 \in DOMAIN cklist  BY <1>1, <2>1
  <2>3. Heard(cklist[1].name) # {}  BY <1>2, <2>2 DEF AllHeard
  <2>4. PICK a : a \in Mentions(cklist[1].name)  BY <2>3 DEF Heard
  <2>5. a[1] \in Comps /\ a[2] \in DOMAIN design[a[1]].name  BY <1>1, <2>4, MentionFacts
  <2>6. a[1] \in DOMAIN design /\ design[a[1]].name # <<>>  BY <2>5 DEF Comps
  <2>7. PICK c \in DOMAIN design : Clk \in Range(design[c].name)
    BY <1>1, <2>6 DEF ClkNamed
  <2>8. PICK k \in DOMAIN design[c].name : design[c].name[k] = Clk  BY <2>7 DEF Range
  <2>9. <<c, k>> \in Mentions(Clk)  BY <1>1, <2>7, <2>8, MentionFacts DEF Comps
  <2>10. QED  BY <2>9, <1>7
<1>9. Len(cklist) = 0  BY <1>8
<1>10. DOMAIN cklist' = 1..(Len(cklist) + 1) /\ cklist'[1] = first  BY <1>3, DefaultList
<1>11. DOMAIN cklist' = {1}  BY <1>9, <1>10
<1>12. \A n \in ClockNames : FindClock(n) = 0
  <2>1. \A n : FindClock(n) \in 0..Len(cklist)  BY <1>1, FindClockFacts
  <2>2. QED  BY <2>1, <1>9
<1>13. \A n \in ClockNames : Heard(n) = {}  BY <1>12 DEF AllHeard
<1>14. QED  BY <1>3, <1>8, <1>10, <1>11, <1>13

LEMMA KnowsStill ==
  ASSUME NEW d, NEW ck, NEW H, NEW i, NEW r, NEW s, Knows(d, ck, H, i, r), r \subseteq s
  PROVE  Knows(d, ck, H, i, s)
BY DEF Knows

LEMMA HeardKept ==
  ASSUME SlowClocks, ClkNamed, ClockTypes, NamesOnce, AllHeard, [Next]_vars
  PROVE  AllHeard'
<1>1. /\ design \in Designs /\ cklist \in Seq(Clock) /\ Len(cklist) \in Nat
      /\ DOMAIN cklist = 1..Len(cklist) /\ \A i \in DOMAIN cklist : cklist[i] \in Clock
  BY WalkFacts DEF ClockTypes
<1>2. /\ \A i, j \in DOMAIN cklist : cklist[i].name = cklist[j].name => i = j
      /\ pc = "list" => \A i \in DOMAIN cklist : cklist[i].name # NoName
  BY DEF NamesOnce
<1>3. /\ \A n \in ClockNames : Heard(n) # {} => FindClock(n) # 0
      /\ \A i \in DOMAIN cklist : \A n \in {cklist[i].name} :
           /\ pc = "list" => Heard(n) # {}
           /\ Heard(n) # {} => Knows(design, cklist[i], Heard(n), i, conflicts)
  BY DEF AllHeard
<1>4. design' = design  BY ClockSteps
<1>5. cklist' \in Seq(Clock)
  <2>1. ClockTypes'  BY ClockTypesKept
  <2>2. QED  BY <2>1 DEF ClockTypes
<1>6. \A n : (\E i \in DOMAIN cklist' : cklist'[i].name = n) => FindClock(n)' # 0
  <2>1. \A n : FindClock(n)' = Place(cklist', n)  BY <1>1, FindClockFacts
  <2>2. \A n : Place(cklist', n) = 0 => \A i \in DOMAIN cklist' : cklist'[i].name # n
    BY <1>5, PlaceFacts
  <2>3. QED  BY <2>1, <2>2
<1>7. \A n : FindClock(n) # 0 => FindClock(n) \in DOMAIN cklist /\ cklist[FindClock(n)].name = n
  BY <1>1, FindClockFacts
<1> DEFINE x == <<comp, token>>
<1>8. CASE UpdateClock
  <2>1. PICK i \in DOMAIN cklist, new \in Clock :
          /\ Naming /\ i = FindClock(Named) /\ cklist[i].name = Named
          /\ cklist' = [cklist EXCEPT ![i] = new] /\ new.name = Named
          /\ \A t \in Tag : new.tag[t] = IF cklist[i].tag[t] = None
                                           THEN Say(design, x, t) ELSE cklist[i].tag[t]
          /\ cklist[i].ps = UnknownPS /\ Rate(design, x) # 0 =>
               new.ps = PicosPerSecond \div Rate(design, x)
          /\ cklist[i].ps # UnknownPS \/ Rate(design, x) = 0 => new.ps = cklist[i].ps
          /\ conflicts \subseteq conflicts'
          /\ \A t \in Tag : \/ Say(design, x, t) \in {None, cklist[i].tag[t]}
                            \/ cklist[i].tag[t] = None \/ <<i, t>> \in conflicts'
    BY <1>8, UpdateFacts
  <2>2. pc' = pc /\ comp' = comp /\ token' = token + 1 /\ pc = "list"
    BY <1>8 DEF UpdateClock, Naming
  <2>3. /\ DOMAIN cklist' = DOMAIN cklist
        /\ \A j \in DOMAIN cklist : cklist'[j] = IF j = i THEN new ELSE cklist[j]
    BY <2>1, <1>1
  <2>4. /\ Named \in ClockNames
        /\ \A n : /\ Heard(n)' = IF n = Named THEN Heard(n) \cup {x} ELSE Heard(n)
                  /\ \A b \in Heard(n) : Before(b, x) /\ b # x
    BY <1>4, <2>1, <2>2, HeardNext
  <2>5. \A j \in DOMAIN cklist : cklist'[j].name = cklist[j].name  BY <2>1, <2>3
  <2>6. Heard(Named) # {} /\ Knows(design, cklist[i], Heard(Named), i, conflicts)
    BY <1>3, <2>1, <2>2
  <2>7. \A b \in Heard(Named) : Rate(design, b) # 0 => PicosPerSecond \div Rate(design, b) # UnknownPS
    <3>1. ASSUME NEW b \in Heard(Named), Rate(design, b) # 0
          PROVE  PicosPerSecond \div Rate(design, b) # UnknownPS
      <4>1. b[1] \in Comps /\ b = <<b[1], b[2]>>  BY <1>1, MentionFacts DEF Heard
      <4>2. Hertz(b[1], b[2]) = Rate(design, b)  BY <4>1, SaidFacts
      <4>3. Hertz(b[1], b[2]) \in Nat  BY <1>1, <4>1, GivenType
      <4>4. PicosPerSecond \div Hertz(b[1], b[2]) > UnknownPS
        BY <1>1, <3>1, <4>1, <4>2, GivenType
      <4>5. PicosPerSecond \div Hertz(b[1], b[2]) \in Nat  BY <3>1, <4>2, <4>3, PeriodType
      <4>6. QED  BY <4>2, <4>4, <4>5 DEF UnknownPS
    <3>2. QED  BY <3>1
  <2>8. new.ps = IF cklist[i].ps = UnknownPS /\ Rate(design, x) # 0
                   THEN PicosPerSecond \div Rate(design, x) ELSE cklist[i].ps
    BY <2>1
  <2> HIDE DEF x
  <2>9. Knows(design, new, Heard(Named) \cup {x}, i, conflicts')
    BY <2>1, <2>4, <2>6, <2>7, <2>8, KnowsMore
  <2>10. ASSUME NEW n \in ClockNames, Heard(n)' # {} PROVE FindClock(n)' # 0
    <3>1. CASE n = Named
      <4>1. i \in DOMAIN cklist' /\ cklist'[i].name = n  BY <3>1, <2>1, <2>3
      <4>2. QED  BY <4>1, <1>6
    <3>2. CASE n # Named
      <4>1. FindClock(n) # 0  BY <1>3, <2>4, <2>10, <3>2
      <4>2. FindClock(n) \in DOMAIN cklist' /\ cklist'[FindClock(n)].name = n
        BY <4>1, <1>7, <2>3, <2>5
      <4>3. QED  BY <4>2, <1>6
    <3>3. QED  BY <3>1, <3>2
  <2>11. ASSUME NEW j \in DOMAIN cklist', NEW n, n = cklist'[j].name
         PROVE  Heard(n)' # {} /\ Knows(design, cklist'[j], Heard(n)', j, conflicts')
    <3>1. CASE j = i
      <4>1. n = Named /\ cklist'[j] = new  BY <2>1, <2>3, <2>11, <3>1
      <4>2. Heard(n)' = Heard(Named) \cup {x}  BY <4>1, <2>4
      <4>3. QED  BY <4>1, <4>2, <2>9, <3>1
    <3>2. CASE j # i
      <4>1. j \in DOMAIN cklist /\ cklist'[j] = cklist[j] /\ n = cklist[j].name /\ n # Named
        BY <2>1, <2>3, <2>11, <3>2, <1>2
      <4>2. Heard(n)' = Heard(n)  BY <4>1, <2>4
      <4>3. Heard(n) # {} /\ Knows(design, cklist[j], Heard(n), j, conflicts)
        BY <4>1, <1>3, <2>2
      <4>4. Knows(design, cklist[j], Heard(n), j, conflicts')  BY <4>3, <2>1, KnowsStill
      <4>5. QED  BY <4>1, <4>2, <4>3, <4>4
    <3>3. QED  BY <3>1, <3>2
  <2>12. QED  BY <1>4, <2>10, <2>11 DEF AllHeard
<1>9. CASE AddClock
  <2>1. PICK new \in Clock :
          /\ Naming /\ FindClock(Named) = 0
          /\ cklist' = Append(cklist, new) /\ new.name = Named
          /\ \A t \in Tag \ {"wire"} : new.tag[t] = Say(design, x, t)
          /\ new.tag["wire"] = IF Say(design, x, "wire") # None THEN Say(design, x, "wire")
                                                                ELSE <<Default(Named)>>
          /\ new.ps = IF Rate(design, x) = 0 THEN UnknownPS
                      ELSE PicosPerSecond \div Rate(design, x)
    BY <1>9, AddClockFacts
  <2>2. pc' = pc /\ comp' = comp /\ token' = token + 1 /\ pc = "list" /\ conflicts' = conflicts
    BY <1>9 DEF AddClock, Naming
  <2>3. /\ DOMAIN cklist' = 1..(Len(cklist) + 1) /\ cklist'[Len(cklist) + 1] = new
        /\ \A j \in DOMAIN cklist : j \in DOMAIN cklist' /\ cklist'[j] = cklist[j]
    BY <2>1, <1>1, Appended
  <2>4. /\ Named \in ClockNames
        /\ \A n : /\ Heard(n)' = IF n = Named THEN Heard(n) \cup {x} ELSE Heard(n)
                  /\ \A b \in Heard(n) : Before(b, x) /\ b # x
    BY <1>4, <2>1, <2>2, HeardNext
  <2>5. Heard(Named) = {}  BY <2>1, <2>4, <1>3
  <2>6. \A n : n = Named => Heard(n)' = {x}  BY <2>4, <2>5
  <2> HIDE DEF x
  <2>7. Knows(design, new, {x}, Len(cklist) + 1, conflicts)  BY <2>1, KnowsOne
  <2>8. \A j \in DOMAIN cklist : cklist[j].name # Named  BY <1>1, <2>1, FindClockFacts
  <2>9. ASSUME NEW n \in ClockNames, Heard(n)' # {} PROVE FindClock(n)' # 0
    <3>1. CASE n = Named
      <4>1. Len(cklist) + 1 \in DOMAIN cklist'  BY <1>1, <2>3
      <4>2. cklist'[Len(cklist) + 1].name = n  BY <2>1, <2>3, <3>1
      <4>3. QED  BY <4>1, <4>2, <1>6
    <3>2. CASE n # Named
      <4>1. FindClock(n) # 0  BY <1>3, <2>4, <2>9, <3>2
      <4>2. FindClock(n) \in DOMAIN cklist' /\ cklist'[FindClock(n)].name = n
        BY <4>1, <1>7, <2>3
      <4>3. QED  BY <4>2, <1>6
    <3>3. QED  BY <3>1, <3>2
  <2>10. ASSUME NEW j \in DOMAIN cklist', NEW n, n = cklist'[j].name
         PROVE  Heard(n)' # {} /\ Knows(design, cklist'[j], Heard(n)', j, conflicts')
    <3>1. CASE j = Len(cklist) + 1
      <4>1. n = Named /\ cklist'[j] = new  BY <2>1, <2>3, <2>10, <3>1
      <4>2. QED  BY <4>1, <2>2, <2>6, <2>7, <3>1
    <3>2. CASE j # Len(cklist) + 1
      <4>1. j \in DOMAIN cklist  BY <1>1, <2>3, <3>2
      <4>2. cklist'[j] = cklist[j] /\ n = cklist[j].name /\ n # Named
        BY <4>1, <2>3, <2>8, <2>10
      <4>3. Heard(n)' = Heard(n)  BY <4>2, <2>4
      <4>4. Heard(n) # {} /\ Knows(design, cklist[j], Heard(n), j, conflicts)
        BY <4>1, <4>2, <1>3, <2>2
      <4>5. QED  BY <4>2, <4>3, <4>4, <2>2
    <3>3. QED  BY <3>1, <3>2
  <2>11. QED  BY <1>4, <2>9, <2>10 DEF AllHeard
<1>10. CASE AddDefault
  <2>1. /\ pc = "list" /\ pc' # "list" /\ comp \notin Comps /\ conflicts' = conflicts
    BY <1>10 DEF AddDefault
  <2>2. \A n : Heard(n)' = Heard(n)  BY <1>4, <2>1, HeardSame
  <2>3. CASE cklist' = cklist
    <3>1. \A n : FindClock(n)' = FindClock(n)  BY <1>1, <2>3, FindClockFacts
    <3>2. QED  BY <1>3, <1>4, <2>1, <2>2, <2>3, <3>1 DEF AllHeard
  <2>4. CASE cklist' # cklist
    <3>1. /\ \A n \in ClockNames : Heard(n) = {}
          /\ DOMAIN cklist' = {1} /\ cklist'[1].name = Clk
      BY <1>10, <2>4, DefaultAlone
    <3>2. \A j \in DOMAIN cklist' : cklist'[j].name \in ClockNames  BY <3>1, ClkAssumption
    <3>3. \A n \in ClockNames : Heard(n)' = {}  BY <2>2, <3>1
    <3>4. QED  BY <2>1, <3>2, <3>3 DEF AllHeard
  <2>5. QED  BY <2>3, <2>4
<1>11. CASE /\ cklist' = cklist /\ conflicts' = conflicts
            /\ \A n : Heard(n)' = Heard(n)
            /\ pc' = pc \/ pc' # "list"
  <2>1. \A n : FindClock(n)' = FindClock(n)  BY <1>1, <1>11, FindClockFacts
  <2>2. QED  BY <1>3, <1>4, <1>11, <2>1 DEF AllHeard
<1>12. NextComp \/ ExpandClock =>
         /\ cklist' = cklist /\ conflicts' = conflicts /\ pc' = pc
         /\ \A n : Heard(n)' = Heard(n)
  <2>1. CASE NextComp
    <3>1. /\ pc = "list" /\ pc' = "list" /\ comp \in Comps /\ token \notin DOMAIN design[comp].name
          /\ comp' = comp + 1 /\ token' = 1 /\ cklist' = cklist /\ conflicts' = conflicts
      BY <2>1 DEF NextComp
    <3>2. QED  BY <1>4, <3>1, HeardSame
  <2>2. CASE ExpandClock
    <3>1. pc = "expand" /\ pc' = pc /\ cklist' = cklist /\ conflicts' = conflicts
      BY <2>2 DEF ExpandClock
    <3>2. QED  BY <1>4, <3>1, HeardSame
  <2>3. QED  BY <2>1, <2>2
<1>13. ASSUME cklist' = cklist, comp' = comp, token' = token, conflicts' = conflicts,
              \/ pc' = pc
              \/ pc \in {"clocks", "bench"} /\ pc' \in {"bench", "aborted"}
              \/ pc = "expand" /\ pc' = "clocks"
       PROVE  AllHeard'
  <2>1. (pc # "list" /\ pc' # "list") \/ (pc' = pc /\ comp' = comp /\ token' = token)  BY <1>13
  <2>2. \A n : Heard(n)' = Heard(n)  BY <1>4, <2>1, HeardSame
  <2>3. QED  BY <1>11, <1>13, <2>1, <2>2
<1>14. QED  BY <1>8, <1>9, <1>10, <1>11, <1>12, <1>13, ClockSteps
-----------------------------------------------------------------------------
LEMMA FrequencyKept ==
  ASSUME SlowClocks, ClkNamed, ClockTypes, NamesOnce, AllHeard, FrequencyShown, [Next]_vars
  PROVE  FrequencyShown'
<1>1. /\ design \in Designs /\ cklist \in Seq(Clock) /\ Len(cklist) \in Nat
      /\ DOMAIN cklist = 1..Len(cklist) /\ \A i \in DOMAIN cklist : cklist[i] \in Clock
  BY WalkFacts DEF ClockTypes
<1>2. \A i \in DOMAIN cklist :
        IF cklist[i].ps = UnknownPS THEN cklist[i].frequency = 0
        ELSE cklist[i].frequency # 0 /\ cklist[i].ps = PicosPerSecond \div cklist[i].frequency
  BY DEF FrequencyShown
<1> DEFINE x == <<comp, token>>
<1>3. Naming /\ Rate(design, x) # 0 => PicosPerSecond \div Rate(design, x) # UnknownPS
  <2>1. SUFFICES ASSUME Naming, Rate(design, x) # 0
                 PROVE  PicosPerSecond \div Rate(design, x) # UnknownPS
    OBVIOUS
  <2>2. comp \in Comps  BY <2>1 DEF Naming
  <2>3. Hertz(comp, token) = Rate(design, x)  BY SaidFacts
  <2>4. /\ Hertz(comp, token) \in Nat
        /\ PicosPerSecond \div Hertz(comp, token) > UnknownPS
    BY <1>1, <2>1, <2>2, <2>3, GivenType
  <2>5. PicosPerSecond \div Hertz(comp, token) \in Nat  BY <2>1, <2>3, <2>4, PeriodType
  <2>6. QED  BY <2>3, <2>4, <2>5 DEF UnknownPS
<1>4. CASE UpdateClock
  <2>1. PICK i \in DOMAIN cklist, new \in Clock :
          /\ Naming
          /\ cklist' = [cklist EXCEPT ![i] = new]
          /\ cklist[i].ps = UnknownPS /\ Rate(design, x) # 0 =>
               /\ new.ps = PicosPerSecond \div Rate(design, x)
               /\ new.frequency = IF cklist[i].frequency = 0 THEN Rate(design, x)
                                                             ELSE cklist[i].frequency
          /\ cklist[i].ps # UnknownPS \/ Rate(design, x) = 0 =>
               new.ps = cklist[i].ps /\ new.frequency = cklist[i].frequency
    BY <1>4, UpdateFacts
  <2>2. /\ DOMAIN cklist' = DOMAIN cklist
        /\ \A j \in DOMAIN cklist : cklist'[j] = IF j = i THEN new ELSE cklist[j]
    BY <2>1, <1>1
  <2> HIDE DEF x
  <2>3. IF new.ps = UnknownPS THEN new.frequency = 0
        ELSE new.frequency # 0 /\ new.ps = PicosPerSecond \div new.frequency
    BY <1>2, <1>3, <2>1
  <2>4. QED  BY <1>2, <2>2, <2>3 DEF FrequencyShown
<1>5. CASE AddClock
  <2>1. PICK new \in Clock :
          /\ Naming
          /\ cklist' = Append(cklist, new)
          /\ new.ps = IF Rate(design, x) = 0 THEN UnknownPS
                      ELSE PicosPerSecond \div Rate(design, x)
          /\ new.frequency = Rate(design, x)
    BY <1>5, AddClockFacts
  <2>2. /\ DOMAIN cklist' = 1..(Len(cklist) + 1) /\ cklist'[Len(cklist) + 1] = new
        /\ \A j \in DOMAIN cklist : cklist'[j] = cklist[j]
    BY <2>1, <1>1, Appended
  <2>3. \A j \in DOMAIN cklist' : j \in DOMAIN cklist \/ j = Len(cklist) + 1  BY <1>1, <2>2
  <2> HIDE DEF x
  <2>4. IF new.ps = UnknownPS THEN new.frequency = 0
        ELSE new.frequency # 0 /\ new.ps = PicosPerSecond \div new.frequency
    BY <1>3, <2>1
  <2>5. QED  BY <1>2, <2>2, <2>3, <2>4 DEF FrequencyShown
<1>6. CASE AddDefault
  <2>1. CASE cklist' = cklist  BY <1>2, <2>1 DEF FrequencyShown
  <2>2. CASE cklist' # cklist
    <3>1. /\ DOMAIN cklist' = {1}
          /\ cklist'[1].ps = PicosPerSecond \div DefaultFrequency
          /\ cklist'[1].frequency = DefaultFrequency
      BY <1>6, <2>2, DefaultAlone
    <3>2. /\ DefaultFrequency # 0 /\ DefaultFrequency \in Nat
          /\ PicosPerSecond \div DefaultFrequency > UnknownPS
      BY FrequencyAssumption DEF UnknownPS
    <3>3. PicosPerSecond \div DefaultFrequency \in Nat  BY <3>2, PeriodType
    <3>4. PicosPerSecond \div DefaultFrequency # UnknownPS  BY <3>2, <3>3 DEF UnknownPS
    <3>5. QED  BY <3>1, <3>2, <3>4 DEF FrequencyShown
  <2>3. QED  BY <2>1, <2>2
<1>7. CASE cklist' = cklist  BY <1>2, <1>7 DEF FrequencyShown
<1>8. NextComp \/ ExpandClock => cklist' = cklist  BY DEF NextComp, ExpandClock
<1>9. QED  BY <1>4, <1>5, <1>6, <1>7, <1>8, ClockSteps

LEMMA ExpandedKept ==
  ASSUME ClockTypes, Expanded, [Next]_vars
  PROVE  Expanded'
<1>1. /\ design \in Designs /\ cklist \in Seq(Clock) /\ Comps = 1..Len(design)
      /\ Len(design) \in Nat /\ comp \in Nat /\ comp <= Len(design) + 1 /\ comp >= 1
      /\ clockOf \in [Comps -> 0..Len(cklist)]
  BY WalkFacts DEF ClockTypes
<1>2. design' = design /\ Comps' = Comps  BY ClockSteps DEF Comps
<1>3. cklist' = cklist => \A n : FindClock(n)' = FindClock(n)  BY <1>1, FindClockFacts
<1>4. \A c \in Comps : pc # "list" /\ (pc = "expand" => c < comp) /\ Len(design[c].name) = 1 =>
        clockOf[c] = FindClock(design[c].name[1])
  BY DEF Expanded
<1>5. CASE UpdateClock \/ AddClock \/ NextComp
  <2>1. pc' = "list"  BY <1>5 DEF UpdateClock, AddClock, NextComp, Naming
  <2>2. QED  BY <2>1 DEF Expanded
<1>6. CASE AddDefault
  <2>1. pc' = "expand" /\ comp' = 1  BY <1>6 DEF AddDefault
  <2>2. \A c \in Comps : ~(c < 1)  BY <1>1
  <2>3. QED  BY <2>1, <2>2, <1>2 DEF Expanded
<1>7. CASE ExpandClock
  <2>1. /\ pc = "expand" /\ pc' = pc /\ comp \in Comps /\ comp' = comp + 1 /\ cklist' = cklist
        /\ clockOf' = [clockOf EXCEPT ![comp] =
              IF Len(design[comp].name) = 1 THEN FindClock(design[comp].name[1]) ELSE 0]
    BY <1>7 DEF ExpandClock
  <2>2. ASSUME NEW c \in Comps, c < comp + 1, Len(design[c].name) = 1, NEW n, n = design[c].name[1]
        PROVE  clockOf'[c] = FindClock(n)'
    <3>1. CASE c = comp
      <4>1. clockOf'[c] = FindClock(n)  BY <1>1, <2>1, <2>2, <3>1
      <4>2. QED  BY <4>1, <1>3, <2>1
    <3>2. CASE c # comp
      <4>1. c < comp  BY <1>1, <2>2, <3>2
      <4>2. clockOf'[c] = clockOf[c]  BY <1>1, <2>1, <3>2
      <4>3. clockOf[c] = FindClock(n)  BY <1>4, <2>1, <2>2, <4>1
      <4>4. QED  BY <4>2, <4>3, <1>3, <2>1
    <3>3. QED  BY <3>1, <3>2
  <2>3. QED  BY <2>1, <2>2, <1>2 DEF Expanded
<1>8. CASE /\ cklist' = cklist /\ comp' = comp /\ clockOf' = clockOf
           /\ \/ pc' = pc
              \/ pc \in {"clocks", "bench"} /\ pc' \in {"bench", "aborted"}
              \/ pc = "expand" /\ pc' = "clocks" /\ comp \notin Comps
  <2>1. ASSUME NEW c \in Comps, pc' # "list", pc' = "expand" => c < comp,
               Len(design[c].name) = 1, NEW n, n = design[c].name[1]
        PROVE  clockOf'[c] = FindClock(n)'
    <3>1. pc # "list" /\ (pc = "expand" => c < comp)  BY <1>1, <1>8, <2>1
    <3>2. clockOf[c] = FindClock(n)  BY <1>4, <2>1, <3>1
    <3>3. QED  BY <1>3, <1>8, <3>2
  <2>2. QED  BY <1>2, <1>8, <2>1 DEF Expanded
<1>9. QED  BY <1>5, <1>6, <1>7, <1>8, ClockSteps
-----------------------------------------------------------------------------
(* Of two places one is before the other, so that there is one first.      *)
LEMMA FirstUnique ==
  ASSUME NEW S, S \subseteq Nat \X Nat, NEW a, FirstIn(a, S)
  PROVE  FirstOf(S) = a
<1>1. \A b, c \in S : ~(Before(b, c) /\ Before(c, b))
  <2>1. \A b \in S : b[1] \in Nat /\ b[2] \in Nat  OBVIOUS
  <2>2. QED  BY <2>1 DEF Before
<1>2. \A b : b \in S /\ (\A c \in S \ {b} : Before(b, c)) => b = a  BY <1>1 DEF FirstIn
<1>3. \E b \in S : \A c \in S \ {b} : Before(b, c)  BY DEF FirstIn
<1>4. FirstOf(S) \in S /\ \A c \in S \ {FirstOf(S)} : Before(FirstOf(S), c)  BY <1>3 DEF FirstOf
<1>5. QED  BY <1>2, <1>4

LEMMA MergedIfKnown ==
  ASSUME ClocksInv, pc # "list"
  PROVE  ClocksMerged
<1>1. /\ design \in Designs /\ cklist \in Seq(Clock) /\ Comps = 1..Len(design)
      /\ Len(design) \in Nat /\ comp \in Nat /\ comp <= Len(design) + 1 /\ comp >= 1
  BY WalkFacts DEF ClockTypes, ClocksInv
<1>2. \A n : Heard(n) = Mentions(n)  BY DEF Heard
<1>3. /\ \A n \in ClockNames : Mentions(n) # {} => FindClock(n) # 0
      /\ \A i \in DOMAIN cklist : Mentions(cklist[i].name) # {} =>
           Knows(design, cklist[i], Mentions(cklist[i].name), i, conflicts)
  BY <1>2 DEF AllHeard, ClocksInv
<1>4. \A i, j \in DOMAIN cklist : cklist[i].name = cklist[j].name => i = j
  BY DEF NamesOnce, ClocksInv
<1>5. \A n : \A a \in Mentions(n) :
        /\ a \in Nat \X Nat
        /\ Hertz(a[1], a[2]) = Rate(design, a)
        /\ \A t \in Tag : Given(a[1], a[2])[t] = Say(design, a, t)
  BY <1>1, MentionFacts, SaidFacts
<1>6. \A n : FindClock(n) # 0 => FindClock(n) \in DOMAIN cklist /\ cklist[FindClock(n)].name = n
  BY <1>1, FindClockFacts
<1>7. ASSUME NEW i \in DOMAIN cklist, Mentions(cklist[i].name) # {}
      PROVE  LET ck == cklist[i]
                 all == Mentions(ck.name)
                 saying(t) == {a \in all : Given(a[1], a[2])[t] # None}
                 timed == {a \in all : Hertz(a[1], a[2]) # 0}
                 hz == IF timed = {} THEN 0 ELSE Hertz(FirstOf(timed)[1], FirstOf(timed)[2])
             IN  /\ \A t \in Tag \ {"wire"} :
                      ck.tag[t] = IF saying(t) = {} THEN None
                                  ELSE Given(FirstOf(saying(t))[1], FirstOf(saying(t))[2])[t]
                 /\ ck.tag["wire"] = IF FirstOf(all) \in saying("wire")
                                       THEN Given(FirstOf(all)[1], FirstOf(all)[2])["wire"]
                                       ELSE <<Default(ck.name)>>
                 /\ ck.ps = IF hz = 0 THEN UnknownPS ELSE PicosPerSecond \div hz
  <2> DEFINE ck == cklist[i]
             all == Mentions(ck.name)
             saying(t) == {a \in all : Given(a[1], a[2])[t] # None}
             timed == {a \in all : Hertz(a[1], a[2]) # 0}
             hz == IF timed = {} THEN 0 ELSE Hertz(FirstOf(timed)[1], FirstOf(timed)[2])
  <2>1. Knows(design, ck, all, i, conflicts)  BY <1>3, <1>7
  <2>2. all \subseteq Nat \X Nat  BY <1>5
  <2>3. \A t \in Tag : saying(t) = Saying(design, all, t) /\ saying(t) \subseteq Nat \X Nat
    BY <1>5 DEF Saying
  <2>4. timed = Timed(design, all) /\ timed \subseteq Nat \X Nat  BY <1>5 DEF Timed
  <2>5. \A a \in all : /\ Hertz(a[1], a[2]) = Rate(design, a)
                       /\ \A t \in Tag : Given(a[1], a[2])[t] = Say(design, a, t)
    BY <1>5
  <2>6. "wire" \in Tag  BY DEF Tag
  <2>7. \A t \in Tag : \A a : a \in saying(t) <=> a \in all /\ Say(design, a, t) # None  BY <2>5
  <2> HIDE DEF all, saying, timed, ck
  <2>8. ASSUME NEW t \in Tag \ {"wire"}
        PROVE  ck.tag[t] = IF saying(t) = {} THEN None
                           ELSE Given(FirstOf(saying(t))[1], FirstOf(saying(t))[2])[t]
    <3>1. CASE saying(t) = {}  BY <3>1, <2>1, <2>3 DEF Knows
    <3>2. CASE saying(t) # {}
      <4>1. PICK a \in all : FirstIn(a, saying(t)) /\ ck.tag[t] = Say(design, a, t)
        BY <3>2, <2>1, <2>3 DEF Knows
      <4>2. FirstOf(saying(t)) = a  BY <2>3, <4>1, FirstUnique
      <4>3. QED  BY <3>2, <4>1, <4>2, <2>5
    <3>3. QED  BY <3>1, <3>2
  <2>9. ck.tag["wire"] = IF FirstOf(all) \in saying("wire")
                           THEN Given(FirstOf(all)[1], FirstOf(all)[2])["wire"]
                           ELSE <<Default(ck.name)>>
    <3>1. PICK a \in all : /\ FirstIn(a, all)
                           /\ ck.tag["wire"] = IF Say(design, a, "wire") # None
                                                 THEN Say(design, a, "wire")
                                                 ELSE <<Default(ck.name)>>
      BY <2>1 DEF Knows
    <3>2. FirstOf(all) = a  BY <2>2, <3>1, FirstUnique
    <3>3. QED  BY <3>1, <3>2, <2>5, <2>6, <2>7
  <2>10. ck.ps = IF hz = 0 THEN UnknownPS ELSE PicosPerSecond \div hz
    <3>1. CASE timed = {}  BY <3>1, <2>1, <2>4 DEF Knows
    <3>2. CASE timed # {}
      <4>1. PICK a \in all : FirstIn(a, timed) /\ ck.ps = PicosPerSecond \div Rate(design, a)
        BY <3>2, <2>1, <2>4 DEF Knows
      <4>2. FirstOf(timed) = a  BY <2>4, <4>1, FirstUnique
      <4>3. hz = Rate(design, a)  BY <3>2, <4>1, <4>2, <2>5
      <4>4. Rate(design, a) # 0  BY <2>4, <4>1 DEF FirstIn, Timed
      <4>5. QED  BY <4>1, <4>3, <4>4
    <3>3. QED  BY <3>1, <3>2
  <2>11. QED  BY <2>8, <2>9, <2>10 DEF ck, all, saying, timed
<1>8. ASSUME pc = "clocks", NEW c \in Comps, Len(design[c].name) = 1
      PROVE  /\ clockOf[c] # 0 /\ cklist[clockOf[c]].name = design[c].name[1]
             /\ LET ck == cklist[clockOf[c]]
                IN  ck.frequency # 0 => ck.ps = PicosPerSecond \div ck.frequency
  <2> DEFINE n == design[c].name[1]
  <2>1. clockOf[c] = FindClock(n)  BY <1>8 DEF Expanded, ClocksInv
  <2>2. 1 \in DOMAIN design[c].name /\ n \in ClockNames
    <3>1. /\ DOMAIN design[c].name = 1..Len(design[c].name)
          /\ \A k \in DOMAIN design[c].name : design[c].name[k] \in ClockNames
      BY <1>1, TestDesignFacts DEF Comps
    <3>2. QED  BY <1>8, <3>1
  <2>3. <<c, 1>> \in Mentions(n)  BY <1>1, <2>2, MentionFacts
  <2>4. FindClock(n) # 0  BY <1>3, <2>2, <2>3
  <2>5. FindClock(n) \in DOMAIN cklist /\ cklist[FindClock(n)].name = n  BY <1>6, <2>4
  <2>6. cklist[clockOf[c]].frequency # 0 =>
          cklist[clockOf[c]].ps = PicosPerSecond \div cklist[clockOf[c]].frequency
    BY <2>1, <2>5 DEF FrequencyShown, ClocksInv
  <2>7. QED  BY <2>1, <2>4, <2>5, <2>6
<1>9. ConflictsReported
  <2>1. ASSUME NEW n \in ClockNames, NEW a \in Mentions(n), NEW b \in Mentions(n), NEW t \in Tag,
               None \notin {Given(a[1], a[2])[t], Given(b[1], b[2])[t]},
               Given(a[1], a[2])[t] # Given(b[1], b[2])[t]
        PROVE  <<FindClock(n), t>> \in conflicts
    <3>1. FindClock(n) # 0  BY <1>3, <2>1
    <3>2. PICK i \in DOMAIN cklist : i = FindClock(n) /\ cklist[i].name = n  BY <1>6, <3>1
    <3>3. Knows(design, cklist[i], Mentions(n), i, conflicts)  BY <1>3, <2>1, <3>2
    <3>4. /\ Say(design, a, t) \in {None, cklist[i].tag[t]} \/ <<i, t>> \in conflicts
          /\ Say(design, b, t) \in {None, cklist[i].tag[t]} \/ <<i, t>> \in conflicts
      BY <3>3 DEF Knows
    <3>5. /\ Given(a[1], a[2])[t] = Say(design, a, t)
          /\ Given(b[1], b[2])[t] = Say(design, b, t)
      BY <1>5
    <3>6. QED  BY <2>1, <3>2, <3>4, <3>5
  <2>2. QED  BY <2>1 DEF ConflictsReported
<1>10. QED  BY <1>4, <1>7, <1>8, <1>9 DEF ClocksMerged

(* The list of the clocks of a design is well formed in every state, and   *)
(* names each clock once.                                                  *)
THEOREM ClockListRight ==
  SlowClocks => (Spec => [](ClockTypes /\ NamesOnce))
<1> SUFFICES ASSUME SlowClocks PROVE Spec => [](ClockTypes /\ NamesOnce)  OBVIOUS
<1>1. Init => ClockTypes /\ NamesOnce  BY ClockTypesFirst
<1>2. ClockTypes /\ NamesOnce /\ [Next]_vars => (ClockTypes /\ NamesOnce)'
  BY ClockTypesKept, NamesKept
<1>3. QED  BY <1>1, <1>2, PTL DEF Spec

(* In whatever order the components are read, each clock is listed once,   *)
(* with the first wire, port, class, reset and frequency that any of them  *)
(* gives for it; contradictions are reported, and a component that names   *)
(* one clock sees the frequency at which the simulation runs that clock.   *)
THEOREM ClocksAreMerged ==
  SlowClocks /\ ClkNamed => (Spec => []ClocksMerged)
<1> SUFFICES ASSUME SlowClocks, ClkNamed PROVE Spec => []ClocksMerged  OBVIOUS
<1>1. Init => ClocksInv  BY ClockTypesFirst DEF ClocksInv
<1>2. ClocksInv /\ [Next]_vars => ClocksInv'
  BY ClockTypesKept, NamesKept, HeardKept, FrequencyKept, ExpandedKept DEF ClocksInv
<1>3. ClocksInv => ClocksMerged
  <2>1. CASE pc = "list"  BY <2>1 DEF ClocksMerged, Listed
  <2>2. CASE pc # "list"  BY <2>2, MergedIfKnown
  <2>3. QED  BY <2>1, <2>2
<1>4. QED  BY <1>1, <1>2, <1>3, PTL DEF Spec
-----------------------------------------------------------------------------
(* Within a half period no edge is passed.                                 *)
LEMMA TurnFacts ==
  ASSUME NEW h \in Nat, h > 0, NEW t \in Nat, NEW m \in Nat, m > 0,
         NEW p, p = PhaseAt(t, h), m <= IF p < h THEN h - p ELSE 2 * h - p
  PROVE  /\ p \in Nat /\ PhaseAt(t + m, h) \in Nat
         /\ (p + m) % (2 * h) = PhaseAt(t + m, h)
         /\ (t + m) \div (2 * h) = t \div (2 * h) + IF PhaseAt(t + m, h) = h THEN 1 ELSE 0
         /\ IF p + m = 2 * h THEN PhaseAt(t + m, h) = 0 ELSE PhaseAt(t + m, h) = p + m
<1> DEFINE d == 2 * h
           q == t \div d
           r == t % d
<1>1. d \in Nat /\ d > 0 /\ h < d  OBVIOUS
<1>2. q \in Nat /\ r \in Nat /\ r < d /\ t = q * d + r
  <2> HIDE DEF d
  <2>1. QED  BY <1>1, Z3
<1>3. p = IF r < h THEN r + h ELSE r - h  BY DEF PhaseAt
<1>4. q * d \in Nat /\ (q + 1) * d = q * d + d
  <2> HIDE DEF d, q
  <2>1. QED  BY <1>1, <1>2, Z3
<1>5. ASSUME NEW k \in Nat, NEW s \in Nat, s < d, t + m = k * d + s
      PROVE  (t + m) \div d = k /\ (t + m) % d = s
  <2> HIDE DEF d
  <2>1. k * d \in Nat  BY <1>1, <1>5
  <2>2. (t + m) \div d = k  BY <1>1, <1>5, <2>1, QuotientUnique
  <2>3. t + m = ((t + m) \div d) * d + ((t + m) % d)  BY <1>1, Z3
  <2>4. (t + m) % d \in Nat  BY <1>1, Z3
  <2>5. QED  BY <1>5, <2>1, <2>2, <2>3, <2>4
<1>6. p \in Nat /\ p < d  BY <1>1, <1>2, <1>3
<1>7. p + m <= d /\ r + m <= d /\ (r < h => r + m <= h)
  BY <1>1, <1>2, <1>3, <1>6
<1>8. (p + m) % d = IF p + m = d THEN 0 ELSE p + m
  <2> HIDE DEF d
  <2>1. CASE p + m = d
    <3>1. d % d = 0  BY <1>1, Z3
    <3>2. QED  BY <2>1, <3>1
  <2>2. CASE p + m # d
    <3>1. p + m \in Nat /\ p + m < d  BY <1>1, <1>6, <1>7, <2>2
    <3>2. QED  BY <1>1, <3>1, <2>2, Z3
  <2>3. QED  BY <2>1, <2>2
<1>9. CASE r + m = d
  <2>1. t + m = (q + 1) * d + 0 /\ q + 1 \in Nat
    <3> HIDE DEF d, q, r
    <3>1. QED  BY <1>1, <1>2, <1>4, <1>9
  <2>2. (t + m) \div d = q + 1 /\ (t + m) % d = 0  BY <1>1, <1>5, <2>1
  <2>3. PhaseAt(t + m, h) = h  BY <2>2 DEF PhaseAt
  <2>4. p + m = h  BY <1>1, <1>2, <1>3, <1>7, <1>9
  <2>5. QED  BY <1>1, <1>6, <1>8, <2>2, <2>3, <2>4
<1>10. CASE r + m # d
  <2>1. t + m = q * d + (r + m) /\ r + m \in Nat /\ r + m < d  BY <1>1, <1>2, <1>4, <1>7, <1>10
  <2>2. (t + m) \div d = q /\ (t + m) % d = r + m  BY <1>2, <1>5, <2>1
  <2>3. PhaseAt(t + m, h) = IF r + m < h THEN r + m + h ELSE r + m - h  BY <2>2 DEF PhaseAt
  <2>4. IF p + m = d THEN PhaseAt(t + m, h) = 0 ELSE PhaseAt(t + m, h) = p + m
    BY <1>1, <1>2, <1>3, <1>7, <2>1, <2>3
  <2>5. PhaseAt(t + m, h) # h  BY <1>1, <1>2, <1>7, <2>1, <2>3
  <2>6. QED  BY <1>1, <1>6, <1>8, <2>1, <2>2, <2>4, <2>5
<1>11. QED  BY <1>9, <1>10
-----------------------------------------------------------------------------
(* The clocks do not change once the simulation is built, and their        *)
(* periods are not empty.                                                  *)
LEMMA BenchClocks ==
  ASSUME ClockTypes, NamesOnce, pc # "list"
  PROVE  /\ Clocked = 1..Len(cklist) /\ Len(cklist) \in Nat /\ 1 \in Clocked
         /\ \A i \in Clocked :
              cklist[i].ps \in Nat /\ cklist[i].ps > 0 /\ Half(i) \in Nat /\ Half(i) > 0
         /\ ~MultiClock => Clocked = {1}
<1>1. /\ cklist \in Seq(Clock) /\ Len(cklist) \in Nat /\ DOMAIN cklist = 1..Len(cklist)
      /\ \A i \in DOMAIN cklist : cklist[i] \in Clock
  BY WalkFacts DEF ClockTypes
<1>2. cklist # <<>> /\ \A i \in DOMAIN cklist : cklist[i].ps >= UnknownPS  BY DEF NamesOnce
<1>3. Len(cklist) # 0  BY <1>1, <1>2
<1>4. ASSUME NEW i \in Clocked
      PROVE  cklist[i].ps \in Nat /\ cklist[i].ps > 0 /\ Half(i) \in Nat /\ Half(i) > 0
  <2>1. cklist[i].ps \in Nat /\ cklist[i].ps >= 2  BY <1>1, <1>2 DEF Clock, Clocked, UnknownPS
  <2>2. PICK ps \in Nat : ps = cklist[i].ps /\ ps >= 2  BY <2>1
  <2>3. ps \div 2 \in Nat /\ ps \div 2 > 0  BY <2>2, Z3
  <2>4. QED  BY <2>1, <2>2, <2>3 DEF Half
<1>5. ~MultiClock => Len(cklist) = 1  BY <1>1, <1>3 DEF MultiClock
<1>6. 1 \in Clocked  BY <1>1, <1>3 DEF Clocked
<1>7. ~MultiClock => Clocked = {1}
  <2>1. 1..1 = {1}  OBVIOUS
  <2>2. QED  BY <1>1, <1>5, <2>1 DEF Clocked
<1>8. QED  BY <1>1, <1>4, <1>6, <1>7 DEF Clocked

(* No clock passes an edge when all are advanced to the first edge of any. *)
LEMMA MinTimeFacts ==
  ASSUME ClockTypes, NamesOnce, InPhase, pc = "bench", MultiClock
  PROVE  /\ MinTime \in Nat /\ \E i \in Clocked : MinTime = TimeToEdge(i)
         /\ \A i \in Clocked :
              /\ phase[i] \in Nat
              /\ MinTime <= IF phase[i] < Half(i) THEN Half(i) - phase[i]
                                                  ELSE 2 * Half(i) - phase[i]
<1> DEFINE T == {TimeToEdge(i) : i \in Clocked}
<1>1. /\ 1 \in Clocked
      /\ \A i \in Clocked : Half(i) \in Nat /\ Half(i) > 0
  BY BenchClocks
<1>2. /\ mtime \in Nat /\ phase \in [Clocked -> Nat]
      /\ \A i \in Clocked : phase[i] = PhaseAt(mtime, Half(i))
  BY DEF InPhase
<1>3. ASSUME NEW i \in Clocked PROVE phase[i] \in Nat /\ TimeToEdge(i) \in Nat
  <2>1. PICK h \in Nat : h = Half(i) /\ h > 0  BY <1>1
  <2>2. PICK r : r = mtime % (2 * h)  OBVIOUS
  <2>3. r \in Nat /\ r < 2 * h
    <3>1. PICK e \in Nat : e = 2 * h /\ e > 0  BY <2>1
    <3>2. mtime % e \in 0..(e - 1)  BY <1>2, <3>1, Z3
    <3>3. QED  BY <2>2, <3>1, <3>2
  <2>4. phase[i] = IF r < h THEN r + h ELSE r - h  BY <1>2, <2>1, <2>2 DEF PhaseAt
  <2>5. phase[i] \in Nat /\ phase[i] < 2 * h  BY <2>1, <2>3, <2>4
  <2>6. TimeToEdge(i) = IF phase[i] < h THEN h - phase[i] ELSE 2 * h - phase[i]
    BY <2>1 DEF TimeToEdge
  <2>7. QED  BY <2>1, <2>5, <2>6
<1>4. T \subseteq Nat /\ T # {}  BY <1>1, <1>3
<1>5. PICK m \in T : \A n \in T : m <= n  BY <1>4, LeastNatural
<1>6. MinTime \in T /\ \A n \in T : MinTime <= n  BY <1>5 DEF MinTime, Min
<1>7. \A i \in Clocked : MinTime <= TimeToEdge(i)  BY <1>6
<1>8. \E i \in Clocked : MinTime = TimeToEdge(i)  BY <1>6
<1>9. QED  BY <1>3, <1>4, <1>6, <1>7, <1>8 DEF TimeToEdge

(* tick() of several clocks.                                               *)
LEMMA TickFacts ==
  ASSUME ClockTypes, NamesOnce, InPhase, pc = "bench", MultiClock, ~(MinTime <= 1), Tick
  PROVE  /\ MinTime \in Nat /\ MinTime > 1 /\ mtime' = mtime + MinTime
         /\ phase' \in [Clocked -> Nat]
         /\ level' = [i \in Clocked |-> IF phase'[i] < Half(i) THEN 1 ELSE 0]
         /\ \A i \in Clocked :
              /\ phase'[i] = PhaseAt(mtime', Half(i))
              /\ mtime' \div (2 * Half(i))
                   = mtime \div (2 * Half(i)) + IF phase'[i] = Half(i) THEN 1 ELSE 0
              /\ IF phase[i] + MinTime = 2 * Half(i) THEN phase'[i] = 0
                                                     ELSE phase'[i] = phase[i] + MinTime
<1>1. /\ phase' = [i \in Clocked |-> Advance(i, MinTime)]
      /\ level' = [i \in Clocked |-> IF phase'[i] < Half(i) THEN 1 ELSE 0]
      /\ mtime' = mtime + MinTime
  BY DEF Tick
<1>2. /\ MinTime \in Nat
      /\ \A i \in Clocked :
              /\ phase[i] \in Nat
              /\ MinTime <= IF phase[i] < Half(i) THEN Half(i) - phase[i]
                                                  ELSE 2 * Half(i) - phase[i]
  BY MinTimeFacts
<1>3. PICK m \in Nat : m = MinTime /\ m > 1  BY <1>2
<1>4. mtime \in Nat /\ \A i \in Clocked : phase[i] = PhaseAt(mtime, Half(i))  BY DEF InPhase
<1>5. ASSUME NEW i \in Clocked
      PROVE  /\ phase'[i] \in Nat /\ phase'[i] = PhaseAt(mtime + m, Half(i))
             /\ (mtime + m) \div (2 * Half(i))
                  = mtime \div (2 * Half(i)) + IF phase'[i] = Half(i) THEN 1 ELSE 0
             /\ IF phase[i] + m = 2 * Half(i) THEN phase'[i] = 0 ELSE phase'[i] = phase[i] + m
  <2>1. PICK h \in Nat : h = Half(i) /\ h > 0  BY BenchClocks
  <2>2. PICK p : p = phase[i]  OBVIOUS
  <2>3. PICK t \in Nat : t = mtime  BY <1>4
  <2>4. p = PhaseAt(t, h) /\ m <= (IF p < h THEN h - p ELSE 2 * h - p) /\ m > 0 /\ h > 0
    BY <1>2, <1>3, <1>4, <2>1, <2>2, <2>3
  <2>5. /\ p \in Nat /\ PhaseAt(t + m, h) \in Nat
        /\ (p + m) % (2 * h) = PhaseAt(t + m, h)
        /\ (t + m) \div (2 * h) = t \div (2 * h) + IF PhaseAt(t + m, h) = h THEN 1 ELSE 0
        /\ IF p + m = 2 * h THEN PhaseAt(t + m, h) = 0 ELSE PhaseAt(t + m, h) = p + m
    BY <2>4, TurnFacts
  <2>6. phase'[i] = (p + m) % (2 * h)  BY <1>1, <1>3, <2>1, <2>2 DEF Advance
  <2>7. phase'[i] = PhaseAt(t + m, h)  BY <2>5, <2>6
  <2>8. QED  BY <2>1, <2>2, <2>3, <2>5, <2>7
<1>6. phase' \in [Clocked -> Nat]
  <2>1. \A i \in Clocked : Advance(i, MinTime) \in Nat  BY <1>1, <1>5
  <2>2. QED  BY <1>1, <2>1
<1>7. QED  BY <1>1, <1>3, <1>5, <1>6

(* sim_<clock>_tick(): a component is ticked with the one clock it has.    *)
LEMMA SimTicksFacts ==
  ASSUME ClockTypes, NamesOnce, pc # "list", NEW F, F \subseteq Clocked,
         NEW c \in Comps, design[c].simtick
  PROVE  SimTicks(F)[c] = ticks[c] + IF ClockFor(c) \in F THEN 1 ELSE 0
<1>1. /\ design \in Designs /\ cklist \in Seq(Clock) /\ Len(cklist) \in Nat
      /\ DOMAIN cklist = 1..Len(cklist)
  BY WalkFacts DEF ClockTypes
<1>2. \A i, j \in DOMAIN cklist : cklist[i].name = cklist[j].name => i = j  BY DEF NamesOnce
<1>3. \A n : /\ FindClock(n) = 0 => \A i \in DOMAIN cklist : cklist[i].name # n
             /\ FindClock(n) # 0 => FindClock(n) \in DOMAIN cklist /\ cklist[FindClock(n)].name = n
  BY <1>1, FindClockFacts
<1>4. \A n : \A i \in DOMAIN cklist : cklist[i].name = n <=> i = FindClock(n)
  BY <1>1, <1>2, <1>3
<1>5. design[c].name \in Seq(ClockNames)  BY <1>1, TestDesignFacts DEF Comps
<1>6. ASSUME NEW i \in Clocked PROVE SameClock(c, i) <=> i = ClockFor(c)
  <2>1. CASE design[c].simclock # NoName
    BY <1>4, <2>1 DEF SameClock, ClockFor, Clocked
  <2>2. CASE design[c].simclock = NoName
    <3>1. PICK q \in Seq(ClockNames) : q = design[c].name  BY <1>5
    <3>2. \A x : q = <<x>> <=> Len(q) = 1 /\ q[1] = x
      <4>1. q = [j \in 1..Len(q) |-> q[j]]  BY <3>1
      <4>2. QED  BY <4>1
    <3>3. SameClock(c, i) <=> q = <<cklist[i].name>>  BY <2>2, <3>1 DEF SameClock
    <3>4. ClockFor(c) = IF Len(q) = 1 THEN FindClock(q[1]) ELSE 0
      BY <2>2, <3>1 DEF ClockFor
    <3>5. i \in DOMAIN cklist /\ i # 0  BY <1>1 DEF Clocked
    <3>6. QED  BY <1>4, <3>2, <3>3, <3>4, <3>5
  <2>3. QED  BY <2>1, <2>2
<1>7. {i \in F : SameClock(c, i)} = IF ClockFor(c) \in F THEN {ClockFor(c)} ELSE {}  BY <1>6
<1>8. Cardinality({i \in F : SameClock(c, i)}) = IF ClockFor(c) \in F THEN 1 ELSE 0
  BY <1>7, FS_EmptySet, FS_Singleton
<1>9. QED  BY <1>8 DEF SimTicks
-----------------------------------------------------------------------------
LEMMA StillSame ==
  ASSUME ClockTypes, cklist' = cklist, design' = design
  PROVE  /\ Clocked' = Clocked /\ Comps' = Comps /\ MultiClock' = MultiClock
         /\ MainClock' = MainClock
         /\ \A i : Half(i)' = Half(i) /\ Period(i)' = Period(i)
         /\ \A c : ClockFor(c)' = ClockFor(c)
<1>1. \A c : ClockFor(c)' = ClockFor(c)  BY DEF ClockFor, FindClock, SelectInSeq
<1>2. MainClock' = MainClock  BY DEF MainClock, SelectInSeq
<1>3. MultiClock' = MultiClock  BY DEF MultiClock
<1>4. \A i : Half(i)' = Half(i)  BY DEF Half
<1>5. \A i : Period(i)' = Period(i)  BY <1>3, <1>4 DEF Period
<1>6. QED  BY <1>1, <1>2, <1>3, <1>4, <1>5 DEF Clocked, Comps

(* A step either ticks, or takes no time.                                  *)
LEMMA NoTime ==
  ASSUME ClockTypes, [Next]_vars, ~RunTick
  PROVE  /\ mtime' = mtime /\ ticks' = ticks
         /\ pc = "bench" =>
              /\ pc' = pc /\ cklist' = cklist /\ design' = design /\ phase' = phase
              /\ level' = level
         /\ pc = "clocks" /\ pc' # "clocks" => Construct
         /\ pc = "aborted" => pc' = "aborted"
         /\ pc \in {"list", "expand"} => pc' \in {"list", "expand", "clocks"}
<1>1. pc \in {"list", "expand", "clocks", "bench", "aborted"}  BY DEF ClockTypes
<1>2. CASE ListClocks
  <2>1. pc \in {"list", "expand"} /\ pc' \in {"list", "expand", "clocks"}
    BY <1>2 DEF ListClocks, ClockNext, UpdateClock, AddClock, NextComp, AddDefault, ExpandClock,
                Enumerated, Naming
  <2>2. UNCHANGED benchVars  BY <1>2 DEF ListClocks
  <2>3. QED  BY <2>1, <2>2 DEF benchVars
<1>3. CASE Construct  BY <1>3 DEF Construct
<1>4. CASE CallTick \/ CallTickOf \/ CallReset \/ CallLoad
  BY <1>4 DEF CallTick, CallTickOf, CallReset, CallLoad, Called, clockVars
<1>5. CASE LoadStep  BY <1>5 DEF LoadStep, clockVars
<1>6. CASE UNCHANGED vars  BY <1>1, <1>6 DEF vars, clockVars, benchVars
<1>7. QED  BY <1>2, <1>3, <1>4, <1>5, <1>6 DEF Next, Run

(* RunTick: the assertion fails, or tick() is done.                        *)
LEMMA RunTickFacts ==
  ASSUME RunTick
  PROVE  /\ pc = "bench" /\ cklist' = cklist /\ design' = design
         /\ call.op \in {"tick", "tick_clock", "reset"}
         /\ \/ pc' = "aborted" /\ UNCHANGED benchVars
            \/ /\ pc' = pc /\ Tick /\ ~(MultiClock /\ MinTime <= 1)
               /\ call' = IF Again THEN call ELSE NoCall
               /\ iReset' = IF Again THEN iReset ELSE 0
BY DEF RunTick, Return

LEMMA PhaseKept ==
  ASSUME ClockTypes, NamesOnce, InPhase, [Next]_vars
  PROVE  InPhase'
<1>1. /\ mtime \in Nat
      /\ pc \in {"list", "expand", "clocks"} => mtime = 0 /\ ticks = [c \in Comps |-> 0]
      /\ pc = "bench" => phase \in [Clocked -> Nat]
      /\ pc = "bench" /\ MultiClock => \A i \in Clocked :
           /\ phase[i] = PhaseAt(mtime, Half(i))
           /\ level[i] = IF phase[i] < Half(i) THEN 1 ELSE 0
  BY DEF InPhase
<1>2. pc \in {"list", "expand", "clocks", "bench", "aborted"}  BY DEF ClockTypes
<1>3. design' = design  BY ClockSteps
<1>4. CASE Construct
  <2>1. /\ pc = "clocks" /\ pc' = "bench" /\ cklist' = cklist /\ mtime' = mtime
        /\ phase' = [i \in Clocked |-> Half(i)] /\ level' = [i \in Clocked |-> 0]
    BY <1>4 DEF Construct
  <2>2. \A i \in Clocked : Half(i) \in Nat /\ Half(i) > 0  BY <2>1, BenchClocks
  <2>3. ASSUME NEW h \in Nat, h > 0 PROVE PhaseAt(0, h) = h
    <3>1. PICK d \in Nat : d = 2 * h /\ d > 0  BY <2>3
    <3>2. 0 % d = 0  BY <3>1, Z3
    <3>3. QED  BY <2>3, <3>1, <3>2 DEF PhaseAt
  <2>4. /\ Clocked' = Clocked /\ MultiClock' = MultiClock /\ \A i : Half(i)' = Half(i)
    BY <1>3, <2>1, StillSame
  <2>5. \A i \in Clocked : phase'[i] = PhaseAt(mtime', Half(i)) /\ level'[i] = 0
                           /\ ~(phase'[i] < Half(i))
    BY <1>1, <2>1, <2>2, <2>3
  <2>6. phase' \in [Clocked -> Nat]  BY <2>1, <2>2
  <2>7. QED  BY <1>1, <2>1, <2>4, <2>5, <2>6 DEF InPhase
<1>5. CASE RunTick
  <2>1. pc = "bench" /\ cklist' = cklist  BY <1>5, RunTickFacts
  <2>2. /\ Clocked' = Clocked /\ MultiClock' = MultiClock /\ \A i : Half(i)' = Half(i)
    BY <1>3, <2>1, StillSame
  <2>3. CASE pc' = "aborted" /\ UNCHANGED benchVars
    BY <1>1, <2>3 DEF InPhase, benchVars
  <2>4. CASE pc' = pc /\ Tick /\ MultiClock /\ ~(MinTime <= 1)
    <3>1. /\ MinTime \in Nat /\ mtime' = mtime + MinTime /\ phase' \in [Clocked -> Nat]
          /\ level' = [i \in Clocked |-> IF phase'[i] < Half(i) THEN 1 ELSE 0]
          /\ \A i \in Clocked : phase'[i] = PhaseAt(mtime', Half(i))
      BY <2>1, <2>4, TickFacts
    <3>2. mtime' \in Nat  BY <1>1, <3>1
    <3>3. QED  BY <2>1, <2>2, <2>4, <3>1, <3>2 DEF InPhase
  <2>5. CASE pc' = pc /\ Tick /\ ~MultiClock
    <3>1. mtime' = mtime + Half(1) + (cklist[1].ps - Half(1)) /\ phase' = phase
      BY <2>5 DEF Tick
    <3>2. 1 \in Clocked /\ Half(1) \in Nat /\ cklist[1].ps \in Nat  BY <2>1, BenchClocks
    <3>3. mtime' \in Nat  BY <1>1, <3>1, <3>2
    <3>4. QED  BY <1>1, <2>1, <2>2, <2>5, <3>1, <3>3 DEF InPhase
  <2>6. QED  BY <1>5, <2>3, <2>4, <2>5, RunTickFacts
<1>6. CASE ~RunTick /\ ~Construct
  <2>1. /\ mtime' = mtime /\ ticks' = ticks
        /\ pc = "bench" =>
             /\ pc' = pc /\ cklist' = cklist /\ design' = design /\ phase' = phase
             /\ level' = level
        /\ pc = "clocks" => pc' = "clocks"
        /\ pc = "aborted" => pc' = "aborted"
        /\ pc \in {"list", "expand"} => pc' \in {"list", "expand", "clocks"}
    BY <1>6, NoTime
  <2>2. CASE pc = "bench"
    <3>1. /\ Clocked' = Clocked /\ MultiClock' = MultiClock /\ \A i : Half(i)' = Half(i)
      BY <2>1, <2>2, StillSame
    <3>2. QED  BY <1>1, <2>1, <2>2, <3>1 DEF InPhase
  <2>3. CASE pc # "bench"
    <3>1. Comps' = Comps  BY <1>3 DEF Comps
    <3>2. pc' # "bench" /\ (pc' \in {"list", "expand", "clocks"} => pc \in {"list", "expand", "clocks"})
      BY <1>2, <2>1, <2>3
    <3>3. QED  BY <1>1, <2>1, <3>1, <3>2 DEF InPhase
  <2>4. QED  BY <2>2, <2>3
<1>7. QED  BY <1>4, <1>5, <1>6
-----------------------------------------------------------------------------
LEMMA TickedKept ==
  ASSUME ClockTypes, NamesOnce, InPhase, TickedOnItsClock, [Next]_vars
  PROVE  TickedOnItsClock'
<1>1. pc = "bench" => \A c \in Comps : design[c].simtick =>
        ticks[c] = IF ClockFor(c) = 0 THEN 0 ELSE mtime \div Period(ClockFor(c))
  BY DEF TickedOnItsClock
<1>2. design' = design  BY ClockSteps
<1>3. cklist' = cklist => /\ Comps' = Comps /\ \A c : ClockFor(c)' = ClockFor(c)
                          /\ \A i : Period(i)' = Period(i)
  BY <1>2, StillSame
<1>4. pc # "list" => \A i \in Clocked : Period(i) \in Nat /\ Period(i) > 0
  <2>1. SUFFICES ASSUME pc # "list", NEW i \in Clocked PROVE Period(i) \in Nat /\ Period(i) > 0
    OBVIOUS
  <2>2. cklist[i].ps \in Nat /\ cklist[i].ps > 0 /\ Half(i) \in Nat /\ Half(i) > 0
    BY <2>1, BenchClocks
  <2>3. QED  BY <2>2 DEF Period
<1>5. \A c \in Comps : ClockFor(c) \in {0} \cup Clocked
  <2>1. cklist \in Seq(Clock)  BY DEF ClockTypes
  <2>2. \A n : FindClock(n) # 0 => FindClock(n) \in DOMAIN cklist  BY <2>1, FindClockFacts
  <2>3. QED  BY <2>2 DEF ClockFor, Clocked
<1>6. CASE Construct
  <2>1. /\ pc = "clocks" /\ cklist' = cklist /\ mtime' = mtime /\ ticks' = ticks
    BY <1>6 DEF Construct
  <2>2. mtime = 0 /\ ticks = [c \in Comps |-> 0]  BY <2>1 DEF InPhase
  <2>3. \A i \in Clocked : 0 \div Period(i) = 0
    <3>1. \A p \in Nat : p > 0 => 0 \div p = 0  BY Z3
    <3>2. QED  BY <1>4, <2>1, <3>1
  <2>4. \A c \in Comps : ticks'[c] = IF ClockFor(c) = 0 THEN 0 ELSE mtime' \div Period(ClockFor(c))
    BY <1>5, <2>1, <2>2, <2>3
  <2>5. QED  BY <1>2, <1>3, <2>1, <2>4 DEF TickedOnItsClock
<1>7. CASE RunTick
  <2>1. pc = "bench" /\ cklist' = cklist  BY <1>7, RunTickFacts
  <2>2. /\ Clocked = 1..Len(cklist) /\ Len(cklist) \in Nat /\ 1 \in Clocked
        /\ ~MultiClock => Clocked = {1}
        /\ \A i \in Clocked : cklist[i].ps \in Nat /\ cklist[i].ps > 0 /\ Half(i) \in Nat
    BY <2>1, BenchClocks
  <2>3. CASE pc' = "aborted"  BY <2>3 DEF TickedOnItsClock
  <2>4. ASSUME NEW F \in SUBSET Clocked, ticks' = SimTicks(F),
               \A i \in Clocked : mtime' \div Period(i)
                                    = mtime \div Period(i) + IF i \in F THEN 1 ELSE 0,
               NEW c \in Comps, design[c].simtick
        PROVE  ticks'[c] = IF ClockFor(c) = 0 THEN 0 ELSE mtime' \div Period(ClockFor(c))
    <3>1. ticks'[c] = ticks[c] + IF ClockFor(c) \in F THEN 1 ELSE 0
      BY <2>1, <2>4, SimTicksFacts
    <3>2. ticks[c] = IF ClockFor(c) = 0 THEN 0 ELSE mtime \div Period(ClockFor(c))
      BY <1>1, <2>1, <2>4
    <3>3. CASE ClockFor(c) = 0
      <4>1. ClockFor(c) \notin F  BY <2>2, <3>3
      <4>2. QED  BY <3>1, <3>2, <3>3, <4>1
    <3>4. CASE ClockFor(c) \in Clocked
      <4>1. ClockFor(c) # 0  BY <2>2, <3>4
      <4>2. QED  BY <2>4, <3>1, <3>2, <3>4, <4>1
    <3>5. QED  BY <1>5, <3>3, <3>4
  <2>5. ASSUME NEW F \in SUBSET Clocked, ticks' = SimTicks(F),
               \A i \in Clocked : mtime' \div Period(i)
                                    = mtime \div Period(i) + IF i \in F THEN 1 ELSE 0
        PROVE  TickedOnItsClock'
    BY <1>2, <1>3, <2>1, <2>4, <2>5 DEF TickedOnItsClock
  <2>6. CASE Tick /\ MultiClock /\ ~(MinTime <= 1)
    <3>1. PICK F \in SUBSET Clocked : F = {i \in Clocked : phase'[i] = Half(i)}  OBVIOUS
    <3>2. ticks' = SimTicks(F)  BY <2>6, <3>1 DEF Tick
    <3>3. \A i \in Clocked : mtime' \div (2 * Half(i))
            = mtime \div (2 * Half(i)) + IF phase'[i] = Half(i) THEN 1 ELSE 0
      BY <2>1, <2>6, TickFacts
    <3>4. \A i \in Clocked : mtime' \div Period(i)
            = mtime \div Period(i) + IF i \in F THEN 1 ELSE 0
      BY <2>6, <3>1, <3>3 DEF Period
    <3>5. QED  BY <2>5, <3>2, <3>4
  <2>7. CASE Tick /\ ~MultiClock
    <3>1. ticks' = SimTicks({1}) /\ mtime' = mtime + Half(1) + (cklist[1].ps - Half(1))
      BY <2>7 DEF Tick
    <3>2. PICK ps \in Nat : ps = cklist[1].ps /\ ps > 0 /\ Period(1) = ps
      BY <2>2, <2>7 DEF Period
    <3>3. PICK t \in Nat : t = mtime  BY DEF InPhase
    <3>4. mtime' = t + ps  BY <2>2, <3>1, <3>2, <3>3
    <3>5. (t + ps) \div ps = t \div ps + 1
      <4>1. PICK q \in Nat : q = t \div ps  BY <3>2, Z3
      <4>2. q * ps <= t /\ t < q * ps + ps
        <5>1. q \in Int /\ ps > 0  BY <3>2
        <5>2. t \div ps = q <=> (q * ps <= t /\ t < q * ps + ps)  BY <5>1, QuotientUnique
        <5>3. QED  BY <4>1, <5>2
      <4>3. (q + 1) * ps = q * ps + ps /\ q * ps \in Nat  BY <3>2, Z3
      <4>4. (q + 1) * ps <= t + ps /\ t + ps < (q + 1) * ps + ps  BY <4>2, <4>3
      <4>5. t + ps \in Nat /\ q + 1 \in Int  OBVIOUS
      <4>6. QED  BY <3>2, <4>1, <4>4, <4>5, QuotientUnique
    <3>6. \A i \in Clocked : mtime' \div Period(i)
            = mtime \div Period(i) + IF i \in {1} THEN 1 ELSE 0
      BY <2>2, <2>7, <3>2, <3>3, <3>4, <3>5
    <3>7. {1} \in SUBSET Clocked  BY <2>2
    <3>8. QED  BY <2>5, <3>1, <3>6, <3>7
  <2>8. QED  BY <1>7, <2>3, <2>6, <2>7, RunTickFacts
<1>8. CASE ~RunTick /\ ~Construct
  <2>1. /\ mtime' = mtime /\ ticks' = ticks
        /\ pc = "bench" => cklist' = cklist
        /\ pc' = "bench" => pc = "bench"
    <3>1. pc \in {"list", "expand", "clocks", "bench", "aborted"}  BY DEF ClockTypes
    <3>2. QED  BY <1>8, <3>1, NoTime
  <2>2. QED  BY <1>1, <1>2, <1>3, <2>1 DEF TickedOnItsClock
<1>9. QED  BY <1>6, <1>7, <1>8

(* In every order in which the edges of the clocks interleave, a component *)
(* has its SIM.TICK run once for every period of the one clock it has.     *)
THEOREM TickedOnTime ==
  SlowClocks => (Spec => []TickedOnItsClock)
<1> SUFFICES ASSUME SlowClocks PROVE Spec => []TickedOnItsClock  OBVIOUS
<1> DEFINE Inv == ClockTypes /\ NamesOnce /\ InPhase /\ TickedOnItsClock
<1>1. Init => Inv
  <2>1. Init => pc = "list" /\ mtime = 0 /\ ticks = [c \in Comps |-> 0]
    BY DEF Init, ClockInit
  <2>2. Init => InPhase /\ TickedOnItsClock  BY <2>1 DEF InPhase, TickedOnItsClock
  <2>3. QED  BY <2>2, ClockTypesFirst
<1>2. Inv /\ [Next]_vars => Inv'  BY ClockTypesKept, NamesKept, PhaseKept, TickedKept
<1>3. QED  BY <1>1, <1>2, PTL DEF Spec
-----------------------------------------------------------------------------
LEMMA CallingKept ==
  ASSUME ClockTypes, NamesOnce, InPhase, Calling, [Next]_vars
  PROVE  Calling'
<1>1. /\ pc \in {"list", "expand", "clocks"} => call.op = "none"
      /\ pc = "bench" /\ call.op = "tick_clock" =>
           /\ call.clock \in Clocked /\ call.since \in Nat
           /\ IF MultiClock THEN call.since <= mtime /\ mtime <= call.since + phase[call.clock]
                            ELSE call.since = mtime
      /\ pc = "bench" /\ call.op = "reset" =>
           /\ iReset = 1 /\ call.clock = MainClock
           /\ MultiClock /\ call.low => seen \/ level[MainClock] = 0
  BY DEF Calling
<1>2. pc \in {"list", "expand", "clocks", "bench", "aborted"}  BY DEF ClockTypes
<1>3. design' = design  BY ClockSteps
<1>4. cklist' = cklist =>
        Clocked' = Clocked /\ MultiClock' = MultiClock /\ MainClock' = MainClock
  BY <1>3, StillSame
<1>5. CASE ListClocks
  <2>1. pc \in {"list", "expand"} /\ pc' \in {"list", "expand", "clocks"} /\ call' = call
    BY <1>5 DEF ListClocks, ClockNext, UpdateClock, AddClock, NextComp, AddDefault, ExpandClock,
                Enumerated, Naming, benchVars
  <2>2. QED  BY <1>1, <2>1 DEF Calling
<1>6. CASE Construct
  <2>1. pc = "clocks" /\ pc' = "bench" /\ call' = call  BY <1>6 DEF Construct
  <2>2. QED  BY <1>1, <2>1 DEF Calling
<1>7. CASE CallTick \/ CallLoad
  <2>1. pc' = "bench" /\ call'.op \in {"tick", "load"}
    BY <1>7 DEF CallTick, CallLoad, Called, clockVars
  <2>2. QED  BY <2>1 DEF Calling
<1>8. CASE CallTickOf
  <2>1. PICK i \in Clocked :
          Called("tick_clock", i)
          /\ UNCHANGED <<clockVars, mtime, phase, level, iReset, ticks, seen, load, loaded>>
    BY <1>8 DEF CallTickOf
  <2>2. /\ pc = "bench" /\ pc' = "bench" /\ cklist' = cklist /\ mtime' = mtime /\ phase' = phase
        /\ call'.op = "tick_clock" /\ call'.clock = i /\ call'.since = mtime
    BY <2>1 DEF Called, clockVars
  <2>3. mtime \in Nat /\ phase[i] \in Nat  BY <2>2 DEF InPhase
  <2>4. QED  BY <1>4, <2>2, <2>3 DEF Calling
<1>9. CASE CallReset
  <2>1. /\ pc = "bench" /\ pc' = "bench" /\ cklist' = cklist /\ level' = level /\ iReset' = 1
        /\ call'.op = "reset" /\ call'.clock = MainClock /\ call'.low = (level[MainClock] = 0)
    BY <1>9 DEF CallReset, Called, clockVars
  <2>2. QED  BY <1>4, <2>1 DEF Calling
<1>10. CASE RunTick
  <2>1. pc = "bench" /\ cklist' = cklist  BY <1>10, RunTickFacts
  <2>2. CASE pc' = "aborted"  BY <2>2 DEF Calling
  <2>3. CASE pc' = pc /\ call' = NoCall  BY <2>1, <2>3 DEF Calling, NoCall
  <2>4. CASE /\ pc' = pc /\ Tick /\ ~(MultiClock /\ MinTime <= 1) /\ Again
             /\ call' = call /\ iReset' = iReset
    <3>1. MultiClock  BY <2>4 DEF Again, MultiClock
    <3>2. /\ MinTime \in Nat /\ MinTime > 1 /\ mtime' = mtime + MinTime
          /\ \A i \in Clocked : IF phase[i] + MinTime = 2 * Half(i) THEN phase'[i] = 0
                                ELSE phase'[i] = phase[i] + MinTime
      BY <2>1, <2>4, <3>1, TickFacts
    <3>3. CASE call.op = "tick_clock"
      <4>1. PICK i \in Clocked : i = call.clock  BY <1>1, <2>1, <3>3
      <4>2. phase'[i] # 0  BY <2>4, <3>3, <4>1 DEF Again
      <4>3. phase'[i] = phase[i] + MinTime  BY <3>2, <4>2
      <4>4. /\ mtime \in Nat /\ phase[i] \in Nat /\ call.since \in Nat
            /\ call.since <= mtime /\ mtime <= call.since + phase[i]
        BY <1>1, <2>1, <3>1, <3>3, <4>1 DEF InPhase
      <4>5. call.since <= mtime' /\ mtime' <= call.since + phase'[i]  BY <3>2, <4>3, <4>4
      <4>6. QED  BY <1>1, <1>4, <2>1, <2>4, <3>1, <3>3, <4>1, <4>5 DEF Calling
    <3>4. CASE call.op = "reset"
      <4>1. call.clock = MainClock /\ iReset = 1  BY <1>1, <2>1, <3>4
      <4>2. level'[MainClock] = 0  BY <2>4, <3>4, <4>1 DEF Again
      <4>3. QED  BY <1>4, <2>1, <2>4, <3>4, <4>1, <4>2 DEF Calling
    <3>5. QED  BY <2>4, <3>3, <3>4 DEF Again
  <2>5. QED  BY <1>10, <2>1, <2>2, <2>3, <2>4, RunTickFacts
<1>11. CASE LoadStep
  <2>1. pc = "bench" /\ pc' = "bench" /\ call.op = "load" /\ call' \in {call, NoCall}
    BY <1>11 DEF LoadStep, clockVars
  <2>2. call'.op \notin {"tick_clock", "reset"}  BY <2>1 DEF NoCall
  <2>3. QED  BY <2>1, <2>2 DEF Calling
<1>12. CASE UNCHANGED vars
  <2>1. /\ pc' = pc /\ cklist' = cklist /\ mtime' = mtime /\ phase' = phase /\ level' = level
        /\ iReset' = iReset /\ call' = call /\ seen' = seen
    BY <1>12 DEF vars, clockVars, benchVars
  <2>2. QED  BY <1>1, <1>4, <2>1 DEF Calling
<1>13. QED  BY <1>5, <1>6, <1>7, <1>8, <1>9, <1>10, <1>11, <1>12 DEF Next, Run

(* A call that returns, other than load(), does so from tick().            *)
LEMMA ReturnFacts ==
  ASSUME call.op \in {"tick_clock", "reset"}, call'.op = "none", [Next]_vars,
         pc \in {"list", "expand", "clocks"} => call.op = "none"
  PROVE  /\ pc = "bench" /\ Tick /\ ~(MultiClock /\ MinTime <= 1) /\ ~Again
         /\ cklist' = cklist /\ design' = design
<1>1. call' # call  OBVIOUS
<1>2. ~(UNCHANGED vars)  BY <1>1 DEF vars, benchVars
<1>3. ~ListClocks /\ ~Construct  BY <1>1 DEF ListClocks, Construct, benchVars
<1>4. ~CallTick /\ ~CallTickOf /\ ~CallReset /\ ~CallLoad /\ ~LoadStep
  BY DEF CallTick, CallTickOf, CallReset, CallLoad, LoadStep, Called
<1>5. RunTick  BY <1>2, <1>3, <1>4 DEF Next, Run
<1>6. ~(UNCHANGED benchVars)  BY <1>1 DEF benchVars
<1>7. QED  BY <1>1, <1>5, <1>6, RunTickFacts

LEMMA ReturnsThen ==
  ASSUME ClockTypes, NamesOnce, InPhase, Calling, [Next]_vars,
         call.op = "tick_clock", call'.op = "none", ~Lonely
  PROVE  /\ mtime' > call.since /\ mtime' - call.since <= Period(call.clock)
         /\ MultiClock => phase'[call.clock] = 0
<1>1. pc \in {"list", "expand", "clocks"} => call.op = "none"  BY DEF Calling
<1>2. pc = "bench" /\ Tick /\ ~(MultiClock /\ MinTime <= 1) /\ ~Again  BY <1>1, ReturnFacts
<1>3. /\ call.clock \in Clocked /\ call.since \in Nat
      /\ IF MultiClock THEN call.since <= mtime /\ mtime <= call.since + phase[call.clock]
                       ELSE call.since = mtime
  BY <1>2 DEF Calling
<1>4. PICK i \in Clocked : i = call.clock  BY <1>3
<1>5. /\ cklist[i].ps \in Nat /\ cklist[i].ps > 0 /\ Half(i) \in Nat /\ Half(i) > 0
      /\ Len(cklist) \in Nat /\ 1 \in Clocked /\ Clocked = 1..Len(cklist)
      /\ ~MultiClock => Clocked = {1}
  BY <1>2, BenchClocks
<1>6. mtime \in Nat /\ phase \in [Clocked -> Nat]  BY <1>2 DEF InPhase
<1>7. CASE MultiClock
  <2>1. Len(cklist) > 1
    <3>1. Len(cklist) # 1  BY <1>7 DEF Lonely
    <3>2. PICK n \in Nat : n = Len(cklist) /\ 1 \in 1..n  BY <1>5
    <3>3. QED  BY <3>1, <3>2
  <2>2. phase'[i] = 0  BY <1>2, <1>4, <2>1 DEF Again
  <2>3. /\ MinTime \in Nat /\ MinTime > 1 /\ mtime' = mtime + MinTime
        /\ IF phase[i] + MinTime = 2 * Half(i) THEN phase'[i] = 0
           ELSE phase'[i] = phase[i] + MinTime
    BY <1>2, <1>7, TickFacts
  <2>4. phase[i] \in Nat  BY <1>6
  <2>5. phase[i] + MinTime = 2 * Half(i)  BY <2>2, <2>3, <2>4
  <2>6. call.since <= mtime /\ mtime <= call.since + phase[i]  BY <1>3, <1>4, <1>7
  <2>7. mtime' > call.since /\ mtime' - call.since <= 2 * Half(i)
    BY <1>3, <1>6, <2>3, <2>4, <2>5, <2>6
  <2>8. QED  BY <1>4, <1>7, <2>2, <2>7 DEF Period
<1>8. CASE ~MultiClock
  <2>1. i = 1 /\ mtime' = mtime + Half(1) + (cklist[1].ps - Half(1))
    BY <1>2, <1>5, <1>8 DEF Tick
  <2>2. Period(i) = cklist[1].ps /\ call.since = mtime  BY <1>3, <1>8, <2>1 DEF Period
  <2>3. QED  BY <1>4, <1>5, <1>6, <1>8, <2>1, <2>2
<1>9. QED  BY <1>7, <1>8

(* tick_<clock>() returns at the next rising edge of its clock: neither    *)
(* before it, nor after another one.                                       *)
THEOREM ReturnsInTime ==
  SlowClocks => (Spec => ReturnsAtNextRise)
<1> SUFFICES ASSUME SlowClocks PROVE Spec => ReturnsAtNextRise  OBVIOUS
<1> DEFINE Inv == ClockTypes /\ NamesOnce /\ InPhase /\ Calling
<1>1. Init => Inv
  <2>1. Init => pc = "list" /\ mtime = 0 /\ ticks = [c \in Comps |-> 0] /\ call.op = "none"
    BY DEF Init, ClockInit, NoCall
  <2>2. Init => InPhase /\ Calling  BY <2>1 DEF InPhase, Calling
  <2>3. QED  BY <2>2, ClockTypesFirst
<1>2. Inv /\ [Next]_vars => Inv'  BY ClockTypesKept, NamesKept, PhaseKept, CallingKept
<1>3. Inv /\ [Next]_vars =>
        [call.op = "tick_clock" /\ call'.op = "none" /\ ~Lonely =>
           /\ mtime' > call.since /\ mtime' - call.since <= Period(call.clock)
           /\ MultiClock => phase'[call.clock] = 0]_vars
  BY ReturnsThen
<1>4. QED  BY <1>1, <1>2, <1>3, PTL DEF Spec, ReturnsAtNextRise
-----------------------------------------------------------------------------
LEMMA ClkListedKept ==
  ASSUME SlowClocks, ClkNamed, ClkWired, ClockTypes, NamesOnce, AllHeard, ClkListed, [Next]_vars
  PROVE  ClkListed'
<1>1. cklist \in Seq(Clock) /\ design \in Designs  BY DEF ClockTypes
<1>2. Clk \in ClockNames  BY ClkAssumption
<1>3. CASE UpdateClock \/ AddClock \/ NextComp
  <2>1. pc' = "list"  BY <1>3 DEF UpdateClock, AddClock, NextComp, Naming
  <2>2. QED  BY <2>1 DEF ClkListed
<1>4. CASE AddDefault
  <2>1. CASE cklist' = cklist
    <3>1. pc = "list" /\ comp \notin Comps  BY <1>4 DEF AddDefault
    <3>2. FindClock(Clk) # 0
      <4>1. SUFFICES ASSUME FindClock(Clk) = 0 PROVE FALSE  OBVIOUS
      <4>2. PICK first \in Clock : cklist' = [Append(cklist, NewClock) EXCEPT ![1] = first]
        BY <1>4, <4>1, DefaultFacts
      <4>3. DOMAIN cklist = 1..(Len(cklist) + 1)  BY <2>1, <4>2, DefaultList
      <4>4. PICK n \in Nat : n = Len(cklist) /\ DOMAIN cklist = 1..n  BY WalkFacts
      <4>5. n + 1 \in 1..n  BY <4>3, <4>4
      <4>6. QED  BY <4>5
    <3>3. PICK i \in DOMAIN cklist : i = FindClock(Clk) /\ cklist[i].name = Clk
      BY <1>1, <3>2, FindClockFacts
    <3>4. Heard(Clk) # {} /\ Knows(design, cklist[i], Heard(Clk), i, conflicts)
      BY <3>1, <3>3 DEF AllHeard
    <3>5. PICK a \in Heard(Clk) :
            cklist[i].tag["wire"] = IF Say(design, a, "wire") # None THEN Say(design, a, "wire")
                                                                     ELSE <<Default(cklist[i].name)>>
      BY <3>4 DEF Knows
    <3>6. /\ a[1] \in Comps /\ a[2] \in DOMAIN design[a[1]].name
          /\ design[a[1]].name[a[2]] = Clk
      BY <1>1, <3>5, MentionFacts DEF Heard
    <3>7. Say(design, a, "wire") \in {None, <<Default(Clk)>>}
      BY <1>1, <3>6 DEF ClkWired, Say, Comps
    <3>8. cklist[i].tag["wire"] = <<Default(Clk)>>  BY <3>3, <3>5, <3>7
    <3>9. QED  BY <2>1, <3>8 DEF ClkListed, Clocked
  <2>2. CASE cklist' # cklist
    <3>1. DOMAIN cklist' = {1} /\ cklist'[1].tag["wire"] = <<Default(Clk)>>
      BY <1>4, <2>2, DefaultAlone
    <3>2. QED  BY <3>1 DEF ClkListed, Clocked
  <2>3. QED  BY <2>1, <2>2
<1>5. CASE /\ cklist' = cklist
           /\ pc' = pc \/ pc \in {"clocks", "bench", "expand"}
  BY <1>5 DEF ClkListed, Clocked
<1>6. ExpandClock => cklist' = cklist /\ pc' = pc  BY DEF ExpandClock
<1>7. QED  BY <1>3, <1>4, <1>5, <1>6, ClockSteps

LEMMA MainClockFacts ==
  ASSUME ClockTypes, ClkListed, pc # "list"
  PROVE  MainClock \in Clocked
<1> DEFINE I == {i \in 1..Len(cklist) : cklist[i].tag["wire"] = <<Default(Clk)>>}
<1>1. Len(cklist) \in Nat /\ DOMAIN cklist = 1..Len(cklist)  BY WalkFacts
<1>2. MainClock = IF I # {} THEN Min(I) ELSE 0  BY DEF MainClock, SelectInSeq
<1>3. I # {}  BY <1>1 DEF ClkListed, Clocked
<1>4. I \subseteq Nat  BY <1>1
<1>5. PICK m \in I : \A x \in I : m <= x  BY <1>3, <1>4, LeastNatural
<1>6. Min(I) \in I  BY <1>5 DEF Min
<1>7. QED  BY <1>1, <1>2, <1>3, <1>6 DEF Clocked

LEMMA ResetThen ==
  ASSUME ClockTypes, NamesOnce, InPhase, Calling, ClkListed, [Next]_vars,
         call.op = "reset", call'.op = "none", call.low
  PROVE  seen'
<1>1. pc \in {"list", "expand", "clocks"} => call.op = "none"  BY DEF Calling
<1>2. pc = "bench" /\ Tick /\ ~(MultiClock /\ MinTime <= 1) /\ ~Again  BY <1>1, ReturnFacts
<1>3. /\ iReset = 1 /\ call.clock = MainClock
      /\ MultiClock /\ call.low => seen \/ level[MainClock] = 0
  BY <1>2 DEF Calling
<1>4. CASE ~MultiClock  BY <1>2, <1>3, <1>4 DEF Tick
<1>5. CASE MultiClock
  <2>1. seen' = (seen \/ (iReset = 1 /\ phase'[MainClock] = 0))  BY <1>2, <1>5 DEF Tick
  <2>2. SUFFICES ASSUME level[MainClock] = 0 PROVE phase'[MainClock] = 0
    BY <1>3, <1>5, <2>1
  <2>3. PICK i \in Clocked : i = MainClock  BY <1>2, MainClockFacts
  <2>4. /\ MinTime \in Nat /\ MinTime > 1
        /\ level' = [j \in Clocked |-> IF phase'[j] < Half(j) THEN 1 ELSE 0]
        /\ IF phase[i] + MinTime = 2 * Half(i) THEN phase'[i] = 0
           ELSE phase'[i] = phase[i] + MinTime
    BY <1>2, <1>5, TickFacts
  <2>5. /\ phase \in [Clocked -> Nat]
        /\ level[i] = IF phase[i] < Half(i) THEN 1 ELSE 0
    BY <1>2, <1>5 DEF InPhase
  <2>6. Half(i) \in Nat /\ Clocked = 1..Len(cklist) /\ Len(cklist) \in Nat
    BY <1>2, BenchClocks
  <2>7. phase[i] \in Nat /\ phase[i] >= Half(i)  BY <2>2, <2>3, <2>5, <2>6
  <2>8. CASE Len(cklist) > 1
    <3>1. level'[i] # 0  BY <1>2, <1>3, <2>3, <2>8 DEF Again
    <3>2. phase'[i] < Half(i)  BY <2>4, <3>1
    <3>3. QED  BY <2>3, <2>4, <2>6, <2>7, <3>2
  <2>9. CASE ~(Len(cklist) > 1)
    <3>1. \A j \in Clocked : j = i  BY <2>6, <2>9
    <3>2. PICK j \in Clocked : MinTime = TimeToEdge(j)  BY <1>2, <1>5, MinTimeFacts
    <3>3. MinTime = 2 * Half(i) - phase[i]  BY <2>6, <2>7, <3>1, <3>2 DEF TimeToEdge
    <3>4. QED  BY <2>3, <2>4, <2>6, <2>7, <3>3
  <2>10. QED  BY <2>8, <2>9
<1>6. QED  BY <1>4, <1>5

(* When reset() returns the design has seen its reset at a rising edge of  *)
(* the clock "clk", if that clock was low when reset() was called.         *)
THEOREM ResetIsSeen ==
  SlowClocks /\ ClkNamed /\ ClkWired => (Spec => ResetSeen)
<1> SUFFICES ASSUME SlowClocks, ClkNamed, ClkWired PROVE Spec => ResetSeen  OBVIOUS
<1> DEFINE Inv == ClockTypes /\ NamesOnce /\ AllHeard /\ ClkListed /\ InPhase /\ Calling
<1>1. Init => Inv
  <2>1. Init => pc = "list" /\ mtime = 0 /\ ticks = [c \in Comps |-> 0] /\ call.op = "none"
    BY DEF Init, ClockInit, NoCall
  <2>2. Init => InPhase /\ Calling /\ ClkListed  BY <2>1 DEF InPhase, Calling, ClkListed
  <2>3. QED  BY <2>2, ClockTypesFirst
<1>2. Inv /\ [Next]_vars => Inv'
  BY ClockTypesKept, NamesKept, HeardKept, ClkListedKept, PhaseKept, CallingKept
<1>3. Inv /\ [Next]_vars => [call.op = "reset" /\ call'.op = "none" /\ call.low => seen']_vars
  BY ResetThen
<1>4. QED  BY <1>1, <1>2, <1>3, PTL DEF Spec, ResetSeen
-----------------------------------------------------------------------------
LEMMA MemoryFacts ==
  ASSUME MemoriesFit, design \in Designs, NEW c \in Loadable
  PROVE  /\ Base(c) \in Nat /\ AddrLen(c) \in Nat /\ Above(c) \in Nat
         /\ \A a \in Nat : Holds(c, a) =>
              Above(c) = Base(c) + AddrLen(c) /\ Base(c) <= a /\ a < Base(c) + AddrLen(c)
<1>1. c \in DOMAIN design /\ design[c].simload # <<>>  BY DEF Loadable, Comps
<1>2. design[c].simload[1] \in Range(design[c].simload)
  <2>1. PICK q \in Seq(Range(design[c].simload)) : q = design[c].simload
    BY <1>1, SimAssumption
  <2>2. q # <<>>  BY <1>1, <2>1
  <2>3. 1 \in DOMAIN q  BY <2>1, <2>2
  <2>4. QED  BY <2>1, <2>3 DEF Range
<1>3. PICK m : m = design[c].simload[1] /\ {m.base, m.naddr, m.width} \subseteq Nat
  BY <1>1, <1>2, SimAssumption
<1>4. Octets(m) \in Nat
  <2>1. PICK k \in Nat : k = m.width \div 8  BY <1>3, Z3
  <2>2. m.naddr \in Nat  BY <1>3
  <2>3. QED  BY <2>1, <2>2 DEF Octets
<1>5. PICK b \in Nat : b = Base(c)  BY <1>3 DEF Base
<1>6. PICK k \in Nat : k = AddrLen(c) /\ k <= 2^AddrBits
  BY <1>1, <1>3, <1>4 DEF AddrLen, Octets, MemoriesFit
<1>7. PICK M \in Nat : M = 2^AddrBits /\ M > 0
  <2>1. AddrBits \in Nat  BY LoadAssumption
  <2>2. QED  BY <2>1, PowerPositive
<1>8. PICK q \in Nat, r \in Nat : r = (b + k) % M /\ b + k = q * M + r /\ r < M
  <2>1. PICK x \in Nat : x = b + k  OBVIOUS
  <2>2. x \div M \in Nat /\ x % M \in Nat /\ x = (x \div M) * M + (x % M) /\ x % M < M
    BY <1>7, Z3
  <2>3. QED  BY <2>1, <2>2
<1>9. Above(c) = r  BY <1>5, <1>6, <1>7, <1>8 DEF Above, UInt
<1>10. ASSUME NEW a \in Nat, Holds(c, a)
       PROVE  r = b + k /\ b <= a /\ a < b + k
  <2>1. b <= a /\ a < r  BY <1>5, <1>9, <1>10 DEF Holds
  <2>2. CASE q = 0
    <3>1. b + k = r  BY <1>7, <1>8, <2>2
    <3>2. QED  BY <2>1, <3>1
  <2>3. CASE q # 0
    <3>1. 1 * M <= q * M /\ q * M \in Nat
      <4>1. 1 <= q /\ 1 \in Int /\ q \in Int  BY <2>3
      <4>2. 1 * M <= q * M  BY <1>7, <4>1, TimesKeepsOrder
      <4>3. QED  BY <4>2
    <3>2. r <= b  BY <1>6, <1>7, <1>8, <3>1
    <3>3. QED  BY <2>1, <3>2
  <2>4. QED  BY <2>2, <2>3
<1>11. QED  BY <1>5, <1>6, <1>8, <1>9, <1>10

(* A step of load(): a memory takes what it can, or there is none.         *)
LEMMA LoadStepFacts ==
  ASSUME MemoriesFit, ProgramFits, design \in Designs, Loading, LoadStep
  PROVE  /\ pc = "bench" /\ pc' = pc /\ design' = design /\ call.op = "load"
         /\ load.result = "none" /\ call' = IF load'.result = "none" THEN call ELSE NoCall
         /\ \/ /\ load' = [load EXCEPT !.result = "false"] /\ loaded' = loaded
               /\ \/ \A c \in Loadable : ~Holds(c, load.addr)
                  \/ \E c \in Loadable : Holds(c, load.addr) /\ ~design[c].simload[1].defined
            \/ \E c \in Loadable : \E start, wlen \in Nat :
                 /\ Base(c) + start = load.addr
                 /\ loaded' = loaded \cup Served(c, start, load.buf, wlen)
                 /\ \/ /\ wlen < load.len
                       /\ load' = [load EXCEPT !.addr = load.addr + wlen, !.buf = load.buf + wlen,
                                               !.len = load.len - wlen]
                    \/ wlen = load.len /\ load' = [load EXCEPT !.result = "true"]
<1> DEFINE hit == {c \in Loadable : Holds(c, load.addr)}
           c == Min(hit)
           start == load.addr - Base(c)
           wlen == Min({AddrLen(c) - start, load.len})
<1>1. /\ pc = "bench" /\ pc' = pc /\ design' = design /\ call.op = "load"
      /\ call' = IF load'.result = "none" THEN call ELSE NoCall
  BY DEF LoadStep, clockVars
<1>2. /\ load \in [program : Nat \X Nat, addr : Nat, len : Nat, buf : Nat,
                   result : {"none", "true", "false"}]
      /\ load.result = "none" /\ load.program \in Program
      /\ load.addr = load.program[1] + load.buf
      /\ load.len + load.buf = load.program[2]
  BY <1>1 DEF Loading
<1>3. /\ load.addr \in Nat /\ load.len \in Nat /\ load.buf \in Nat
      /\ load.program[1] \in Nat /\ load.program[2] \in Nat
  BY <1>2
<1>4. IF hit = {} \/ ~design[c].simload[1].defined
        THEN load' = [load EXCEPT !.result = "false"] /\ loaded' = loaded
        ELSE /\ loaded' = loaded \cup Served(c, start, load.buf, wlen)
             /\ load' = IF UInt(load.addr + load.len) > Above(c) THEN RestOf(c, start, wlen)
                        ELSE [load EXCEPT !.result = "true"]
  BY DEF LoadStep, Served
<1>5. hit # {} => c \in hit
  <2>1. SUFFICES ASSUME hit # {} PROVE c \in hit  OBVIOUS
  <2>2. hit \subseteq Nat  BY TestDesignFacts DEF Loadable, Comps
  <2>3. PICK m \in hit : \A n \in hit : m <= n  BY <2>1, <2>2, LeastNatural
  <2>4. QED  BY <2>3 DEF Min
<1>6. CASE hit = {} \/ ~design[c].simload[1].defined
  <2>1. \/ \A b \in Loadable : ~Holds(b, load.addr)
        \/ \E b \in Loadable : Holds(b, load.addr) /\ ~design[b].simload[1].defined
    <3>1. CASE hit = {}  BY <3>1
    <3>2. CASE hit # {}
      <4>1. c \in hit /\ ~design[c].simload[1].defined  BY <1>5, <1>6, <3>2
      <4>2. c \in Loadable /\ Holds(c, load.addr)  BY <4>1
      <4> HIDE DEF c
      <4>3. QED  BY <4>1, <4>2
    <3>3. QED  BY <3>1, <3>2
  <2>2. load' = [load EXCEPT !.result = "false"] /\ loaded' = loaded  BY <1>4, <1>6
  <2> HIDE DEF hit, c
  <2>3. QED  BY <1>1, <1>2, <2>1, <2>2
<1>7. CASE ~(hit = {} \/ ~design[c].simload[1].defined)
  <2>1. PICK b \in Loadable : b = c /\ Holds(b, load.addr)  BY <1>5, <1>7
  <2>2. /\ Base(b) \in Nat /\ AddrLen(b) \in Nat /\ Above(b) = Base(b) + AddrLen(b)
        /\ Base(b) <= load.addr /\ load.addr < Base(b) + AddrLen(b)
    BY <1>3, <2>1, MemoryFacts
  <2>3. PICK s \in Nat : s = start /\ Base(b) + s = load.addr /\ s < AddrLen(b)
    <3>1. load.addr - Base(b) \in Nat  BY <1>3, <2>2
    <3>2. Base(b) + (load.addr - Base(b)) = load.addr /\ load.addr - Base(b) < AddrLen(b)
      BY <1>3, <2>2
    <3>3. QED  BY <2>1, <3>1, <3>2
  <2>4. PICK w \in Nat :
          w = wlen /\ w = IF AddrLen(b) - s <= load.len THEN AddrLen(b) - s ELSE load.len
    <3>1. PICK x \in Nat : x = AddrLen(b) - s
      <4>1. PICK k \in Nat : k = AddrLen(b) /\ s < k  BY <2>2, <2>3
      <4>2. k - s \in Nat  BY <4>1
      <4>3. QED  BY <4>1, <4>2
    <3>2. PICK y \in Nat : y = load.len  BY <1>3
    <3>3. wlen = Min({x, y})  BY <2>1, <2>3, <3>1, <3>2
    <3>4. Min({x, y}) = IF x <= y THEN x ELSE y  BY DEF Min
    <3>5. QED  BY <3>1, <3>2, <3>3, <3>4
  <2>5. UInt(load.addr + load.len) = load.addr + load.len
    <3>1. load.program[1] + load.program[2] < 2^AddrBits  BY <1>2 DEF ProgramFits
    <3>2. PICK M \in Nat : M = 2^AddrBits /\ M > 0
      <4>1. AddrBits \in Nat  BY LoadAssumption
      <4>2. QED  BY <4>1, PowerPositive
    <3>3. PICK x \in Nat : x = load.addr + load.len /\ x < M  BY <1>2, <1>3, <3>1, <3>2
    <3>4. x % M = x  BY <3>2, <3>3, Z3
    <3>5. QED  BY <3>2, <3>3, <3>4 DEF UInt
  <2>6. loaded' = loaded \cup Served(b, s, load.buf, w)
    BY <1>4, <1>7, <2>1, <2>3, <2>4 DEF Served
  <2>7. load' = IF load.addr + load.len > Above(b) THEN RestOf(b, s, w)
                ELSE [load EXCEPT !.result = "true"]
    BY <1>4, <1>7, <2>1, <2>3, <2>4, <2>5
  <2> HIDE DEF hit, c, start, wlen
  <2>8. CASE load.addr + load.len > Above(b)
    <3>1. w < load.len /\ Above(b) = load.addr + w  BY <1>3, <2>2, <2>3, <2>4, <2>8
    <3>2. load' = [load EXCEPT !.addr = load.addr + w, !.buf = load.buf + w,
                               !.len = load.len - w]
      BY <1>2, <2>7, <2>8, <3>1 DEF RestOf
    <3>3. QED  BY <1>1, <1>2, <2>3, <2>6, <3>1, <3>2
  <2>9. CASE ~(load.addr + load.len > Above(b))
    <3>1. w = load.len  BY <1>3, <2>2, <2>3, <2>4, <2>9
    <3>2. load' = [load EXCEPT !.result = "true"]  BY <2>7, <2>9
    <3>3. QED  BY <1>1, <1>2, <2>3, <2>6, <3>1, <3>2
  <2>10. QED  BY <2>8, <2>9
<1>8. QED  BY <1>6, <1>7

LEMMA ServedType ==
  ASSUME NEW K, NEW c \in K, NEW start \in Nat, NEW wlen \in Nat, NEW buf \in Nat
  PROVE  Served(c, start, buf, wlen) \subseteq K \X Nat \X Nat
<1>1. \A i \in 0..wlen - 1 : start + i \in Nat /\ buf + i \in Nat  OBVIOUS
<1>2. QED  BY <1>1 DEF Served

(* What is served by one step: the places from load.buf on, once each.     *)
LEMMA ServedEach ==
  ASSUME NEW c, NEW start \in Nat, NEW wlen \in Nat, NEW buf \in Nat,
         NEW o \in Served(c, start, buf, wlen)
  PROVE  /\ o[1] = c /\ o[2] + buf = start + o[3]
         /\ buf <= o[3] /\ o[3] < buf + wlen /\ o[3] \in Nat
         /\ o = <<c, start + (o[3] - buf), o[3]>>
<1>1. PICK i \in 0..wlen - 1 : o = <<c, start + i, buf + i>>  BY DEF Served
<1>2. i \in Nat /\ i < wlen  OBVIOUS
<1>3. QED  BY <1>1, <1>2

LEMMA ServedPlaces ==
  ASSUME NEW S, NEW c, NEW start \in Nat, NEW wlen \in Nat, NEW buf \in Nat,
         Places(S) = 0..buf - 1
  PROVE  Places(S \cup Served(c, start, buf, wlen)) = 0..(buf + wlen) - 1
<1> DEFINE N == Served(c, start, buf, wlen)
<1>1. ASSUME NEW o \in S PROVE o[3] \in 0..buf - 1  BY DEF Places
<1>2. \A o \in S : o[3] \in Nat /\ o[3] < buf  BY <1>1
<1>3. \A o \in N : buf <= o[3] /\ o[3] < buf + wlen /\ o[3] \in Nat  BY ServedEach
<1>4. ASSUME NEW j \in 0..(buf + wlen) - 1 PROVE \E o \in S \cup N : o[3] = j
  <2>1. CASE j < buf
    <3>1. j \in 0..buf - 1  BY <2>1
    <3>2. \E o \in S : o[3] = j  BY <3>1 DEF Places
    <3>3. QED  BY <3>2
  <2>2. CASE ~(j < buf)
    <3>1. PICK i \in 0..wlen - 1 : buf + i = j
      <4>1. j - buf \in 0..wlen - 1 /\ buf + (j - buf) = j  BY <2>2
      <4>2. QED  BY <4>1
    <3>2. <<c, start + i, buf + i>> \in N  BY DEF Served
    <3>3. <<c, start + i, buf + i>>[3] = j  BY <3>1
    <3> HIDE DEF N
    <3>4. QED  BY <3>2, <3>3
  <2>3. QED  BY <2>1, <2>2
<1>5. \A o \in S \cup N : o[3] \in 0..(buf + wlen) - 1
  <2> HIDE DEF N
  <2>1. QED  BY <1>2, <1>3
<1>6. QED
  <2> HIDE DEF N
  <2>1. Places(S \cup N) = 0..(buf + wlen) - 1  BY <1>4, <1>5 DEF Places
  <2>2. QED  BY <2>1 DEF N

(* All other steps leave what is loaded alone, but for the call of load(). *)
LEMMA NotLoading ==
  ASSUME [Next]_vars, ~LoadStep
  PROVE  \/ /\ load' = load /\ loaded' = loaded
            /\ call'.op = "load" => call.op = "load"
            /\ call.op = "load" => call'.op = "load"
         \/ \E p \in Program :
              /\ load.result = "none" /\ call.op = "none" /\ call'.op = "load" /\ loaded' = loaded
              /\ load' = [program |-> p, addr |-> p[1], len |-> p[2], buf |-> 0, result |-> "none"]
<1>1. CASE ListClocks  BY <1>1 DEF ListClocks, benchVars
<1>2. CASE Construct  BY <1>2 DEF Construct
<1>3. CASE CallTick \/ CallTickOf \/ CallReset
  BY <1>3 DEF CallTick, CallTickOf, CallReset, Called
<1>4. CASE CallLoad  BY <1>4 DEF CallLoad, Called
<1>5. CASE RunTick
  <2>1. call.op # "load" /\ load' = load /\ loaded' = loaded
    BY <1>5 DEF RunTick, benchVars
  <2>2. call' \in {call, NoCall}  BY <1>5, RunTickFacts DEF benchVars
  <2>3. QED  BY <2>1, <2>2 DEF NoCall
<1>6. CASE UNCHANGED vars  BY <1>6 DEF vars, benchVars
<1>7. QED  BY <1>1, <1>2, <1>3, <1>4, <1>5, <1>6 DEF Next, Run

LEMMA LoadingKept ==
  ASSUME MemoriesFit, ProgramFits, ClockTypes, Loading, [Next]_vars
  PROVE  Loading'
<1> DEFINE Load == [program : Nat \X Nat, addr : Nat, len : Nat, buf : Nat,
                    result : {"none", "true", "false"}]
<1>1. design \in Designs /\ design' = design /\ Loadable' = Loadable
  BY ClockSteps DEF ClockTypes, Loadable, Comps
<1>2. /\ load \in Load /\ loaded \subseteq Loadable \X Nat \X Nat
      /\ call.op = "load" => load.result = "none" /\ load.program \in Program
      /\ call.op # "load" /\ load.result = "none" => load = NoLoad /\ loaded = {}
      /\ load.result = "none" =>
           /\ load.addr = load.program[1] + load.buf
           /\ load.len + load.buf = load.program[2] /\ (load.buf > 0 => load.len > 0)
           /\ Places(loaded) = 0..load.buf - 1
  BY DEF Loading
<1>3. CASE ~LoadStep
  <2>1. CASE /\ load' = load /\ loaded' = loaded
             /\ call'.op = "load" => call.op = "load"
             /\ call.op = "load" => call'.op = "load"
    BY <1>1, <1>2, <2>1 DEF Loading
  <2>2. ASSUME NEW p \in Program, load.result = "none", call.op = "none", call'.op = "load",
               loaded' = loaded,
               load' = [program |-> p, addr |-> p[1], len |-> p[2], buf |-> 0, result |-> "none"]
        PROVE  Loading'
    <3>1. p \in Nat \X Nat  BY LoadAssumption
    <3>2. load' \in Load  BY <2>2, <3>1
    <3>3. loaded' = {}  BY <1>2, <2>2
    <3>4. Places(loaded') = 0..0 - 1  BY <3>3 DEF Places
    <3>5. load'.addr = p[1] + 0 /\ load'.len + 0 = p[2]  BY <2>2, <3>1
    <3>6. QED  BY <1>1, <2>2, <3>2, <3>3, <3>4, <3>5 DEF Loading
  <2>3. QED  BY <1>3, <2>1, <2>2, NotLoading
<1>4. CASE LoadStep
  <2>1. /\ call.op = "load" /\ load.result = "none"
        /\ call' = IF load'.result = "none" THEN call ELSE NoCall
    BY <1>1, <1>4, LoadStepFacts
  <2>2. CASE load' = [load EXCEPT !.result = "false"] /\ loaded' = loaded
    <3>1. load' \in Load /\ load'.result = "false"  BY <1>2, <2>2
    <3>2. call'.op = "none"  BY <2>1, <3>1 DEF NoCall
    <3>3. QED  BY <1>1, <1>2, <2>2, <3>1, <3>2 DEF Loading
  <2>3. ASSUME NEW c \in Loadable, NEW start \in Nat, NEW wlen \in Nat,
               loaded' = loaded \cup Served(c, start, load.buf, wlen),
               \/ /\ wlen < load.len
                  /\ load' = [load EXCEPT !.addr = load.addr + wlen, !.buf = load.buf + wlen,
                                          !.len = load.len - wlen]
               \/ wlen = load.len /\ load' = [load EXCEPT !.result = "true"]
        PROVE  Loading'
    <3>1. PICK buf \in Nat : buf = load.buf  BY <1>2
    <3>2. /\ loaded' \subseteq Loadable \X Nat \X Nat
          /\ Places(loaded') = 0..(buf + wlen) - 1
      <4>1. loaded' = loaded \cup Served(c, start, buf, wlen)  BY <2>3, <3>1
      <4>2. loaded \subseteq Loadable \X Nat \X Nat /\ Places(loaded) = 0..buf - 1
        BY <1>2, <2>1, <3>1
      <4>3. /\ loaded \cup Served(c, start, buf, wlen) \subseteq Loadable \X Nat \X Nat
            /\ Places(loaded \cup Served(c, start, buf, wlen)) = 0..(buf + wlen) - 1
        <5>1. Served(c, start, buf, wlen) \subseteq Loadable \X Nat \X Nat
          BY ServedType
        <5>2. Places(loaded \cup Served(c, start, buf, wlen)) = 0..(buf + wlen) - 1
          <6>1. PICK S : S = loaded  OBVIOUS
          <6>2. Places(S) = 0..buf - 1  BY <4>2, <6>1
          <6>3. Places(S \cup Served(c, start, buf, wlen)) = 0..(buf + wlen) - 1
            BY <6>2, ServedPlaces
          <6>4. QED  BY <6>1, <6>3
        <5>3. QED  BY <4>2, <5>1, <5>2
      <4>4. QED  BY <4>1, <4>3
    <3>3. CASE load' = [load EXCEPT !.result = "true"]
      <4>1. load' \in Load /\ load'.result = "true"  BY <1>2, <3>3
      <4>2. call'.op = "none"  BY <2>1, <4>1 DEF NoCall
      <4>3. QED  BY <1>1, <3>2, <4>1, <4>2 DEF Loading
    <3>4. CASE /\ wlen < load.len
               /\ load' = [load EXCEPT !.addr = load.addr + wlen, !.buf = load.buf + wlen,
                                       !.len = load.len - wlen]
      <4>1. PICK len \in Nat, addr \in Nat : len = load.len /\ addr = load.addr  BY <1>2
      <4>2. /\ load.program \in Nat \X Nat
            /\ load.program[1] \in Nat /\ load.program[2] \in Nat
        BY <1>2
      <4>3. len - wlen \in Nat /\ len - wlen > 0  BY <3>4, <4>1
      <4>4. /\ load' \in Load
            /\ load'.result = "none" /\ load'.program = load.program
            /\ load'.addr = addr + wlen /\ load'.buf = buf + wlen /\ load'.len = len - wlen
        <5>1. load' = [load EXCEPT !.addr = addr + wlen, !.buf = buf + wlen, !.len = len - wlen]
          BY <3>1, <3>4, <4>1
        <5>2. PICK a \in Nat, b \in Nat, l \in Nat : a = addr + wlen /\ b = buf + wlen /\ l = len - wlen
          BY <4>3
        <5>3. load' = [load EXCEPT !.addr = a, !.buf = b, !.len = l]  BY <5>1, <5>2
        <5>4. QED  BY <1>2, <2>1, <5>2, <5>3
      <4>5. call' = call /\ call'.op = "load"  BY <2>1, <4>4
      <4>6. /\ load'.addr = load'.program[1] + load'.buf
            /\ load'.len + load'.buf = load'.program[2]
        <5>1. PICK a \in Nat, n \in Nat : a = load.program[1] /\ n = load.program[2]  BY <4>2
        <5>2. addr = a + buf /\ len + buf = n  BY <1>2, <2>1, <3>1, <4>1, <5>1
        <5>3. addr + wlen = a + (buf + wlen) /\ (len - wlen) + (buf + wlen) = n  BY <5>2
        <5>4. QED  BY <4>4, <5>1, <5>3
      <4>7. load'.len > 0 /\ Places(loaded') = 0..load'.buf - 1
        BY <3>2, <4>3, <4>4
      <4>8. load'.program \in Program  BY <1>2, <2>1, <4>4
      <4>9. QED  BY <1>1, <3>2, <4>4, <4>5, <4>6, <4>7, <4>8 DEF Loading
    <3>5. QED  BY <2>3, <3>3, <3>4
  <2>4. QED  BY <1>1, <1>4, <2>2, <2>3, LoadStepFacts
<1>5. QED  BY <1>3, <1>4

(* There is a memory at an address, and not two.                           *)
There(a) == \E c \in Loadable : design[c].simload[1].defined /\ Holds(c, a)

LEMMA OneHolds ==
  ASSUME MemoriesFit, MemoriesApart, design \in Designs,
         NEW b \in Loadable, NEW c \in Loadable, NEW a \in Nat, Holds(b, a), Holds(c, a)
  PROVE  b = c
<1>1. /\ b \in DOMAIN design /\ c \in DOMAIN design
      /\ <<>> \notin {design[b].simload, design[c].simload}
  BY DEF Loadable, Comps
<1>2. /\ Base(b) \in Nat /\ AddrLen(b) \in Nat /\ Base(b) <= a /\ a < Base(b) + AddrLen(b)
      /\ Base(c) \in Nat /\ AddrLen(c) \in Nat /\ Base(c) <= a /\ a < Base(c) + AddrLen(c)
  BY MemoryFacts
<1>3. b # c => Base(b) + AddrLen(b) <= Base(c) \/ Base(c) + AddrLen(c) <= Base(b)
  BY <1>1 DEF MemoriesApart, Octets, Base, AddrLen
<1>4. QED  BY <1>2, <1>3

LEMMA InPlaceKept ==
  ASSUME MemoriesFit, ProgramFits, MemoriesApart, ClockTypes, Loading, LoadedInPlace, [Next]_vars
  PROVE  LoadedInPlace'
<1>1. /\ design \in Designs /\ design' = design /\ Loadable' = Loadable
      /\ \A c : Base(c)' = Base(c) /\ \A a : There(a)' = There(a)
  BY ClockSteps DEF ClockTypes, Loadable, Comps, Base, There, Holds, Above, AddrLen, UInt
<1>2. /\ \A o \in loaded : /\ Base(o[1]) + o[2] = load.program[1] + o[3]
                           /\ o[3] < load.program[2]
      /\ \A o, p \in loaded : o[3] = p[3] => o = p
      /\ load.result = "true" => Places(loaded) = 0..load.program[2] - 1
      /\ load.result = "false" => \/ ~There(load.program[1])
                                  \/ \E i \in 1..load.program[2] - 1 : ~There(load.program[1] + i)
  BY DEF LoadedInPlace, There, Places
<1>3. SUFFICES
        /\ \A o \in loaded' : /\ Base(o[1]) + o[2] = load'.program[1] + o[3]
                              /\ o[3] < load'.program[2]
        /\ \A o, p \in loaded' : o[3] = p[3] => o = p
        /\ load'.result = "true" => Places(loaded') = 0..load'.program[2] - 1
        /\ load'.result = "false" =>
             \/ ~There(load'.program[1])
             \/ \E i \in 1..load'.program[2] - 1 : ~There(load'.program[1] + i)
  BY <1>1 DEF LoadedInPlace, There, Places, Base, Holds, Above, AddrLen, UInt
<1>4. CASE ~LoadStep
  <2>1. CASE load' = load /\ loaded' = loaded  BY <1>2, <2>1
  <2>2. CASE load.result = "none" /\ call.op = "none" /\ loaded' = loaded /\ load'.result = "none"
    <3>1. loaded' = {}  BY <2>2 DEF Loading
    <3>2. QED  BY <2>2, <3>1
  <2>3. QED  BY <1>4, <2>1, <2>2, NotLoading
<1>5. CASE LoadStep
  <2>1. call.op = "load" /\ load.result = "none"  BY <1>1, <1>5, LoadStepFacts
  <2>2. /\ load \in [program : Nat \X Nat, addr : Nat, len : Nat, buf : Nat,
                     result : {"none", "true", "false"}]
        /\ load.addr = load.program[1] + load.buf
        /\ load.len + load.buf = load.program[2] /\ (load.buf > 0 => load.len > 0)
        /\ loaded \subseteq Loadable \X Nat \X Nat /\ Places(loaded) = 0..load.buf - 1
    BY <2>1 DEF Loading
  <2>3. PICK first \in Nat, n \in Nat, buf \in Nat, len \in Nat :
          /\ load.program[1] = first /\ load.program[2] = n /\ load.buf = buf /\ load.len = len
          /\ load.addr = first + buf /\ len + buf = n /\ (buf > 0 => len > 0)
    BY <2>2
  <2>4. CASE /\ load' = [load EXCEPT !.result = "false"] /\ loaded' = loaded
             /\ \/ \A c \in Loadable : ~Holds(c, load.addr)
                \/ \E c \in Loadable : Holds(c, load.addr) /\ ~design[c].simload[1].defined
    <3>1. load'.program = load.program /\ load'.result = "false"  BY <2>2, <2>4
    <3>2. ~There(first + buf)
      <4>1. CASE \A c \in Loadable : ~Holds(c, load.addr)  BY <2>3, <4>1 DEF There
      <4>2. CASE \E c \in Loadable : Holds(c, load.addr) /\ ~design[c].simload[1].defined
        <5>1. PICK c \in Loadable : Holds(c, first + buf) /\ ~design[c].simload[1].defined
          BY <2>3, <4>2
        <5>2. \A b \in Loadable : Holds(b, first + buf) => b = c
          <6>1. first + buf \in Nat  OBVIOUS
          <6>2. QED  BY <1>1, <5>1, <6>1, OneHolds
        <5>3. QED  BY <5>1, <5>2 DEF There
      <4>3. QED  BY <2>4, <4>1, <4>2
    <3>3. ~There(first) \/ \E i \in 1..n - 1 : ~There(first + i)
      <4>1. CASE buf = 0
        <5>1. first + buf = first  BY <4>1
        <5>2. QED  BY <3>2, <5>1
      <4>2. CASE buf # 0
        <5>1. buf \in 1..n - 1  BY <2>3, <4>2
        <5>2. QED  BY <3>2, <5>1
      <4>3. QED  BY <4>1, <4>2
    <3>4. QED  BY <1>2, <2>3, <2>4, <3>1, <3>3
  <2>5. ASSUME NEW c \in Loadable, NEW start \in Nat, NEW wlen \in Nat,
               Base(c) + start = load.addr,
               loaded' = loaded \cup Served(c, start, load.buf, wlen),
               \/ /\ wlen < load.len
                  /\ load' = [load EXCEPT !.addr = load.addr + wlen, !.buf = load.buf + wlen,
                                          !.len = load.len - wlen]
               \/ wlen = load.len /\ load' = [load EXCEPT !.result = "true"]
        PROVE  /\ \A o \in loaded' : /\ Base(o[1]) + o[2] = load'.program[1] + o[3]
                                     /\ o[3] < load'.program[2]
               /\ \A o, p \in loaded' : o[3] = p[3] => o = p
               /\ load'.result = "true" => Places(loaded') = 0..load'.program[2] - 1
               /\ load'.result # "false"
    <3>1. /\ load'.program = load.program /\ load'.result \in {"none", "true"}
          /\ load'.result = "true" => wlen = len
          /\ wlen <= len
      <4>1. CASE /\ wlen < load.len
                 /\ load' = [load EXCEPT !.addr = load.addr + wlen, !.buf = load.buf + wlen,
                                         !.len = load.len - wlen]
        <5>1. load'.program = load.program /\ load'.result = "none"  BY <2>1, <2>2, <4>1
        <5>2. QED  BY <2>3, <4>1, <5>1
      <4>2. CASE wlen = load.len /\ load' = [load EXCEPT !.result = "true"]
        <5>1. load'.program = load.program /\ load'.result = "true"  BY <2>2, <4>2
        <5>2. QED  BY <2>3, <4>2, <5>1
      <4>3. QED  BY <2>5, <4>1, <4>2
    <3>2. PICK N : N = Served(c, start, buf, wlen) /\ loaded' = loaded \cup N
      BY <2>3, <2>5
    <3>3. /\ Places(loaded \cup N) = 0..(buf + wlen) - 1
          /\ \A o \in loaded : o[3] < buf
          /\ \A o \in N : o[1] = c /\ o[2] + buf = start + o[3] /\ buf <= o[3] /\ o[3] < buf + wlen
          /\ \A o, p \in N : o[3] = p[3] => o = p
      <4>1. loaded \subseteq Loadable \X Nat \X Nat /\ Places(loaded) = 0..buf - 1
        BY <2>2, <2>3
      <4>2. Places(loaded \cup Served(c, start, buf, wlen)) = 0..(buf + wlen) - 1
        <5>1. PICK S : S = loaded  OBVIOUS
        <5>2. Places(S) = 0..buf - 1  BY <4>1, <5>1
        <5>3. Places(S \cup Served(c, start, buf, wlen)) = 0..(buf + wlen) - 1
          BY <5>2, ServedPlaces
        <5>4. QED  BY <5>1, <5>3
      <4>3. ASSUME NEW o \in loaded PROVE o[3] < buf
        <5>1. o[3] \in Places(loaded)  BY DEF Places
        <5>2. QED  BY <4>1, <5>1
      <4>4. ASSUME NEW o \in N
            PROVE  /\ o[1] = c /\ o[2] + buf = start + o[3] /\ buf <= o[3] /\ o[3] < buf + wlen
                   /\ o = <<c, start + (o[3] - buf), o[3]>>
        <5>1. o \in Served(c, start, buf, wlen)  BY <3>2
        <5>2. QED  BY <5>1, ServedEach
      <4>5. \A o, p \in N : o[3] = p[3] => o = p  BY <4>4
      <4>6. QED  BY <3>2, <4>2, <4>3, <4>4, <4>5
    <3>4. N \subseteq Loadable \X Nat \X Nat  BY <3>2, ServedType
    <3>5. \A o \in loaded : o[3] \in Nat  BY <2>2
    <3>6. \A o \in N : o[2] \in Nat /\ o[3] \in Nat  BY <3>4
    <3>7. ASSUME NEW o \in N PROVE Base(o[1]) + o[2] = first + o[3] /\ o[3] < n
      <4>1. PICK b \in Nat : b = Base(c)  BY <1>1, MemoryFacts
      <4>2. PICK x \in Nat, y \in Nat : x = o[2] /\ y = o[3]  BY <3>6
      <4>3. x + buf = start + y /\ y < buf + wlen /\ o[1] = c  BY <3>3, <4>2
      <4>4. b + start = first + buf  BY <2>3, <2>5, <4>1
      <4>5. b + x = first + y /\ y < n  BY <2>3, <3>1, <4>3, <4>4
      <4>6. QED  BY <4>1, <4>2, <4>3, <4>5
    <3>8. \A o \in loaded : \A p \in N : o[3] # p[3]  BY <3>3, <3>5, <3>6
    <3>9. \A o, p \in loaded \cup N : o[3] = p[3] => o = p  BY <1>2, <3>3, <3>8
    <3>10. wlen = len => buf + wlen = n  BY <2>3
    <3>11. QED  BY <1>2, <2>3, <3>1, <3>2, <3>3, <3>7, <3>9, <3>10
  <2>6. QED  BY <1>1, <1>5, <2>4, <2>5, LoadStepFacts
<1>6. QED  BY <1>4, <1>5

(* load() copies each octet once, to the address it is to be loaded at as  *)
(* the bus sees it; it returns true if all of them have been copied, and   *)
(* false only if there is no memory at one of the addresses.               *)
THEOREM LoadsInPlace ==
  MemoriesFit /\ MemoriesApart /\ ProgramFits => (Spec => []LoadedInPlace)
<1> SUFFICES ASSUME MemoriesFit, MemoriesApart, ProgramFits PROVE Spec => []LoadedInPlace
  OBVIOUS
<1> DEFINE Inv == ClockTypes /\ Loading /\ LoadedInPlace
<1>1. Init => Inv
  <2>1. Init => load = NoLoad /\ loaded = {} /\ call.op = "none"
    BY DEF Init, NoCall
  <2>2. Init => Loading
    <3>1. Places({}) = 0..0 - 1  BY DEF Places
    <3>2. /\ NoLoad \in [program : Nat \X Nat, addr : Nat, len : Nat, buf : Nat,
                          result : {"none", "true", "false"}]
          /\ NoLoad.addr = NoLoad.program[1] + NoLoad.buf
          /\ NoLoad.len + NoLoad.buf = NoLoad.program[2] /\ ~(NoLoad.buf > 0)
          /\ NoLoad.buf = 0
      BY DEF NoLoad
    <3>3. QED  BY <2>1, <3>1, <3>2 DEF Loading
  <2>3. Init => LoadedInPlace  BY <2>1 DEF LoadedInPlace, NoLoad
  <2>4. QED  BY <2>2, <2>3, ClockTypesFirst
<1>2. Inv /\ [Next]_vars => Inv'  BY ClockTypesKept, LoadingKept, InPlaceKept
<1>3. QED  BY <1>1, <1>2, PTL DEF Spec
=============================================================================
