# A verification project for AutoFPGA

AutoFPGA (`src/sw`) reads a set of component descriptions and composes a
design from them: it lays out the addresses of every bus, assigns interrupts,
works out clocks and dependencies, evaluates expressions, and writes Verilog,
C++ and linker files.  The program is sequential and runs once.  What makes it
hard is not threads: it is a pipeline of passes over one mutable key-value
database, most of them in the unspecified order of a hash table
(`MAPDHASH` is a `std::unordered_map`), whose output is hardware and software
that run with no checks of their own.  A layout that is wrong by one bit, or
right in one order of the table only, is found on a board, if at all.

Two kinds of modules follow from this.  Some model the program, with the order
of its tables left open; others model what it writes (the logic of a bus, the
simulation, the address map), generated by the same module from the same
design, and run it.

## 1. Inventory

The order of the run (`autofpga.cpp:1771-1929`): parse every file, merge the maps,
flatten, turn known keys into integers, `reeval`, `assign_interrupts`,
`reeval`, `find_clocks`, `build_bus_list` (which ends with the address
assignment of every bus), `reeval`, write the outputs.

| component | state | operations | what is hard | what makes it correct | module |
|---|---|---|---|---|---|
| Parser, `parser.cpp` | file stack, current key and component | one line of a file, `INCLUDEFILE` | files that include each other | every key ends in the map of its component | `Database` |
| Key-value database, `mapdhash.cpp` | a tree of hash tables | `addtomap`, `mergemaps`, `flatten`, `cvtintbykeylist`, `setvalue` | keys appended to before they exist, tables that change while they are walked | merging loses no text and no key; a component inherits what it lacks | `Database` |
| Evaluation, `kveval.cpp`, `ast.cpp` | the database, a "changed" flag | `reeval`: evaluation, substitution of `@$(KEY)` | fixed point of passes, circles, keys added between calls | ends; nothing is filled in from the wrong scope or too early | `Reeval` |
| Interrupts, `autofpga.cpp:144-420` | per controller a list and a vector | `PICINFO::add`, `assignids` | two counters, hash order | the IDs written are those wired | `PicAssign` |
| Clocks, `clockinfo.cpp` | a vector of clocks | `find_clocks` | descriptions in pieces, a default clock | one clock per name, everything said of it kept | `Clocks` |
| Bus list, `businfo.cpp` | buses, their masters and slaves | `merge`, `addmaster`, `addperipheral` | a walk that restarts after each change | the same bus whatever the order of its tags | `BusList` |
| Address assignment, `plist.cpp` | slaves of one bus, base and mask of each | `assign_addresses` | powers of two, minimal masks | the masks decode the owner of each address | `AddrAssign` |
| Hierarchy, `subbus.cpp`, `businfo.cpp` | the widths of buses below buses | recursion of `assign_addresses` | widths asked for before all is known | a bus fits below its master | `BusTree` |
| Register definitions, linker script, cachable regions, `gather.cpp`, `bldregdefs.cpp`, `bldboardld.cpp`, `bldcachable.cpp` | `REGBASE` in the maps | walks of the tree of buses | sums and shifts over nested buses | software uses the addresses that the decoders answer | `BusTree` |
| Sub-buses, `bus/wb.cpp`, `axil.cpp`, `axi.cpp` | three lists of slaves of a bus | `allocate_subbus` | a list erased while it is walked | no slave lost, none that may stall moved | `Subbus` |
| Bus logic, `bus/*.cpp`, `genbus.cpp` | the text printed so far | `writeout_bus_logic_v` and the ports | sections that return early, on conditions made elsewhere | every wire has one driver, every slave is reached | `Wiring` |
| Generated Wishbone replies, `bus/wb.cpp:875-1182` | registers of the design | acknowledge and data of SINGLE and DOUBLE slaves | pipelined requests, aborted cycles | each request is answered once, in order, with its data | `WbReply` |
| Access lines, `ifdefs.cpp` | macros defined so far | the three groups of `` `define `` lines | order of lines, hash order | a macro is defined when its dependencies are | `AccessDeps` |
| Generated test bench, `bldtestb.cpp`, `bldsim.cpp` | time, clocks, `i_reset` | `tick`, `tick_<clock>`, `reset`, `load` | edges of several clocks merged, unsigned lengths | each component is ticked on its clock; the calls return | `TestBench` |
| Text emission (`bldrtlmake.cpp`, `legalnotice.cpp`, `msgs.cpp` and the like) | none | copy tags to files | nothing that has state | not modelled | |

Components interact through the database (a later pass reads the keys an
earlier one has written back) and, for buses, through pointers: a `SUBBUS` is a
slave of one bus and the master of another, so that the address width of the
lower bus is an input of the assignment of the upper one.

The behaviours that a test hardly reaches, with their lines and the properties
that cover them, are the `hazards` of `PROJECT.json`.

## 2. Plan

Written, in this order:

1. `Bitlib`, `AddrAssign`, refining `AddrMap`; `Lemmas`,
   `AddrAssignProofs`.
2. `PicAssign`, refining `IntVector`; `PicAssignProofs`.
3. `AccessDeps`; `AccessDepsProofs`.
4. `Subbus`; `SubbusProofs`, which is also about `Wiring`.
5. `WbReply`, with names that `Wiring` does not have; its proofs are in `SubbusProofs`
   too, which extends both.
6. `BusList`; `BusListProofs`.
7. `BusTree`, which extends `AddrAssign` and runs it bus by bus; its proofs are at the
   end of `AddrAssignProofs`, which need those of one bus.
8. `Reeval`; `ReevalProofs`.
9. `Clocks`, and `TestBench`, which runs the simulation generated from it;
   `TestBenchProofs`, about both.
10. `Database`; its proofs are at the end of `ReevalProofs`, for both are about the one
   database.
11. `Wiring`, which extends `Subbus` to the logic printed for its lists.

## 3. The modules

Most modules state a type invariant, `TypeOK`.  Those of `AddrAssign`,
`PicAssign`, `AccessDeps`, `Subbus` and `BusList` are theorems, and so is `TreeTypeOK`
of `BusTree`, which also says that a bus that has its addresses is not assigned again, nor
twice at a time; the others say what the variables are and hold on the instances below.
No run lists them.

### 3.1 Address assignment

`AddrAssign` is `PLIST::assign_addresses`.  A behaviour assigns one bus.

| code | module |
|---|---|
| `dw`, `nullsz`, `bus_min_address_width` | `bus` (word addressed or not, log of the bytes of a word, null space, minimum width) |
| `this`, a list of `PERIPH` | `list`; a slave has a name, `NADDR` and an optional `SLAVE.ORDER` |
| `std::sort(begin(), end(), compare_naddr)` | `SortSlaves`, any permutation `CompareNAddr` does not contradict |
| loop at 520-539 | `Search`, one turn each; `SearchDone` |
| loop at 552-596 | `Assign`, one slave each |
| loop at 597-642 | `Trim` |
| `p_base`, `p_mask` | `place`, `mask` (the range of bits that the mask has set) |

The properties: no two slaves share an octet (`SlavesDisjoint`); the trimmed
masks decode exactly the owner of each bus address (`DecodesOwner`); slaves get
the address lines they need, above the null space and below the end of the bus,
`SLAVE.ORDER` is the order of the addresses, and the width that the search
estimates is the width the layout ends with (`LayoutAsAsked`, of `RoomForSlaves`,
`OrderHonoured` and `EstimateExact`); the assignment refines `AddrMap`, and ends.
`DecodesOwner` is the property that matters: it relates masks, bases and widths
that four loops compute separately.

Bounds: up to four slaves, `NADDR` up to 16, five Wishbone and two AXI-lite
buses with null spaces that are absent, shorter than a word, unaligned and
wider than a slave, one minimum width above what is needed; `AddrBits`, 10, is small
enough for TLC (32 in the code), and larger than every width that the lists
reach, so that the search ends as it does with 32.  Overlap needs two
slaves, an alignment gap three.  Buses of one octet are left out (section 6).

### 3.2 Interrupts

`PicAssign` is `assign_interrupts` with `PICINFO::add` and `assignids`.  `ilist`
and `alist` are `i_ilist` and `i_alist`, a pointer being a place in the list;
`nassigned` and `nallocated` are the counters.  The order in which controllers,
components and lines are visited is chosen by the model, as the hash tables do.

The properties: the vector and the list agree (`VectorMatchesList`), the
counter that guards the vector counts it (`CountsFilled`), the IDs written back
are those that are wired (`IdentIsWired`), the whole refines `IntVector`, and it
ends, with positions named in `INT.<name>.ID` given to lines that name them and
as many lines placed as fit, in whatever order (`LinesServed`).

Bounds: two controllers of up to three positions and four lines, with one line
named by two controllers, one twice in one list, IDs equal and out of bounds.
Every guard of `add` is met from both sides.

### 3.3 Access lines

`AccessDeps` is `build_access_ifdefs_v`, with the erase and restart of its walk
over the table, and `Preprocess`, what the Verilog preprocessor makes of the
lines.  What is written is `text`, a sequence of blocks: a block is the `` `define ``
lines of one component (its `macros`), between the `` `ifdef `` lines of its `DEPENDS`
tag (its `guards`).  The properties compare the two: after the user has commented out any
set of macros, the lines define exactly what the tags call for, for designs
that are `Plain` (`DefinesWhatTagsCallFor`); in all designs no
macro is defined whose positive dependencies are not (`OnlyIfDependenciesHold`);
and the passes end.  `Plain` designs have no negative dependencies, no macro that is
part of the name of another, and no `ACCESS` tag without a word in it: a component
with such a tag defines nothing, and the walk takes it for one that has brought
news.

Bounds: four components, every graph of dependencies with at most two each
over four macros, and every order of the hash table; a circle, a chain and a
diamond are among them.  No macro is part of the name of another.

### 3.4 Sub-buses and the logic that is printed for them

`Subbus` is `allocate_subbus` of the three bus classes with `countsio`,
`create_sio` and `create_dio`.  `plist`, `slist` and `dlist` are `m_plist`,
`m_slist` and `m_dlist`; the loop that moves slaves erases from the list it
walks, one action per turn.  `Wiring` goes on from the lists to
`writeout_bus_logic_v`.

| code | module |
|---|---|
| a section of `writeout_bus_logic_v`, with its condition | an action on `drivers`, `reads` and `links`; `wpc` is the place in the function |
| `SLAVE.PORTLIST`, `MASTER.PORTLIST` and their options `RO` and `WO` | `SlavePorts`, `MasterPorts`, in `Components` |
| `assign <slave>_<wire> = ...`, an output of an instance | an element of `drivers`: unit, wire, what drives it, at which place of a list, and the n-th time that the line is printed (`Repeated`) |
| `SLAVE_ADDR`, `SLAVE_MASK`, the ports of an instance: three loops | `SlaveAddr`, `SlaveMask` (both in `Table`) and `XbarconSlave` |
| a link: some logic between the units above it and its ports | `up`; `selects`, for each port the slaves whose addresses it takes; `down`, what it is connected to |
| what a port takes: of a crossbar, of the comparisons of Wishbone, of `axilsingle` | `Table`, `Strobes`, `ByIndex` |
| `wbxbar`, `axilxbar`, `axixbar`, `axilsingle`, `axildouble`, `axidouble`, `axi2axilite` | external: which ports are outputs, and that a request goes to the entry that matches |

The properties: no slave is lost or doubled (`OnOneList`); `allocate_subbus`
ends, none that may stall is moved, none that can be moved is left, and the
buses created create none themselves (`SlavesCollected`); when the logic is
written, every wire that anything reads has a driver, none has two different ones, and
no line is printed twice but the `arprot` of `DOUBLE` slaves of AXI4, three times
(`WiresDriven`); every master reaches every slave through the buses that were
created, by ports that take its address and no other, and no slave is connected
in two places (`EverySlaveReached`).  `axilsingle` is given no table: it has as
many address bits as count its ports, and takes a word address for the index of a
port.  Where the slaves of a list of registers are is `Word`: from 0 on, or where a
`NULLSZ` has moved the first of them to.

Bounds: every sequence of up to five slaves of the three kinds, on the three
classes; no, one or two masters; the first slave with each of the options; registers of
AXI-lite from address 0, and moved by a `NULLSZ` of 8 octets (two of them) or of 16 (three
or four).  Every comparison in the code is with 0, 1, 2 or the total.  `ClassLimit`, 50 in
the code, is an assertion that stops the program.  The designs of the run are
those of `Handled` in `Wiring`: the code is known to be incomplete for the
others, which the comment there lists and section 6 explains.  Run
`wiring_single` shows one of these.

### 3.5 The reply logic of a Wishbone bus

`WbReply` is not the program but what it prints: the registers, strobes and
selections that `WBBUS::writeout_bus_logic_v` writes for slaves of class
`SINGLE` and `DOUBLE`.  A step is a clock.

| generated text | module |
|---|---|
| `r_<bus>_sio_ack`, `r_<bus>_sio_data` | `sio_ack`, `sio_data` |
| `r_<bus>_dio_ack`, a shift register | `dio_ack`, `[0]` first |
| `r_<bus>_dio_bus_select`, `r_<bus>_dio_data` | `dio_bus_select` (from 0, as printed), `dio_data` |
| `assign <slave>_stb = ...` | `DioMatches`, `SioMatches`, `Strobed` |
| each `always @(posedge clk)` | an action on its registers; `ReplyNext` is all of them |
| the bus that the crossbar drives | `Drive`: any address, any cycle, aborted at will |

A list is what `assign_addresses` promises of it (`Placed`: aligned, apart, in
order, below what `nextlg()` can count), and a `DOUBLE` slave that is the bus of
`m_slist` has the address lines which that bus needs, so that the logic
is checked on the layouts that section 3.1 shows the program to produce.  `asked`
is a history variable, the requests of the cycle that wait for an answer, by
which the properties are stated: an answer belongs to the oldest request and has
the data of the slave at its address (`AnswersTheOldest`), answers on their way
are as many as requests that wait (`OneAnswerEach`), and a request strobes its
slave and no other (`StrobesOwner`), also through the SIO bus that is a slave of
the DIO bus.  Data are names of where they come from, so that an answer with the
data of another slave, or of another address, is seen.

Bounds: two to four slaves (three or four `SINGLE` ones, see section 6), sizes of
one to eight words, with and without a gap in the layout, with and without a
default in the selection, `OPT_LOWPOWER` on and off, each slave asked for its
first and last address.  The longest delay in the logic is two clocks, and the
crossbar may do anything in each: the whole state space has every overlap of two
requests and an abort.  The crossbar is assumed to keep to what Wishbone asks of
a master: no strobe without a cycle, no cycle after a reset.

### 3.6 The list of buses

`BusList` is `build_bus_list` up to the assignment of addresses.

| code | module |
|---|---|
| `BUS`, `SLAVE.BUS`, `MASTER.BUS` of a component | its `pieces`: nothing, a name, or a map of tags |
| `gbl_blist`, `BUSINFO`, `m_hash` | `buses`, records with `hash`; `Insert` does not replace, as `std::unordered_map::insert` |
| `checkforbusdefns`, `newbus_aux`, `init` | the actions `Check...` |
| a turn of the loop of `merge`, `REHASH; kvpair = bp->begin()` | `MergeTag`; `Restart` is 2, for the loop increments the iterator after the restart |
| replacing a piece by the map of the bus | `ref` |
| `assign_bus_master`, `assign_bus_slave`, `addmaster`, `addperipheral` | `AssignRefs`, `AddToBuses`, `AddAborts` (the assertions of `PLIST::add`) |

The properties: a tag on which the pieces of a bus agree has its value, in the
map and in the fields, whatever the others disagree on and whatever the order
(`DefinitionsMerged`); disagreements are reported, and only these
(`ConflictsReported`); slaves and masters end on the bus they name, which exists
once (`OnItsBus`); the walks that restart end (`Terminates`).

Bounds: two pieces of one bus from four sets of tags, with each order of the
tags of each, and a third piece for the same bus, another bus, or none; in one
component or two, in both orders of the components, with no default bus, or
either.  The restart skips the first tag, so that three tags are the least for
which a tag could be passed over; the pieces have three.  The pieces agree on
`NULLSZ` (section 6).

### 3.7 The tree of buses and its address map

`BusTree` adds the slaves to their buses (`AddSlave`) and then assigns the addresses
of buses below buses: `stack` holds the buses
whose assignment waits for that of a bus below, and each layout is made by the
actions of `AddrAssign`, whose variables are those of the bus on top of the stack.
A bridge that has an `NADDR` of its own is asked for its width when it is added
(`Asks`), which is before addresses may be assigned.  If the bus below has slaves by then, the
program stops in the assertion of `PLIST::assign_addresses` (`AddAborts`); if it has none,
it counts as assigned, and slaves that come to it later never get addresses
(`Lost`: what is written of these is not modelled).
When all are laid out, `RegDefs`, `LdFile`
and `Cachable` are the walks of `gather.cpp` with `bldregdefs.cpp`,
`bldboardld.cpp` and `bldcachable.cpp`, each with its own arithmetic.  What the
hardware does is stated apart from them: `Reached` follows an address through the
decoders, masks and address lines of every bus on the way.

The properties: the address of a register leads to its slave and to no other
(`RegsReachTheirSlave`); every octet of a range of the linker script leads to
the memory named (`RangesReachMemory`); an address is called cachable if and
only if it leads to a memory (`CachableIffMemory`); the recursion ends, with no
bus wider than the room its slave was given, or it stops or loses slaves, which happens only
because of a bridge with an `NADDR` and slaves of its bus that were added before or after it
(`SubbusFits`).

Run `bus_tree_early` shows the first of these: `assert(gbl_ready_for_address_assignment)`
(`plist.cpp:423`) does not hold (`AssignedWhenReady`) when a bridge with an `NADDR` is added
after a slave of its bus.

Bounds: trees of two and three buses, also two masters of one bus, of four
slaves in eight orders each (every pair in both orders), buses in both orders;
Wishbone of 32 and 64 bits and AXI-lite, with and without null spaces.  Three
buses are the least for a shift to be applied twice.  Bridges with an `NADDR` come before,
after and between the slaves of their bus, or have none; the words of the two buses are then of one
width, for the shift by a negative number that the code makes of a wider word above an empty
bus (`subbus.cpp:84`) is undefined.  `AddrBits`, 12, exceeds
every width reached.  Every slave below a bridge is on one path from the root,
a bridge has one bus, host and CPU see memories at one address (section 6).

### 3.8 Evaluation

`Reeval` is `reeval`: the walk that evaluates (`EvalExpr`, one expression
each; `EndEval`, which decides if there is another pass), the walk that substitutes
(`SubstString`, `SubstExpr`, `EndSubst`), and the calls of it by `main()`,
between which the program adds keys (`late`, `CallAgain`).  `changed` and
`subchanged` are the flags of the two levels of the walk, one of which is
overwritten; `ids` are the values identifiers keep in the syntax trees.  An
expression is a sum of its references and a number.

The properties compare with what the finished database means, by the nearest
definition of each name (`Meaning`, `Reading`): no expression ever has another
value (`EvaluatedRight`), no string without references left reads otherwise
(`StringsReadRight`), and after the last call all that has a meaning has it,
and no call runs for ever, also where definitions go round in circles
(`EvaluatedInTheEnd`).  `ast` are the expressions that have been parsed, which is a change
of its own; a string of the top level is stepped over by the walk that evaluates.

Where strings are looked up depends on how deep they stand (`Here`, `Nearest`).
Below a key of its component a string has the component searched first, and then the top;
directly in it (`Direct`), the top level first and then the component, and
`@$THIS` at the top level only: `kveval.cpp:428` passes on the map above.
`StringsReadRight` says what the code does, which is not what the comment on the search says,
"1. here ... 4. top" (`kveval.cpp:87-92`), of strings directly in a component (section 6).

Bounds: chains of three expressions over two components and the top level, that
end in an expression, an integer, a key added later, or nowhere; a name that is
defined near and far, read by strings at the top level, below a key of the component
and directly in it; a circle; in every order of the tables.  `Calls` is 3, as
in `main()` before the outputs are written.

### 3.9 Clocks and the simulation

`Clocks` is `find_clocks`: the lists that a component may give, read in parallel
(`UpdateClock`, `AddClock`, one name each), the default clock, `expand_clock`.
`TestBench` begins where it ends (`Construct`) and is the generated classes: the
program calls `tick`, `tick_<clock>`, `reset` and `load` as it likes, `Tick` is the
body of `tick()` for one clock or several, `RunTick` what each caller does around
it, `LoadStep` one level of the recursion of `load()`.  `TBCLOCK` is not in the
repository: its methods are those that `doc/icd.txt` lists, and what they do
is assumed (`Half`, `TimeToEdge`, `RisingEdge`, `Advance`, and the phase in `Construct`).  A
clock is taken to have half periods of the length of its period in ps, divided by two and
rounded down, and all clocks to start together, on a falling edge.  The generated
`assert(mintime > 1)` is an end of the run (in `RunTick`); whether clocks can
come to it depends on what is assumed here, and so no property is about it.

The properties: what is said of one clock is kept, what contradicts it is
reported (`ClocksMerged`); a component's `SIM.TICK` has run once for each period
of its own clock, whatever the other clocks (`TickedOnItsClock`);
`tick_<clock>()` returns at the next rise (`ReturnsAtNextRise`); `reset()` is seen
by the design at an edge (`ResetSeen`); `load()` puts each octet where its address
is, once, and is false only where no memory is (`LoadedInPlace`); every method
returns (`CallsReturn`).

Bounds: a second of 48 ps, so that periods are 8 to 16 ps; up to three
clocks described by three components in every order; one clock with an odd
period or with a class of its own; four memories, with neighbours and gaps, of
three widths; integers of 5 bits, for 32 in the code, for addresses that
stay in range; three calls (`MaxCalls`), of which the state that a call leaves
behind for the next is what matters, the position of the clocks.

### 3.10 The database and its files

`Database` is `parsefile`, `mergemaps`, `flatten` and `cvtintbykeylist`.  A table of
tables is a function from paths to values; what a walk does in the order of
the hash is a nondeterministic choice where the order can be seen: which keys
`mergemaps` meets before their twin with a "+" (`Early`), which key `flatten` visits
next (`FlattenPlus`, `FlattenGlobal`), children before their parents.  The program stops
where a `PREFIX` has no name, or that of a key of its file that has a text (`NameConflict`),
and where an included file is not one component and nothing else (`FlattenPlus`).  A key
"/K" is the key K of the whole database, wherever it stands (`FlattenGlobal`).

The properties: a key has the text of its definition followed by all that is
appended after it, in the order read, over all files (`AppendedInOrder`; what its own
file appends before it is defined is dropped, or follows what this file appends
after, as the hash has it); a component has what the components it includes define, from the nearest that
has it (`InheritsWhatItLacks`); keys that the lists call integers are integers
everywhere, also where inherited, or the program stops in its assertion about
included files or at a component that it cannot open (`IntsConverted`).

Bounds: two files that define one key and append to it, with every order of the
lines and every split; three files that include each other in a chain, with keys
at one and two levels that all, some or one of them define; global keys; components
with the name of a key, in its file and in another, and one without a name.

## 4. Fairness

The functions of a sequential program run on until they return: `FairSpec` of
`AddrAssign`, `PicAssign`, `AccessDeps`, `BusList` and `Reeval`, `FairDbSpec` of `Database`,
`FairTreeSpec` of `BusTree` and `WFairSpec` of `Wiring` add weak fairness of the next-state
relation, and no more.  `TestBench` has it for the program (`ListClocks`,
`Construct`) and for a method that was called (`Run`), none for the calls:
nobody has to call anything.  Deadlock is not checked there (`CHECK_DEADLOCK
FALSE`) since the functions return, a failed assertion stops the program, and
`MaxCalls` ends a run.  `WbReply` is hardware that runs for ever: its run checks
deadlock, and it states no fairness, since nothing has to happen on a bus.

## 5. What is proved

| theorem | of | under |
|---|---|---|
| `AddrAssignProofs!TypeCorrect` | `TypeOK` | the assumptions on lists and buses |
| `AddrAssignProofs!LayoutSound` | regions aligned, above the null space, below `start_address` | `WideBuses` |
| `AddrAssignProofs!RegionsNeverMeet` | `SlavesDisjoint` | `WideBuses` |
| `AddrAssignProofs!AssignImplementsMap` | `ImplementsAddrMap` | `WideBuses` |
| `AddrAssignProofs!OrderKept` | `OrderHonoured` | `WideBuses` |
| `AddrAssignProofs!RoomKept` | `RoomForSlaves` | `WideBuses`, `WithinReach` |
| `AddrAssignProofs!DecodersRight` | `DecodesOwner` | `WideBuses`, `WithinReach` |
| `AddrAssignProofs!WidthIsEstimated` | `EstimateExact` | `WideBuses`, `RoomToSearch`, `WithinReach` |
| `AddrAssignProofs!LaidOutAsAsked` | `LayoutAsAsked`, the last three together | `WideBuses`, `RoomToSearch`, `WithinReach` |
| `AddrAssignProofs!PlacedForReplies` | a list as `WbReply` takes it to be, in words of the bus | `WideBuses`, `WithinReach` |
| `AddrAssignProofs!TreeLaidOut` | the layouts of all buses that have addresses, and the recursion over them | `DesignAssumption`, `WideBuses`, `LinesFit` |
| `AddrAssignProofs!RegistersReached` | `RegsReachTheirSlave` | the same |
| `AddrAssignProofs!RangesReached` | `RangesReachMemory` | the same, `MemoriesAreLeaves`, `OneView` |
| `AddrAssignProofs!CachableRight` | `CachableIffMemory` | as `TreeLaidOut` |
| `AddrAssignProofs!TreeTypeCorrect` | `TreeTypeOK` | as `TreeLaidOut` |
| `PicAssignProofs!TypeCorrect` | `TypeOK` | `DesignsAssumption` |
| `PicAssignProofs!VectorAgrees` | `VectorMatchesList` | `DesignsAssumption` |
| `PicAssignProofs!CountsAgree` | `CountsFilled` | `DesignsAssumption` |
| `PicAssignProofs!IdentsWired` | `IdentIsWired` | `DesignsAssumption` |
| `PicAssignProofs!AssignImplementsVectors` | `ImplementsIntVector` | `DesignsAssumption` |
| `PicAssignProofs!NamedHonoured` | an ID that a line names for itself is never changed | `DesignsAssumption` |
| `SubbusProofs!AnswersMatchRequests` | `OneAnswerEach` | `WbBusesAssumption` |
| `SubbusProofs!NoAnswerWithoutRequest` | no acknowledgement in a cycle with no request waiting | `WbBusesAssumption` |
| `SubbusProofs!OwnerIsStrobed` | `StrobesOwner` | `WbBusesAssumption` |
| `SubbusProofs!OldestIsAnswered` | `AnswersTheOldest` | the same, `NoPairs` |
| `SubbusProofs!SubbusTypes` | `TypeOK` | `SubbusAssumption`, `BusesAssumption` |
| `SubbusProofs!NoSlaveLost` | `OnOneList` of `Subbus` | the same |
| `SubbusProofs!RightlyCollected` | what `SlavesCollected` says of the lists, whenever `allocate_subbus` has returned | the same |
| `SubbusProofs!WiringImplementsSubbus` | `Wiring` implements `Subbus` | none |
| `SubbusProofs!NoSlaveLostInLogic` | `OnOneList` of `Wiring` | as `NoSlaveLost` |
| `SubbusProofs!WiresRight` | `WiresDriven` | the same, `DesignsAssumption`, `AllHandled` |
| `SubbusProofs!SlavesReached` | `EverySlaveReached` | the same, `DesignsAssumption`, `AllHandled` |
| `AccessDepsProofs!AccessTypes` | `TypeOK` | the assumptions on macros and designs |
| `AccessDepsProofs!GuardsHonoured` | `OnlyIfDependenciesHold` | the same |
| `AccessDepsProofs!DefinesRight` | `DefinesWhatTagsCallFor` | the same |
| `BusListProofs!BusTypes` | `TypeOK` | `NameAssumption`, `DesignAssumption` |
| `BusListProofs!DefinitionsRight` | `DefinitionsMerged` | the same |
| `BusListProofs!ConflictsRight` | `ConflictsReported` | the same |
| `BusListProofs!OnRightBus` | `OnItsBus` | the same |
| `TestBenchProofs!ClockListRight` | the types of `Clocks`; no clock is listed twice | `SlowClocks` |
| `TestBenchProofs!ClocksAreMerged` | `ClocksMerged` | `SlowClocks`, `ClkNamed` |
| `TestBenchProofs!TickedOnTime` | `TickedOnItsClock` | `SlowClocks` |
| `TestBenchProofs!ReturnsInTime` | `ReturnsAtNextRise` | `SlowClocks` |
| `TestBenchProofs!ResetIsSeen` | `ResetSeen` | `SlowClocks`, `ClkNamed`, `ClkWired` |
| `TestBenchProofs!LoadsInPlace` | `LoadedInPlace` | `MemoriesFit`, `MemoriesApart`, `ProgramFits` |
| `ReevalProofs!ExpressionsRight` | `EvaluatedRight` | `DesignAssumption`, `NoLateShadow` |
| `ReevalProofs!StringsRight` | `StringsReadRight` | the same, `NoLateTop` |
| `ReevalProofs!DbTypeCorrect` | the types of `Database`; every table is a tree | `LineAssumption`, `ArgAssumption`, `AppendsBelowMaps` |
| `ReevalProofs!InheritedRight` | `InheritsWhatItLacks` | the same, `IncludesInComponents` |
| `ReevalProofs!AppendedRight` | `AppendedInOrder` | as `DbTypeCorrect` |

The hypotheses that are not assumptions of the model:

- `WideBuses`: a word of the bus has more than one octet, so that every slave has
  address bits.  Without it the theorems are false (section 6).
- `WithinReach`: the layout ends at or below 2^(`MaxLg` + 1).  `nextlg()` counts in an `int`
  and stops at its last bit; beyond that no mask is right.
- `RoomToSearch`: the width that a bus asks for, and twice the log of its word, are
  less than `AddrBits`.  `AddrBits` is 32; the largest minimum is the 12 of AXI, and words
  are of a few octets.
- `LinesFit`: a bus that has its addresses has no more address lines than `nextlg()`
  counts (31), and no fewer than count the octets of a word of the bus above it, which
  `SUBBUS` would otherwise subtract from a smaller number (`subbus.cpp:84`).
- `MemoriesAreLeaves`: a component that is a memory masters no bus.
- `OneView`: when the linker script is written, a memory that both the host and the CPU
  reach has, in the walk from the CPU, the address that it had in the walk from the
  host.  Without it the theorem is false (section 6: `REGBASE`).
- `NoPairs`: no list of exactly two `SINGLE` slaves, for which the generated `casez`
  selects by an empty range of bits (section 6).
- `AllHandled`: every design is one of those that `Handled` admits, for which the
  printed logic is complete (section 6).  The designs of the run `wiring` satisfy it.
- `SlowClocks`: no clock of a design is so fast that its period is 2 ps or less, the
  value that stands for a clock which has not been set (`UnknownPS`).
- `ClkNamed`: a design that names clocks names "clk".  `find_clocks` is written for
  these: without it, the default is set on the first clock of the list, whatever that
  is, and not on the one which it appends.
- `ClkWired`: no component gives "clk" a wire other than the default, `i_clk`, by which
  the generator finds the clock that `reset()` waits for.
- `MemoriesFit`, `MemoriesApart`, `ProgramFits`: the memories are not larger than the
  address space, lie apart, and what is loaded ends inside of it.  That they lie apart is
  what `RegionsNeverMeet` shows of the slaves of a bus.

- `NoLateShadow`: no key that is added to a component after the first `reeval()` has the
  name of a key that the top level had before.  With such a key, an identifier which was
  resolved at the top in the first call keeps that value, although the new key is nearer.
- `NoLateTop`: no key that is added to the top level after the first `reeval()` has the name of one
  that a component had before.  With such a key, a string directly in this component, which
  has the top level searched first, may have been filled in from the component.
- `AppendsBelowMaps`: no line "M.K += value" where M has a text, or has only been appended
  to.  There `addtomap` goes on with what it has just freed, and nothing can be said of the
  database.
- `IncludesInComponents`: a file is included after a `PREFIX`.  What is included before
  the first is inherited by the top level, that is, by the database as a whole; a table which it
  adds to a component may then be one that the component should have had from a file of its own.

The designs of the run `bus_tree` satisfy `WideBuses` and the three from `LinesFit` to `OneView`;
TLC has also found `TreeInv` and what else the argument below rests on to hold there.
The designs of the run `testbench` satisfy the six from `SlowClocks` to `ProgramFits`, those of the
run `reeval` the two after these, and those of the run `database` the last two; TLC has found the
inductive invariants of the database to hold there, too.

Address assignment.  `SlavesDisjoint` is not inductive: nothing in it says that
the next region starts above the last.  `LayoutInv` adds that every region
placed ends at or below `start_address` and nothing is placed before the search
is over; the step that matters is that `AlignUp(start, size)` is a multiple of
`size` not below `start` (`Lemmas`).  The refinement needs also that
sorting permutes the slaves, so that names stay distinct (`NamesInv`).
`DecodersRight` rests on what `NextLg`, a cardinality, computes: the least power
of two not below its argument (`NextLgTight`, `NextLgUnique`).  For `WidthIsEstimated`, the
estimate (a recursive function over the list) is shown to be the layout that the
loop makes, scaled by the words of the bus (`LayoutRuns`, `NextLgShift`,
`AlignUpScaled`), and to be monotonic in its bounds, since the search stops at the
first width whose estimate is not above it (`EstimateInv`).  `PlacedForReplies` ties
this module to `WbReply`: divided by the octets of a word, the layout of two slaves
or more is aligned, in order, and has the address lines that its last slave
needs, which is what `Placed` and `Sbaw` say there (that the addresses are also below
`2^MaxLg` is the instance's); it needs that nothing is left between
the last slave and `start_address` (`LastEnds`).

The tree of buses.  Each assignment is one of `AddrAssign`, so that what is proved of one bus
holds of every bus of the tree, whenever it ends (`EndedSound`, `EndedDecodes`): the assumption
on slave lists is not used here, `PlistSound` says instead what list the recursion has
called for.  `TreeInv` keeps the layout of every bus that has its addresses (`LaidOut`): each
slave is aligned, above the one before it, inside of the bus, its decoder answers exactly
the octets of its own lines (`SlaveLines`), and a bridge has lines enough for the whole bus below
it.  It needs the recursion to be right: buses on the stack are in increasing order and
none has addresses (`TreeStack`), and while one is laid out the buses of all its bridges
have theirs and keep their widths (`TreeControl`).  The walks are recursive functions over
the buses, each calling for buses with a higher number only; `DescentExists` shows that
there are such functions, `DescentInduction` is the induction.  By it, an address which the walk of
`gather.cpp` finds is the start of a place on the bus it started from, of which each octet
leads to the component and to no other; and a region of the cachable
function matches an address if and only if the walk that produced it went the way that the
decoders send this address, and ended in a memory (`RegionsMatch`): the mask of a slave is
the bits above its lines up to the width of its bus (`MaskBits`), so that to agree
on these bits is to have one quotient by its size (`SameBits`, `LowBits` and `LowerLines`, of
`Lemmas`).
`OutInv` says that what is written is what a walk has found, and that the address which the
first walk left in `REGBASE` is one that it found.

Interrupts.  `PicInv` is the agreement of vector and list together with the
count; the counter is only right because a filled position is never filled
again, which is the agreement.  `FillKeeps` is the lemma of both ways to fill
a position, from `add` and from `assignids`.  `ListInv` adds that a line with an ID of its own has this ID or is not listed
(`NamedInPlace`), and that the IDs in the maps are those of the entries that have
been written back so far (`IdentsFromList`).  The refinement maps a step that fills
a position to one of `IntVector`, and every other step to a stutter.

Reply logic.  `OneAnswerEach` speaks of clocks inside of a cycle; `AnswerInv`
adds that a strobe is inside of a cycle, without which an acknowledgement could
be on its way when the next cycle begins.  The step is split by whether the
clock ends the cycle (`IdleKeeps`: both sides become empty) or not
(`BusyKeeps`: an answer leaves as the request it belongs to does, and a request
enters as its acknowledgement does).  `OwnerIsStrobed` is about the layout alone: aligned
regions that are apart differ in a bit above `UnusedLsbs`, and below the width of the
bus.  `OldestIsAnswered` adds to `AnswerInv` what each register holds for the
requests one and two clocks old.

Sub-buses.  `SubbusInv` counts each slave over the three lists (`NothingLost`, with
`Tally` of `Lemmas`), and says that each list holds slaves that belong there, `m_plist`
as far as the iterator has come (`Sorted`): an erase moves the rest of the list up to
the iterator, and the proof is that the element which takes the place of the one
erased is still looked at.  That the buses which are created need none of their
own is arithmetic over the counts (`FewSingles`, `NeedsNoBus`).

Bus logic.  `WireInv` says at each section which wires are driven and which are read
(`Printed`), as products of lists of units and sets of wires.  That no wire is driven twice
is that each driver is known by its unit and wire (`OneEach`), since a list names no
unit twice, and that what a section drives was not driven before (`DioApart`, `XbarApart`, `LeftToLogic`).  At the end
the ports that are read, with the options that leave half of them out, are all among the
driven ones (`WbCovered`, `AxiCovered`).  What a design that is `Handled` means for the three lists
comes from the counts of `countsio` (`SplitInv`, `FactsOfDesign`): a section may return
early, or take a list for the whole bus, on the word of these counts alone.  `LinkInv` says
the same of the instances: one for each list; no list of Wishbone has
one slave, which the logic would not strobe (`ListsAreStrobed`); the way to a slave then
goes through the bus that its list is below.

Access lines.  `DepsInv` says that the blocks written before the last group
have their dependencies named above them (`GroundedFirst`), and that a pass which
has brought no news has tested every entry that it left (`Tested`): the entry
that is stepped over after an erase is never the last chance, since the erase
brought news.  `CalledForIsLeast` shows that the rounds of the reference definition
reach the least set that is closed under the tags; what the preprocessor
defines, block by block, is inside of it (`RunWithinDefined`), and is closed since
nothing is left untested when a pass brings no news (`NoneWithheld`).

The list of buses.  The properties speak of the time after the walk, so that `ListInv` says what
each part of the walk has left behind it.  What a bus knows was said by one of its
pieces, and the fields agree with the map (`Sound`); no step takes anything away
(`Extends`), so that what a bus has heard, or reported, stays heard (`Covered`,
`CoveredKept`).  `merge()` has taken notice of every tag before its place in the piece
(`BeingMerged`): the restart, which goes on from the second tag, passes over
the first, and that one has been heard: it is the tag that brought the news, or one before it.  Every piece that the walk has come past stands for the bus that it names,
and this bus has heard it (`Referred`); two pieces that disagree have then both been
heard by the one bus of that name, whose map holds one value, so that one of them was
reported, and what was reported is true (`ErrorsTrue`).  For the last pass, `Attached` counts
each component on each list as far as the pass has come.  The designs are all that the assumption
allows, those in which pieces disagree on `NULLSZ` included: what is then not
known is that the walk ends.

Clocks.  The properties of the list speak of the first mention of each clock, so that
`AllHeard` says, for each clock of the list, which of its mentions have been read and that
its fields are the first of what these say (`Knows`, `Heard`); the next mention in the order
of the walk comes after all of these, and changes a field only if none has set it.  What
a component is told is the frequency of the one clock of its name (`FrequencyShown`, `Expanded`).

Simulation.  The time of each clock is a function of the time of the simulation (`InPhase`):
the phase of a clock with half period h is what is left of `mtime + h` after division by
2h, so that a clock cannot lose or gain time to the others.  `MinTime` is not above the
time to any edge, so that a step never passes over one, and the quotient of `mtime` by
the period grows by one where the phase comes to the falling edge, which is where the
ticks are counted, and nowhere else.  For the methods, `Calling` bounds the time since the call by the phase of the
clock that is waited for, so that only one rise can have come since.  `load()` keeps that what is copied so far is the part of the buffer
before its next place, and that address and place have moved on together (`Loading`);
the memory that holds an address is the only one, for they lie apart (`OneHolds`).

Evaluation.  A pass of `reeval` sets values in the order of the map, uses those that are
already there, and may be followed by keys that another part of the program adds.  `Meaning`
fills the values in by rounds instead, all at once and from the whole database.  `EvaluatedRight`
alone is not inductive, for a wrong value of an identifier only shows when its
expression has been computed, and it says nothing of which round a value belongs to.  `EvalInv` says that
whatever has a value has the one of round n, where n is the number of expressions with
a value so far: a value once set is that of every later round (`ValueKept`), so that one more
round is enough for one more expression, and there are as many rounds as expressions
(`KnownSize`).  `IdsRight` says the same of the identifiers resolved before the call in which
the expression got its value; that they were looked up in a smaller database is what
`NoLateShadow` is for (`FindsNearest`).  For the strings, the rounds are
as many as there are texts without references, and `StringsInv` says that the text of every
string is made of pieces, one for each item that it was written with: the item still, or what
it stands for after so many rounds (`MadeOf`).  A pass replaces every item of such a
text; that this is the same as replacing each piece are facts about `FlattenSeq`
(`FlattenMap`, `FlattenRange`, in `Lemmas`), which the library states no theorem about.

The database.  `DbInv` is `DbTypeOK` with what a file that is read needs to stay a tree: the component
that is open in it is a table of it (`Opened`).  Merging is the step that could break
a tree, for it takes keys from one table into another; what it takes stands below tables in
both (`MergeMapsTable`).  `InheritsWhatItLacks` speaks of the end of `flatten()`
only.  `ShapeInv` says that the key "+" stands nowhere but in a component, so that the files
which include each other are a chain of tables below each component, and that the tables of this
chain are what `flatten()` works on.  `FlatInv` says what it has done so far: a table of a chain
whose "+" has been visited has everything it should have (`HasAll`), and any other has
got nothing, so that what it lacks when it is visited is what it lacked in the beginning.
It is needed that the tables below are visited first; the order is otherwise left
open.  That a step keeps it for the other tables is that no two tables of chains have a key
in common (`NodesApart`), and for the table visited that its chain is the table itself and the
chain of what it includes (`BasesBelow`, `HasAllInherits`).  For `AppendedInOrder`, `TextInv`
has the text of a key at every moment, in the table of the argument that is read (`ReadInv`)
and in the database (`MasterInv`): before the line that defines the key, what there is of it waits
in "+K"; after that, "K" has all of it.  A line adds its own value to one of the two
(`AddSets`, `AppendSets`) and a line of another key, or an included file, touches neither
(`AddSame`, `AppendSame`, `SingleSame`, `IncludeSame`).  At the end of an argument "+K" of the one
table meets "K" of the other (`MergeBefore`, `MergeDefines`, `MergeAfter`), and `ReadInv` for the
last line becomes `MasterInv` for one argument more (`MasterArg`).  That the values
of a set of lines, put in order, are those of its earlier lines and then those of its later
ones (`ValueJoin`) is what lets both be stated without counting lines.

Induction.  The library's induction theorems take a predicate as a parameter,
which the provers cannot instantiate; `Lemmas` states induction over the natural
numbers with a set in its place (`NatSetInduction`) and, from it, that recursive
functions exist (`RecursionExists`), so that what the folds and recursive functions of `AddrAssign`,
`BusTree`, `AccessDeps` and `Reeval` compute is proved and not assumed.

Only model-checked is liveness under fairness, which is out of the prover's reach, and so that
the functions return (`LinesServed`, `SlavesCollected`, `SubbusFits`,
`EvaluatedInTheEnd`, `IntsConverted`, `CallsReturn`, each `Terminates`).  What `SlavesCollected`
says of the lists, apart from their being finished, is `RightlyCollected`.

## 6. Known divergences

Two disagreements of the code with its documents or assertions have a run that shows them,
`bus_tree_early` and `wiring_single`.  The others were met while modelling; the domains of
the runs leave out what they name, or the models have it as the code does.  Lines are those of `src/sw`.

Addresses and buses:

- A Wishbone bus of one octet gives a slave of `NADDR` 1 no address bits and no
  room (`plist.cpp:559`): it shares its octet with the next.  `MCAddrAssign` with a
  bus of `word = TRUE`, `lgdw = 0` violates `SlavesDisjoint`.
- A sub-bus may be created that stays without slaves (`bus/wb.cpp:198`); a list of one
  slave has the mask 0 (`plist.cpp:441`) and its slave is never strobed
  (`bus/wb.cpp:976`); with two `SINGLE` slaves the `casez` selects by an empty
  range of bits (`bus/wb.cpp:914`).
- Pieces of a bus with different `NULLSZ` restart `merge()` for ever
  (`businfo.cpp:358`).  Tags that `merge()` does not name reach the bus only from the
  piece that made it.
- An AXI-lite bus with `SINGLE` slaves moved to their own bus gets no logic for
  the others (`bus/axil.cpp:899`); buses of `DOUBLE` slaves alone connect only their first
  master; AXI4 has no logic yet for moved `SINGLE` slaves; a bus without masters
  is not tied off below the buses created for it.
- The options `RO` and `WO` are ignored by the logic that connects one master and
  one slave, by that for a bus without masters, by the simplifiers and (WO) by Wishbone; the logic standing in for
  the read channel of a WO slave of AXI4 does not drive `rid`.
- The logic for the `DOUBLE` slaves of AXI4 assigns `arprot` three times
  (`bus/axi.cpp:1222`, `1224`, `1225`), to the same value.
- An AXI-lite bus of `SINGLE` slaves has its addresses assigned by `plist.cpp` and its requests sent by
  `axilsingle`, which is printed without a table (`bus/axil.cpp:804-876`) and counts words
  from zero: where a `NULLSZ` has not moved them to
  consecutive words from a multiple of what its ports take, requests go to another slave.  For two registers of 32 bits and a `NULLSZ` of 4, these are
  at words 1 and 2: each is reached at the address of the other.  For one of 16 they
  are at words 4 and 8, which both are index 0.
- A `SUBBUS` with an `NADDR` has its bus assigned when it is added (`plist.cpp:357`): the program
  aborts if the bus has slaves already (`plist.cpp:423`), and if it has none then, the
  slaves that come later get no addresses (`bus/wb.cpp:262`).  Buses that are below each other in
  a circle recurse for ever (`subbus.cpp:66`).
- `REGBASE` is a key of the component: a second walk, from another bus, leaves the address
  of the first (`gather.cpp:80`, `mapdhash.cpp:895`), so that the linker script is wrong where the CPU sees a memory at
  another address than the host.
- A pointer to a clock is kept in `BUSINFO` (`businfo.cpp:429`) while the vector it points
  into may still grow.

Interrupts and access lines:

- The text written into `main.v` asks for the `PIC.BUS` of a controller
  (`autofpga.cpp:969`) where the code compares its `PREFIX` (`autofpga.cpp:326`).
- A negative dependency is not met before its macro has been written
  (`ifdefs.cpp:190`, against `icd.txt:92-93`), and macros are looked up as substrings of the
  list of all (`ifdefs.cpp:190`, `222`), so that one whose name is part of another is taken
  to be defined.  `ACCESS=!X` defines `X`.

Keys and values:

- `+K` of a key that is never defined stays `+K` ("it is created and initialized",
  `icd.txt:9-10`); if one file has both, what comes first depends on the hash.
- A global table `M` hides `M.K` of the integer list in the components.
- `setvalue()` on a map without `.VAL` inserts through an end iterator
  (`mapdhash.cpp:902`); `flatten_aux()` inserts into the table that it walks
  (`mapdhash.cpp:1027`); a file that includes itself recurses for ever.
- A string directly in a component has its references looked up at the top level first, and
  `@$THIS` at the top level only (`kveval.cpp:428` passes on the map above, not the component
  that was found; the comment at `kveval.cpp:87-92` is "1. here ... 4. top").  A component
  whose key K has the name of a key of the top level reads that one in such a string.
  `Here` and `Nearest` have it so, and the run `reeval` has such strings.
- `reeval` may stop before its fixed point, for a flag is overwritten by the last
  table visited; three calls suffice in the databases of the run.

Simulation:

- `reset()` returns after one tick if `clk` is high (`bldtestb.cpp:379`): the design may not
  see its reset.  `ResetSeen` is about calls with the clock low.
- A clock that is alone and has a class of its own returns from
  `tick_<clock>()` at each edge.
- `load()` adds base and length in 32 bits: a memory that ends at the end of the
  address space is taken to be empty.
- `bldcachable.cpp` dereferences the list of slaves of a bus that has none, and a
  bus whose slaves have the mask 0 gets a function of no address bits.

## 7. What is not modelled

- Text emission, message logging and the legal notices: they copy tags.  Bit widths
  and formatting of the logic are left out of `Wiring`.
- The crossbars and simplifiers the generated design instantiates (`wbxbar`,
  `axilxbar`, `axilsingle`, ...) and `TBCLOCK` come from another repository: they
  are external, as far as the generated text relies on them.  Assumed of them is that a
  crossbar sends a request to the port whose base it has under the mask, that
  `axilsingle` counts its ports in words, and when the edges of a `TBCLOCK` come (section 3.9).
- The ID widths of AXI4 (`assign_ids`): sums of logarithms written to tags, which
  only a crossbar reads.
- The operators of the grammar (`expr.ypp`): an expression is abstracted to a
  sum, since what the passes over it must get right is the order in which names
  are resolved.
- Of the parser, the search path of a file and lines that are continued; of the
  database, `trimbykeylist` and `setstring`: string handling without an order.
- Names and comments of registers, the `RESET_ADDRESS` of the linker script, and
  the trace functions, `SIM.INIT` and `SIM.METHODS` of the simulation, which are copied.
- `BusTree` and `Wiring` are not composed: the first takes every bus to be without
  sub-buses made by `allocate_subbus`, the second takes one bus at a time.
