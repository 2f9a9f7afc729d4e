------------------------------- MODULE TestBench -------------------------------
(***************************************************************************)
(* The simulation that build_testb_h (sw/bldtestb.cpp) and                 *)
(* build_main_tb_cpp (sw/bldsim.cpp) generate for a design: the classes    *)
(* TESTB and MAINTB, run by a program that calls tick(), tick_<clock>(),   *)
(* reset() and load().  It is composed with the list of clocks (Clocks)    *)
(* from which it is generated.                                             *)
(*                                                                         *)
(* TBCLOCK is not in the repository: only its methods are, in doc/icd.txt  *)
(* and in the calls of them.  That the first half of a period is ps div 2  *)
(* and the second as long, and that all the clocks start together, on a    *)
(* falling edge, is assumed.                                               *)
(***************************************************************************)
EXTENDS Clocks

CONSTANTS
  Program,     \* the <<address, length>> that load() is called with
  AddrBits,    \* load() counts in integers of so many bits
  MaxCalls     \* a bound on the calls of a run

ASSUME LoadAssumption == {AddrBits, MaxCalls} \subseteq Nat /\ Program \subseteq (0..2^AddrBits - 1) \X Nat
(* SIM.TICK, SIM.CLOCK, and SIM.LOAD with the REGBASE and NADDR of the     *)
(* component, the width of its bus and whether its ACCESS is defined.      *)
ASSUME SimAssumption ==
  \A d \in Designs : \A c \in DOMAIN d :
    /\ d[c].simtick \in BOOLEAN /\ d[c].simclock \in ClockNames \cup {NoName}
    /\ d[c].simload \in Seq(Range(d[c].simload))
    /\ \A m \in Range(d[c].simload) :
         {m.base, m.naddr, m.width} \subseteq Nat /\ m.defined \in BOOLEAN

VARIABLES
  mtime,     \* m_time_ps
  phase,     \* of each TBCLOCK: the time since its last rising edge
  level,     \* the wire of each clock
  iReset,    \* m_core->i_reset
  call,      \* the method that runs: [op, clock, since, low]
  calls,     \* how many methods have been called
  ticks,     \* how often the SIM.TICK of a component has run
  seen,      \* "clk" has risen since i_reset was set
  load,      \* the arguments of load(), and its result
  loaded     \* <<component, offset, place in buf>> for each octet copied

benchVars == <<mtime, phase, level, iReset, call, calls, ticks, seen, load, loaded>>
vars == <<clockVars, benchVars>>

Clocked == DOMAIN cklist
Half(i) == cklist[i].ps \div 2
MultiClock == Len(cklist) > 1 \/ cklist[1].tag["class"] # None
MainClock == SelectInSeq(cklist, LAMBDA ck : ck.tag["wire"] = <<Default(Clk)>>)   \* i_clk

(* tb_same_clock: SIM.CLOCK, or else the one clock that CLOCK.NAME lists.  *)
SameClock(c, i) ==
  IF design[c].simclock # NoName THEN design[c].simclock = cklist[i].name
                                 ELSE design[c].name = <<cklist[i].name>>

(* sim_<clock>_tick() of the clocks F: what tb_tick() has put there.       *)
SimTicks(F) == [c \in Comps |-> ticks[c] + IF design[c].simtick THEN Cardinality({i \in F : SameClock(c, i)})
                                                                ELSE 0]
-----------------------------------------------------------------------------
(* TBCLOCK.                                                                *)
TimeToEdge(i) == IF phase[i] < Half(i) THEN Half(i) - phase[i] ELSE 2 * Half(i) - phase[i]
RisingEdge(i) == phase[i] = 0
Advance(i, ps) == (phase[i] + ps) % (2 * Half(i))

NoCall == [op |-> "none", clock |-> 0, since |-> 0, low |-> FALSE]
NoLoad == [program |-> <<0, 0>>, addr |-> 0, len |-> 0, buf |-> 0, result |-> "none"]

Init ==
  /\ ClockInit
  /\ mtime = 0 /\ phase = <<>> /\ level = <<>> /\ iReset = 0
  /\ call = NoCall /\ calls = 0
  /\ ticks = [c \in Comps |-> 0]
  /\ seen = FALSE
  /\ load = NoLoad /\ loaded = {}

(* TESTB::TESTB(): every clock is given its period.                        *)
Construct ==
  /\ pc = "clocks"
  /\ phase' = [i \in Clocked |-> Half(i)]
  /\ level' = [i \in Clocked |-> 0]
  /\ pc' = "bench"
  /\ UNCHANGED <<design, comp, token, cklist, clockOf, conflicts,
                 mtime, iReset, call, calls, ticks, seen, load, loaded>>

(* The program calls a method: load() before it starts the simulation.     *)
Called(op, i) ==
  /\ pc = "bench" /\ call.op = "none" /\ calls < MaxCalls
  /\ call' = [op |-> op, clock |-> i, since |-> mtime, low |-> level[MainClock] = 0]
  /\ calls' = calls + 1
CallTick == Called("tick", 0) /\ UNCHANGED <<clockVars, mtime, phase, level, iReset, ticks, seen, load, loaded>>
CallTickOf == \E i \in Clocked :
  Called("tick_clock", i) /\ UNCHANGED <<clockVars, mtime, phase, level, iReset, ticks, seen, load, loaded>>
CallReset ==
  /\ Called("reset", MainClock)
  /\ iReset' = 1 /\ seen' = FALSE
  /\ UNCHANGED <<clockVars, mtime, phase, level, ticks, load, loaded>>
CallLoad == \E p \in Program :
  /\ mtime = 0 /\ load.result = "none" /\ Called("load", 0)
  /\ load' = [program |-> p, addr |-> p[1], len |-> p[2], buf |-> 0, result |-> "none"]
  /\ UNCHANGED <<clockVars, mtime, phase, level, iReset, ticks, seen, loaded>>

(* TESTB::tick() for several clocks advances all of them to the next edge  *)
(* of any, for one clock through both of its edges.                        *)
MinTime_First == TimeToEdge(1)                                    \* mutant
MinTime == Min({TimeToEdge(i) : i \in Clocked})

Tick ==
  IF MultiClock
    THEN /\ phase' = [i \in Clocked |-> Advance(i, MinTime)]
         /\ level' = [i \in Clocked |-> IF phase'[i] < Half(i) THEN 1 ELSE 0]
         /\ mtime' = mtime + MinTime
         /\ ticks' = SimTicks({i \in Clocked : phase'[i] = Half(i)})
         /\ seen' = (seen \/ (iReset = 1 /\ phase'[MainClock] = 0))
    ELSE /\ mtime' = mtime + Half(1) + (cklist[1].ps - Half(1))
         /\ ticks' = SimTicks({1})
         /\ seen' = (seen \/ iReset = 1)
         /\ UNCHANGED <<phase, level>>

Again_WhileLow ==                                                 \* mutant
  /\ Len(cklist) > 1
  /\ call.op \in {"tick_clock", "reset"} /\ level'[call.clock] = 0
Again_TickOnly ==                                                 \* mutant
  Len(cklist) > 1 /\ call.op = "tick_clock" /\ phase'[call.clock] # 0
(* The loops of tick_<clock>() and reset() test a clock after each tick;   *)
(* with a single clock they are left out.                                  *)
Again ==
  /\ Len(cklist) > 1
  /\ \/ call.op = "tick_clock" /\ phase'[call.clock] # 0
     \/ call.op = "reset" /\ level'[call.clock] = 0

Return == call' = IF Again THEN call ELSE NoCall

RunTick ==
  /\ pc = "bench" /\ call.op \in {"tick", "tick_clock", "reset"}
  /\ IF MultiClock /\ MinTime <= 1                                \* assert(mintime > 1)
       THEN pc' = "aborted" /\ UNCHANGED benchVars
       ELSE /\ Tick
            /\ Return
            /\ iReset' = IF Again THEN iReset ELSE 0
            /\ UNCHANGED <<pc, calls, load, loaded>>
  /\ UNCHANGED <<design, comp, token, cklist, clockOf, conflicts>>
-----------------------------------------------------------------------------
(* MAINTB::load(): the first component whose addresses hold addr copies    *)
(* what it can, and load() calls itself for the rest.                      *)
UInt(n) == n % 2^AddrBits
Loadable == {c \in Comps : design[c].simload # <<>>}
Base(c) == design[c].simload[1].base
AddrLen(c) == design[c].simload[1].naddr * (design[c].simload[1].width \div 8)
Above(c) == UInt(Base(c) + AddrLen(c))
Holds(c, a) == a >= Base(c) /\ a < Above(c)

RestOf_WholeLength(c, start, wlen) ==                             \* mutant
  [load EXCEPT !.addr = Above(c), !.buf = @ + wlen, !.len = load.len]
RestOf_SameAddr(c, start, wlen) ==                                \* mutant
  [load EXCEPT !.addr = Base(c)]
RestOf(c, start, wlen) == [load EXCEPT !.addr = Above(c), !.buf = @ + wlen, !.len = load.len - wlen]

LoadStep ==
  /\ pc = "bench" /\ call.op = "load"
  /\ LET hit == {c \in Loadable : Holds(c, load.addr)}
         c == Min(hit)
         start == load.addr - Base(c)
         wlen == Min({AddrLen(c) - start, load.len})
     IN  IF hit = {} \/ ~design[c].simload[1].defined
           THEN load' = [load EXCEPT !.result = "false"] /\ UNCHANGED loaded
           ELSE /\ loaded' = loaded \cup {<<c, start + i, load.buf + i>> : i \in 0..wlen - 1}
                /\ load' = IF UInt(load.addr + load.len) > Above(c) THEN RestOf(c, start, wlen)
                           ELSE [load EXCEPT !.result = "true"]
  /\ call' = IF load'.result = "none" THEN call ELSE NoCall
  /\ UNCHANGED <<clockVars, mtime, phase, level, iReset, calls, ticks, seen>>

Run == RunTick \/ LoadStep
ListClocks == ClockNext /\ UNCHANGED benchVars
Next == ListClocks \/ Construct \/ CallTick \/ CallTickOf \/ CallReset \/ CallLoad \/ Run
Spec == Init /\ [][Next]_vars
(* The methods are ordinary functions: once called they run.               *)
FairSpec == Spec /\ WF_vars(ListClocks) /\ WF_vars(Construct) /\ WF_vars(Run)
-----------------------------------------------------------------------------
TypeOK ==
  /\ pc \in {"list", "expand", "clocks", "bench", "aborted"}
  /\ \A i \in Clocked : cklist[i].ps \in Nat \ {0}
  /\ clockOf \in [Comps -> {0} \cup Clocked]
  /\ pc = "bench" => (phase \in [Clocked -> Nat] /\ level \in [Clocked -> {0, 1}])
  /\ ticks \in [Comps -> Nat] /\ iReset \in {0, 1}
  /\ loaded \subseteq Loadable \X Nat \X Nat

(* A component has its SIM.TICK run once for every period of its one clock,*)
(* however the edges of the clocks interleave: no tick() jumps over an     *)
(* edge, and none is served twice.                                         *)
ClockFor(c) == IF design[c].simclock # NoName THEN FindClock(design[c].simclock)
               ELSE IF Len(design[c].name) = 1 THEN FindClock(design[c].name[1]) ELSE 0
Period(i) == IF MultiClock THEN 2 * Half(i) ELSE cklist[i].ps
TickedOnItsClock ==
  pc = "bench" => \A c \in Comps : design[c].simtick =>
    ticks[c] = IF ClockFor(c) = 0 THEN 0 ELSE mtime \div Period(ClockFor(c))

(* tick_<clock>() returns at the next rising edge of the clock, neither    *)
(* before it nor after another one.  (Of a clock that is alone and has a   *)
(* class of its own it returns at every edge: tick() is then the one for   *)
(* several clocks, tick_<clock>() the one for a single clock.)             *)
Lonely == Len(cklist) = 1 /\ MultiClock
ReturnsAtNextRise ==
  [][call.op = "tick_clock" /\ call'.op = "none" /\ ~Lonely =>
       /\ mtime' > call.since /\ mtime' - call.since <= Period(call.clock)
       /\ MultiClock => phase'[call.clock] = 0]_vars

(* The design has seen its reset at a rising edge of the clock "clk" when  *)
(* reset() returns, if that clock was low when it was called.              *)
ResetSeen == [][call.op = "reset" /\ call'.op = "none" /\ call.low => seen']_vars

(* An octet of the buffer goes to the address that it is loaded at, as the *)
(* bus sees it, and once; load() is true if all of them did, and false only*)
(* if there is no memory at one of these addresses.                        *)
LoadedInPlace ==
  LET first == load.program[1]
      len == load.program[2]
      there(a) == \E c \in Loadable : design[c].simload[1].defined /\ Holds(c, a)
  IN  /\ \A o \in loaded : Base(o[1]) + o[2] = first + o[3] /\ o[3] < len
      /\ \A o, p \in loaded : o[3] = p[3] => o = p
      /\ load.result = "true" => {o[3] : o \in loaded} = 0..len - 1
      /\ load.result = "false" => ~there(first) \/ \E i \in 1..len - 1 : ~there(first + i)

(* The list is made, and every method that is called returns.              *)
CallsReturn == <>(pc = "bench") /\ [](call.op # "none" => <>(call.op = "none"))
=============================================================================
