------------------------ MODULE OrchestrationProofs ------------------------
(***************************************************************************)
(* Theorems about the handlers that solve a problem several times or ask a *)
(* language model about it, for every set of requests.                     *)
(***************************************************************************)
EXTENDS Orchestration, FiniteSetTheorems, WellFoundedInduction, TLAPS

-----------------------------------------------------------------------------
(* find_threshold, for every range, target and metric.                     *)

(* What is left contains the threshold: its end was tried and satisfies,   *)
(* what is before its beginning was tried and does not, and nothing in     *)
(* between has been tried.                                                 *)
Section ==
    /\ search.low <= lo /\ lo <= hi /\ hi <= search.high
    /\ hi \in evaluated
    /\ lo # search.low => lo - 1 \in evaluated
    /\ \A p \in evaluated : Satisfies(p) => p >= hi
    /\ \A p \in evaluated : ~Satisfies(p) => p < lo

(* What the search relies on: the metric's values need no type, as one that*)
(* is compared with the target satisfies it or does not.                   *)
InRange ==
    /\ search.low \in Int /\ search.high \in Int
    /\ stage \in {"off", "high", "middle", "found", "none", "raised"}
    /\ lo \in Int /\ hi \in Int
    /\ evaluated \subseteq search.low..search.high

SearchInv ==
    /\ InRange
    /\ Running => search.low <= search.high
    /\ stage \in {"off", "high"} => evaluated = {}
    /\ stage = "middle" => lo < hi
    /\ stage = "found" => lo = hi
    /\ stage \in {"middle", "found"} => Section
    /\ stage = "none" => search.high \in evaluated /\ ~Satisfies(search.high)

(* The middle of a section that is not a point lies in it, below its end.  *)
LEMMA MiddleWithin ==
    ASSUME NEW l \in Int, NEW h \in Int, l < h
    PROVE  /\ l + (h - l) \div 2 \in Int
           /\ l <= l + (h - l) \div 2
           /\ l + (h - l) \div 2 < h
PROOF
  <1> DEFINE d == h - l
  <1>1. d \in Nat /\ d > 0
    OBVIOUS
  <1>2. d \div 2 \in Nat /\ d \div 2 < d
    BY <1>1
  <1> QED
    BY <1>2

LEMMA InitSearch == SearchInit => SearchInv
PROOF
  <1> SUFFICES ASSUME SearchInit PROVE SearchInv
    OBVIOUS
  <1>1. InRange
    BY DEF SearchInit, InRange, Idle
  <1> QED
    BY <1>1 DEF SearchInit, SearchInv, Running, Section

LEMMA StartKeeps ==
    ASSUME SearchInv, NEW s, s.low \in Int, s.high \in Int, Start(s)
    PROVE  SearchInv'
PROOF BY DEF SearchInv, InRange, Start, Running, Section

LEMMA RaiseKeeps ==
    ASSUME SearchInv, Raise
    PROVE  SearchInv'
PROOF
  <1>1. InRange'
    BY DEF SearchInv, InRange, Raise
  <1> QED
    BY <1>1 DEF SearchInv, Raise, Running

LEMMA TryHighKeeps ==
    ASSUME SearchInv, TryHigh
    PROVE  SearchInv'
PROOF
  <1>1. /\ search' = search /\ evaluated' = {search.high} /\ search.low <= search.high
        /\ search.low \in Int /\ search.high \in Int
    BY DEF SearchInv, InRange, TryHigh, Running
  <1>2. CASE Satisfies(search.high)
    <2>1. /\ lo' = search.low /\ hi' = search.high
          /\ stage' = IF search.low < search.high THEN "middle" ELSE "found"
      BY <1>2 DEF TryHigh, Onwards
    <2>2. Section'
      BY <1>1, <1>2, <2>1 DEF Section, Satisfies
    <2>3. InRange'
      BY <1>1, <2>1 DEF SearchInv, InRange
    <2> QED
      BY <1>1, <2>1, <2>2, <2>3 DEF SearchInv, Running
  <1>3. CASE ~Satisfies(search.high)
    <2>1. stage' = "none" /\ lo' = lo /\ hi' = hi
      BY <1>3 DEF TryHigh
    <2>2. search'.high \in evaluated' /\ ~Satisfies(search.high)'
      BY <1>1, <1>3 DEF Satisfies
    <2>3. InRange'
      BY <1>1, <2>1 DEF SearchInv, InRange
    <2> QED
      BY <1>1, <2>1, <2>2, <2>3 DEF SearchInv, Running
  <1> QED
    BY <1>2, <1>3

LEMMA TryMiddleKeeps ==
    ASSUME SearchInv, TryMiddle
    PROVE  SearchInv'
PROOF
  <1>1. /\ search' = search /\ evaluated' = evaluated \cup {Middle}
        /\ search.low \in Int /\ search.high \in Int /\ lo \in Int /\ hi \in Int
        /\ lo < hi /\ Section /\ evaluated \subseteq search.low..search.high
    BY DEF SearchInv, InRange, TryMiddle
  <1>2. Middle \in Int /\ lo <= Middle /\ Middle < hi
    BY <1>1, MiddleWithin DEF Middle
  <1>3. \A p : Satisfies(p)' <=> Satisfies(p)
    BY <1>1 DEF Satisfies
  <1>4. CASE Satisfies(Middle)
    <2>1. lo' = lo /\ hi' = Middle
      BY <1>4 DEF TryMiddle
    <2>2. stage' = IF lo < Middle THEN "middle" ELSE "found"
      BY <2>1 DEF TryMiddle, Onwards
    <2>3. Section'
      BY <1>1, <1>2, <1>3, <1>4, <2>1 DEF Section
    <2>4. InRange'
      BY <1>1, <1>2, <2>1, <2>2 DEF SearchInv, InRange, Section
    <2> QED
      BY <1>1, <1>2, <2>1, <2>2, <2>3, <2>4 DEF SearchInv, Running, Section
  <1>5. CASE ~Satisfies(Middle)
    <2>1. lo' = Middle + 1 /\ hi' = hi
      BY <1>5 DEF TryMiddle
    <2>2. stage' = IF Middle + 1 < hi THEN "middle" ELSE "found"
      BY <2>1 DEF TryMiddle, Onwards
    <2>3. Section'
      BY <1>1, <1>2, <1>3, <1>5, <2>1 DEF Section
    <2>4. InRange'
      BY <1>1, <1>2, <2>1, <2>2 DEF SearchInv, InRange, Section
    <2> QED
      BY <1>1, <1>2, <2>1, <2>2, <2>3, <2>4 DEF SearchInv, Running, Section
  <1> QED
    BY <1>4, <1>5

(* The invariant is inductive, whoever starts the search.                  *)
LEMMA StepKeeps == SearchInv /\ [SearchNext]_searchVars => SearchInv'
PROOF
  <1> SUFFICES ASSUME SearchInv, [SearchNext]_searchVars PROVE SearchInv'
    OBVIOUS
  <1>1. ASSUME NEW s \in Searches, Start(s) PROVE SearchInv'
    BY <1>1, StartKeeps, SearchesAssumption DEF IsSearch
  <1>2. CASE Evaluate
    BY <1>2, RaiseKeeps, TryHighKeeps, TryMiddleKeeps DEF Evaluate
  <1>3. CASE UNCHANGED searchVars
    BY <1>3 DEF searchVars, SearchInv, InRange, Section, Running, Satisfies
  <1> QED
    BY <1>1, <1>2, <1>3 DEF SearchNext

LEMMA SearchInvHolds == SearchSpec => []SearchInv
PROOF BY InitSearch, StepKeeps, PTL DEF SearchSpec

-----------------------------------------------------------------------------
(* The search's state stays in its types, for every set of searches.       *)
THEOREM SearchTypeCorrect == SearchSpec => []SearchTypeOK
PROOF
  <1>1. SearchInit => IsSearch(search)
    BY DEF SearchInit, IsSearch, Idle
  <1>2. IsSearch(search) /\ [SearchNext]_searchVars => IsSearch(search)'
    <2> SUFFICES ASSUME IsSearch(search), [SearchNext]_searchVars PROVE IsSearch(search)'
      OBVIOUS
    <2>1. search' = search \/ search' \in Searches
      BY DEF SearchNext, Start, Evaluate, Raise, TryHigh, TryMiddle, searchVars
    <2> QED
      BY <2>1, SearchesAssumption DEF IsSearch
  <1>3. SearchInv /\ IsSearch(search) => SearchTypeOK
    BY DEF SearchInv, InRange, SearchTypeOK
  <1> QED
    BY <1>1, <1>2, <1>3, SearchInvHolds, PTL DEF SearchSpec

LEMMA InvImpliesBoundary == SearchInv => ThresholdIsBoundary
PROOF
  <1> SUFFICES ASSUME SearchInv PROVE ThresholdIsBoundary
    OBVIOUS
  <1>1. CASE stage = "found"
    <2>1. lo = hi /\ Section /\ lo \in Int /\ evaluated \subseteq search.low..search.high
          /\ search.low \in Int /\ search.high \in Int
      BY <1>1 DEF SearchInv, InRange
    <2> QED
      BY <1>1, <2>1 DEF Section, ThresholdIsBoundary
  <1>2. CASE stage # "found"
    BY <1>2 DEF SearchInv, ThresholdIsBoundary
  <1> QED
    BY <1>1, <1>2

(* The threshold is the boundary between what was tried and satisfies and  *)
(* what was tried and does not, whatever the metric.                       *)
THEOREM FindsBoundary == SearchSpec => []ThresholdIsBoundary
PROOF BY SearchInvHolds, InvImpliesBoundary, PTL

LEMMA InvImpliesLeast == SearchInv => ThresholdIsLeast
PROOF
  <1> SUFFICES ASSUME SearchInv, Monotone PROVE
          /\ stage = "found" =>
                 /\ lo \in search.low..search.high /\ Satisfies(lo)
                 /\ \A p \in search.low..search.high : Satisfies(p) => lo <= p
          /\ stage = "none" => \A p \in search.low..search.high : ~Satisfies(p)
    BY DEF ThresholdIsLeast
  <1>1. search.low \in Int /\ search.high \in Int /\ lo \in Int
        /\ evaluated \subseteq search.low..search.high
    BY DEF SearchInv, InRange
  <1>2. ASSUME stage = "found" PROVE
            /\ lo \in search.low..search.high /\ Satisfies(lo)
            /\ \A p \in search.low..search.high : Satisfies(p) => lo <= p
    <2>1. lo \in evaluated /\ Satisfies(lo)
          /\ (lo # search.low => lo - 1 \in evaluated)
          /\ \A p \in evaluated : Satisfies(p) <=> p >= lo
      BY <1>2, InvImpliesBoundary DEF ThresholdIsBoundary
    <2>2. ASSUME NEW p \in search.low..search.high, Satisfies(p), p < lo PROVE FALSE
      <3>1. lo - 1 \in search.low..search.high /\ p <= lo - 1 /\ lo # search.low
        BY <1>1, <2>1, <2>2
      <3>2. Satisfies(lo - 1)
        BY <3>1, <2>2 DEF Monotone
      <3> QED
        BY <1>1, <2>1, <3>1, <3>2
    <2> QED
      BY <1>1, <2>1, <2>2
  <1>3. ASSUME stage = "none" PROVE \A p \in search.low..search.high : ~Satisfies(p)
    <2>1. search.high \in search.low..search.high /\ ~Satisfies(search.high)
      BY <1>1, <1>3 DEF SearchInv
    <2> QED
      BY <1>1, <2>1 DEF Monotone
  <1> QED
    BY <1>2, <1>3

(* With a metric that keeps satisfying once it does, the threshold is the  *)
(* least satisfying value of the range.                                    *)
THEOREM FindsLeast == SearchSpec => []ThresholdIsLeast
PROOF BY SearchInvHolds, InvImpliesLeast, PTL

-----------------------------------------------------------------------------
(* measure_call, for every number of calls and of runs.                    *)

MeterPlaces == AtWork \cup {"start", "failed", "reported"}
Processes == Meters \cup {Api}
Memories == SUBSET (Meters \X {"early", "late"} \cup {Unmeasured})

MeterTypeOK ==
    /\ meterAt \in [Meters -> MeterPlaces]
    /\ tracing \subseteq Processes
    /\ traced \in [Processes -> Memories]
    /\ peak \in [Meters -> Memories]
    /\ met \in [Meters -> SUBSET Meters]
    /\ beside \subseteq Meters

(* Who traces a process: a call at work in it, or one that failed there.   *)
SomebodyTraces ==
    \A q \in tracing : \E m \in Meters : ProcessOf(m) = q /\ meterAt[m] \in AtWork \cup {"failed"}

(* Calls at work in one process have met.                                  *)
Acquainted ==
    \A m, o \in Meters :
        m # o /\ ProcessOf(m) = ProcessOf(o) /\ meterAt[m] \in AtWork /\ meterAt[o] \in AtWork
            => o \in met[m]

Alone(m) == meterMode = "process" \/ met[m] = {}

(* What the trace and the peak of a call are that has met nobody.          *)
OwnMemory(m) ==
    Alone(m) =>
        /\ meterAt[m] \in {"early", "late", "read"} => ProcessOf(m) \in tracing
        /\ meterAt[m] = "early" => OwnBut(traced[ProcessOf(m)], {}, m)
        /\ meterAt[m] = "late" => OwnBut(traced[ProcessOf(m)], {<<m, "early">>}, m)
        /\ meterAt[m] = "read" => OwnBut(traced[ProcessOf(m)], Memory(m), m)
        /\ peak[m] \subseteq Memory(m) \cup Beside(m)
        /\ meterAt[m] \in {"stop", "reported"} => Memory(m) \subseteq peak[m]

(* Nothing is beside a call that has a process of its own.                 *)
NothingBeside == meterMode = "process" => beside = {}

MeterInv ==
    /\ MeterTypeOK
    /\ NothingBeside
    /\ SomebodyTraces
    /\ Acquainted
    /\ \A m \in Meters : OwnMemory(m)

-----------------------------------------------------------------------------
LEMMA InitMeter == ASSUME NEW mode, MeterInit(mode) PROVE MeterInv
PROOF BY DEF MeterInit, MeterInv, MeterTypeOK, MeterPlaces, Processes, Memories, AtWork,
             SomebodyTraces, Acquainted, OwnMemory, Alone, NothingBeside

LEMMA ProcessType == \A m \in Meters : ProcessOf(m) \in Processes
PROOF BY DEF ProcessOf, Processes

(* Calls with processes of their own, or which share the API's.            *)
LEMMA Sharing ==
    ASSUME NEW m \in Meters, NEW o \in Meters, m # o
    PROVE  /\ meterMode = "process" => ProcessOf(m) # ProcessOf(o)
           /\ meterMode' = meterMode => ProcessOf(m)' = ProcessOf(m)
PROOF BY DEF ProcessOf

(* Every action keeps the types.                                           *)
LEMMA MeterTypes ==
    ASSUME MeterTypeOK, MeasurementNext
    PROVE  MeterTypeOK'
PROOF
  <1> USE DEF MeterTypeOK, MeterGoes, MeterPlaces, AtWork
  <1>1. ASSUME NEW m \in Meters, TraceStart(m)
        PROVE  MeterTypeOK'
    <2>1. met' \in [Meters -> SUBSET Meters]
      BY <1>1 DEF TraceStart, Meets
    <2>2. traced' \in [Processes -> Memories]
      BY <1>1, ProcessType DEF TraceStart, Memories
    <2> QED
      BY <1>1, <2>1, <2>2, ProcessType DEF TraceStart
  <1>2. ASSUME NEW m \in Meters, NEW part \in {"early", "late"}, NEW next \in {"late", "read"},
               Allocate(m, part, next)
        PROVE  MeterTypeOK'
    <2>1. traced' \in [Processes -> Memories]
      BY <1>2, ProcessType DEF Allocate, Memories
    <2> QED
      BY <1>2, <2>1 DEF Allocate
  <1>3. ASSUME NEW m \in Meters, MeterFails(m)
        PROVE  MeterTypeOK'
    BY <1>3 DEF MeterFails
  <1>4. ASSUME NEW m \in Meters, ReadPeak(m)
        PROVE  MeterTypeOK'
    <2>1. peak' \in [Meters -> Memories]
      BY <1>4, ProcessType DEF ReadPeak, Memories
    <2> QED
      BY <1>4, <2>1 DEF ReadPeak
  <1>5. ASSUME NEW m \in Meters, TraceStop(m)
        PROVE  MeterTypeOK'
    <2>1. traced' \in [Processes -> Memories]
      BY <1>5, ProcessType DEF TraceStop, Memories
    <2> QED
      BY <1>5, <2>1 DEF TraceStop
  <1>6. ASSUME WorkBeside
        PROVE  MeterTypeOK'
    <2>1. traced' \in [Processes -> Memories]
      BY <1>6 DEF WorkBeside, Memories
    <2> QED
      BY <1>6, <2>1 DEF WorkBeside
  <1> QED
    BY <1>1, <1>2, <1>3, <1>4, <1>5, <1>6 DEF MeasurementNext

(* The first allocation after a start that found nobody goes to an empty   *)
(* trace, and whoever is at work meets the call that starts.               *)
LEMMA StartKeepsMeter ==
    ASSUME MeterInv, NEW m \in Meters, TraceStart(m), MeterTypeOK'
    PROVE  MeterInv'
PROOF
  <1> USE DEF MeterTypeOK, MeterPlaces, AtWork
  <1>0. \A o \in Meters : ProcessOf(o)' = ProcessOf(o)
    BY DEF TraceStart, MeterGoes, ProcessOf
  <1>1. /\ meterAt[m] = "start" /\ meterAt' = [meterAt EXCEPT ![m] = "early"]
        /\ meterMode' = meterMode /\ peak' = peak /\ beside' = beside
        /\ tracing' = tracing \cup {ProcessOf(m)}
        /\ traced' = [traced EXCEPT ![ProcessOf(m)] = IF ProcessOf(m) \in tracing THEN @ ELSE {}]
    BY DEF TraceStart, MeterGoes
  <1>2. /\ \A o \in Meters \ {m} : meterAt[o] \in AtWork /\ ProcessOf(o) = ProcessOf(m) =>
               m \in met'[o] /\ o \in met'[m]
        /\ \A o \in Meters \ {m} : meterAt[o] = "failed" /\ ProcessOf(o) = ProcessOf(m) => o \in met'[m]
        /\ \A o \in Meters : met[o] \subseteq met'[o]
    BY DEF MeterInv, TraceStart, Meets
  <1>3. SomebodyTraces' /\ NothingBeside'
    BY <1>0, <1>1 DEF MeterInv, SomebodyTraces, NothingBeside
  <1>4. Acquainted'
    BY <1>0, <1>1, <1>2 DEF MeterInv, Acquainted
  <1>5. ASSUME NEW o \in Meters, o # m, Alone(o)'
        PROVE  OwnMemory(o)'
    <2>1. Alone(o) /\ OwnMemory(o)
      BY <1>1, <1>2, <1>5 DEF MeterInv, Alone
    <2>2. /\ meterAt'[o] = meterAt[o] /\ peak'[o] = peak[o]
          /\ Memory(o)' = Memory(o) /\ Beside(o)' = Beside(o)
      BY <1>1, <1>5 DEF MeterInv, Memory, Beside
    <2>3. CASE ProcessOf(o) = ProcessOf(m)
      <3>1. meterAt[o] \notin {"early", "late", "read"}
        BY <1>2, <1>5, <2>3, Sharing, <1>1 DEF Alone
      <3> QED
        BY <2>1, <2>2, <3>1 DEF OwnMemory
    <2>4. CASE ProcessOf(o) # ProcessOf(m)
      <3>1. traced'[ProcessOf(o)] = traced[ProcessOf(o)]
            /\ (ProcessOf(o) \in tracing => ProcessOf(o) \in tracing')
        BY <1>1, <2>4, ProcessType DEF MeterInv
      <3> QED
        BY <1>0, <2>1, <2>2, <3>1 DEF OwnMemory, OwnBut
    <2> QED
      BY <2>3, <2>4
  <1>6. ASSUME Alone(m)'
        PROVE  OwnMemory(m)'
    <2>1. Alone(m) /\ OwnMemory(m)
      BY <1>1, <1>2, <1>6 DEF MeterInv, Alone
    <2>2. ProcessOf(m) \notin tracing
      <3>1. ASSUME NEW o \in Meters, ProcessOf(o) = ProcessOf(m), meterAt[o] \in AtWork \cup {"failed"}
            PROVE  FALSE
        BY <1>1, <1>2, <1>6, <3>1, Sharing DEF Alone
      <3> QED
        BY <3>1 DEF MeterInv, SomebodyTraces
    <2>3. meterAt'[m] = "early" /\ traced'[ProcessOf(m)] = {} /\ ProcessOf(m) \in tracing'
      BY <1>1, <2>2, ProcessType DEF MeterInv
    <2>4. peak'[m] \subseteq Memory(m)' \cup Beside(m)'
      BY <1>1, <2>1 DEF OwnMemory, Memory, Beside
    <2> QED
      BY <1>0, <2>3, <2>4 DEF OwnMemory, OwnBut
  <1> QED
    BY <1>3, <1>4, <1>5, <1>6 DEF MeterInv, OwnMemory

(* Two calls at work in one process are not alone.                         *)
LEMMA NotAlone ==
    ASSUME MeterInv, NEW m \in Meters, NEW o \in Meters, m # o,
           meterAt[m] \in AtWork, meterAt[o] \in AtWork, ProcessOf(m) = ProcessOf(o)
    PROVE  ~Alone(o)
PROOF BY Sharing DEF MeterInv, Acquainted, Alone

(* A call at work goes on, or fails, and changes no memory but that of its *)
(* process: those that are alone elsewhere do not see it.                  *)
LEMMA WorkLeavesOthers ==
    ASSUME MeterInv, NEW m \in Meters, meterAt[m] \in AtWork, NEW o \in Meters, o # m,
           UNCHANGED <<meterMode, met, beside>>,
           meterAt'[o] = meterAt[o], peak'[o] = peak[o],
           \A q \in Processes : q # ProcessOf(m) =>
               traced'[q] = traced[q] /\ (q \in tracing' <=> q \in tracing)
    PROVE  OwnMemory(o)'
PROOF
  <1>1. /\ ProcessOf(o)' = ProcessOf(o) /\ Memory(o)' = Memory(o) /\ Beside(o)' = Beside(o)
        /\ Alone(o)' <=> Alone(o)
    BY DEF ProcessOf, Memory, Alone, Beside
  <1>2. CASE ProcessOf(o) = ProcessOf(m)
    <2>1. meterAt[o] \in AtWork => ~Alone(o)
      BY <1>2, NotAlone
    <2> QED
      BY <1>1, <2>1 DEF MeterInv, OwnMemory, AtWork
  <1>3. CASE ProcessOf(o) # ProcessOf(m)
    <2>1. traced'[ProcessOf(o)] = traced[ProcessOf(o)]
          /\ (ProcessOf(o) \in tracing' <=> ProcessOf(o) \in tracing)
      BY <1>3, ProcessType
    <2> QED
      BY <1>1, <2>1 DEF MeterInv, OwnMemory, OwnBut
  <1> QED
    BY <1>2, <1>3

LEMMA AllocateKeepsMeter ==
    ASSUME MeterInv, NEW m \in Meters, MeterTypeOK',
           NEW part, NEW next, <<part, next>> \in {<<"early", "late">>, <<"late", "read">>},
           Allocate(m, part, next)
    PROVE  MeterInv'
PROOF
  <1> USE DEF AtWork
  <1>1. /\ meterAt[m] = part /\ meterAt' = [meterAt EXCEPT ![m] = next]
        /\ UNCHANGED <<meterMode, tracing, peak, met, beside>>
        /\ traced' = [traced EXCEPT ![ProcessOf(m)] =
                          IF ProcessOf(m) \in tracing THEN @ \cup {<<m, part>>} ELSE @]
        /\ part \in {"early", "late"} /\ next \in {"late", "read"}
    BY DEF Allocate, MeterGoes
  <1>2. \A o \in Meters : ProcessOf(o)' = ProcessOf(o)
    BY <1>1 DEF ProcessOf
  <1>3. SomebodyTraces' /\ Acquainted' /\ NothingBeside'
    BY <1>1, <1>2 DEF MeterInv, MeterTypeOK, SomebodyTraces, Acquainted, NothingBeside
  <1>4. ASSUME NEW o \in Meters, o # m
        PROVE  OwnMemory(o)'
    BY <1>1, <1>4, WorkLeavesOthers DEF MeterInv, MeterTypeOK
  <1>5. ASSUME Alone(m)'
        PROVE  OwnMemory(m)'
    <2>1. Alone(m) /\ OwnMemory(m)
      BY <1>1, <1>5 DEF MeterInv, Alone
    <2>2. traced'[ProcessOf(m)] = traced[ProcessOf(m)] \cup {<<m, part>>}
      BY <1>1, <2>1, ProcessType DEF OwnMemory, MeterInv, MeterTypeOK
    <2>3. meterAt'[m] = next /\ Memory(m)' = Memory(m) /\ Beside(m)' = Beside(m)
      BY <1>1 DEF MeterInv, MeterTypeOK, Memory, Beside
    <2> QED
      BY <1>1, <1>2, <2>1, <2>2, <2>3 DEF OwnMemory, OwnBut, Memory
  <1> QED
    BY <1>3, <1>4, <1>5 DEF MeterInv, OwnMemory

LEMMA FailsKeepsMeter ==
    ASSUME MeterInv, NEW m \in Meters, MeterFails(m), MeterTypeOK'
    PROVE  MeterInv'
PROOF
  <1> USE DEF AtWork
  <1>1. /\ meterAt[m] = "late" /\ meterAt' = [meterAt EXCEPT ![m] = "failed"]
        /\ UNCHANGED <<meterMode, tracing, traced, peak, met, beside>>
    BY DEF MeterFails, MeterGoes
  <1>2. \A o \in Meters : ProcessOf(o)' = ProcessOf(o)
    BY <1>1 DEF ProcessOf
  <1>3. SomebodyTraces' /\ Acquainted' /\ NothingBeside'
    BY <1>1, <1>2 DEF MeterInv, MeterTypeOK, SomebodyTraces, Acquainted, NothingBeside
  <1>4. ASSUME NEW o \in Meters
        PROVE  OwnMemory(o)'
    <2>1. Memory(o)' = Memory(o) /\ Beside(o)' = Beside(o)
      BY <1>1 DEF Memory, Beside
    <2> QED
      BY <1>1, <1>2, <1>4, <2>1 DEF MeterInv, MeterTypeOK, OwnMemory, OwnBut, Alone
  <1> QED
    BY <1>3, <1>4 DEF MeterInv

LEMMA ReadKeepsMeter ==
    ASSUME MeterInv, NEW m \in Meters, ReadPeak(m), MeterTypeOK'
    PROVE  MeterInv'
PROOF
  <1> USE DEF AtWork
  <1>1. /\ meterAt[m] = "read" /\ meterAt' = [meterAt EXCEPT ![m] = "stop"]
        /\ UNCHANGED <<meterMode, tracing, traced, met, beside>>
        /\ peak' = [peak EXCEPT ![m] =
                        @ \cup IF ProcessOf(m) \in tracing THEN traced[ProcessOf(m)] ELSE {}]
    BY DEF ReadPeak, MeterGoes
  <1>2. \A o \in Meters : ProcessOf(o)' = ProcessOf(o)
    BY <1>1 DEF ProcessOf
  <1>3. SomebodyTraces' /\ Acquainted' /\ NothingBeside'
    BY <1>1, <1>2 DEF MeterInv, MeterTypeOK, SomebodyTraces, Acquainted, NothingBeside
  <1>4. ASSUME NEW o \in Meters, o # m
        PROVE  OwnMemory(o)'
    BY <1>1, <1>4, WorkLeavesOthers DEF MeterInv, MeterTypeOK
  <1>5. ASSUME Alone(m)'
        PROVE  OwnMemory(m)'
    <2>1. Alone(m) /\ OwnMemory(m)
      BY <1>1, <1>5 DEF MeterInv, Alone
    <2>2. /\ peak'[m] = peak[m] \cup traced[ProcessOf(m)]
          /\ OwnBut(traced[ProcessOf(m)], Memory(m), m)
      BY <1>1, <2>1 DEF OwnMemory, MeterInv, MeterTypeOK
    <2>3. meterAt'[m] = "stop" /\ Memory(m)' = Memory(m) /\ Beside(m)' = Beside(m)
      BY <1>1 DEF MeterInv, MeterTypeOK, Memory, Beside
    <2> QED
      BY <2>1, <2>2, <2>3 DEF OwnMemory, OwnBut
  <1> QED
    BY <1>3, <1>4, <1>5 DEF MeterInv, OwnMemory

LEMMA StopKeepsMeter ==
    ASSUME MeterInv, NEW m \in Meters, TraceStop(m), MeterTypeOK'
    PROVE  MeterInv'
PROOF
  <1> USE DEF AtWork
  <1>1. /\ meterAt[m] = "stop"
        /\ \E p \in {"start", "reported"} : meterAt' = [meterAt EXCEPT ![m] = p]
        /\ UNCHANGED <<meterMode, peak, met, beside>>
        /\ tracing' = tracing \ {ProcessOf(m)}
        /\ traced' = [traced EXCEPT ![ProcessOf(m)] = {}]
    BY DEF TraceStop, MeterGoes
  <1>2. \A o \in Meters : ProcessOf(o)' = ProcessOf(o)
    BY <1>1 DEF ProcessOf
  <1>3. meterAt'[m] \in {"start", "reported"} /\ \A o \in Meters \ {m} : meterAt'[o] = meterAt[o]
    BY <1>1 DEF MeterInv, MeterTypeOK
  <1>4. SomebodyTraces' /\ Acquainted' /\ NothingBeside'
    BY <1>1, <1>2, <1>3 DEF MeterInv, SomebodyTraces, Acquainted, NothingBeside
  <1>5. ASSUME NEW o \in Meters, o # m
        PROVE  OwnMemory(o)'
    BY <1>1, <1>3, <1>5, WorkLeavesOthers DEF MeterInv, MeterTypeOK
  <1>6. OwnMemory(m)'
    <2>1. Memory(m)' = Memory(m) /\ Beside(m)' = Beside(m)
      BY <1>1 DEF Memory, Beside
    <2> QED
      BY <1>1, <1>3, <2>1 DEF MeterInv, OwnMemory, Alone
  <1> QED
    BY <1>4, <1>5, <1>6 DEF MeterInv

(* Work beside goes into the trace of the API and is remembered by those   *)
(* whose trace it is; it is nobody's who has a process of its own.         *)
LEMMA BesideKeepsMeter ==
    ASSUME MeterInv, WorkBeside, MeterTypeOK'
    PROVE  MeterInv'
PROOF
  <1> USE DEF AtWork
  <1>1. /\ UNCHANGED <<meterMode, meterAt, tracing, peak, met>>
        /\ traced' = [traced EXCEPT ![Api] = IF Api \in tracing THEN @ \cup {Unmeasured} ELSE @]
        /\ beside' = beside \cup {m \in Meters : ProcessOf(m) = Api
                                                /\ meterAt[m] \in {"early", "late", "read"}}
    BY DEF WorkBeside
  <1>2. \A m \in Meters : ProcessOf(m)' = ProcessOf(m)
    BY <1>1 DEF ProcessOf
  <1>3. SomebodyTraces' /\ Acquainted'
    BY <1>1, <1>2 DEF MeterInv, SomebodyTraces, Acquainted
  <1>4. NothingBeside'
    BY <1>1, MeasurementAssumption DEF MeterInv, NothingBeside, ProcessOf
  <1>5. ASSUME NEW m \in Meters, Alone(m)'
        PROVE  OwnMemory(m)'
    <2>1. Alone(m) /\ OwnMemory(m) /\ Memory(m)' = Memory(m) /\ Beside(m) \subseteq Beside(m)'
      BY <1>1, <1>5 DEF MeterInv, Alone, Memory, Beside
    <2>2. CASE ProcessOf(m) = Api /\ meterAt[m] \in {"early", "late", "read"}
      <3>1. Beside(m)' = {Unmeasured}
        BY <1>1, <2>2 DEF Beside, Unmeasured
      <3>2. traced'[ProcessOf(m)] = traced[ProcessOf(m)] \cup {Unmeasured}
        BY <1>1, <2>1, <2>2, ProcessType DEF OwnMemory, MeterInv, MeterTypeOK
      <3> QED
        BY <1>1, <1>2, <2>1, <2>2, <3>1, <3>2 DEF OwnMemory, OwnBut
    <2>3. CASE ~(ProcessOf(m) = Api /\ meterAt[m] \in {"early", "late", "read"})
      <3>1. meterAt[m] \in {"early", "late", "read"} => traced'[ProcessOf(m)] = traced[ProcessOf(m)]
        BY <1>1, <2>3, ProcessType DEF MeterInv, MeterTypeOK
      <3> QED
        BY <1>1, <1>2, <2>1, <3>1 DEF OwnMemory, OwnBut
    <2> QED
      BY <2>2, <2>3
  <1> QED
    BY <1>3, <1>4, <1>5 DEF MeterInv, OwnMemory

LEMMA MeterStep == MeterInv /\ [MeasurementNext]_meterVars => MeterInv'
PROOF
  <1> SUFFICES ASSUME MeterInv, [MeasurementNext]_meterVars PROVE MeterInv'
    OBVIOUS
  <1>1. CASE MeasurementNext
    <2>1. MeterTypeOK'
      BY <1>1, MeterTypes DEF MeterInv
    <2> QED
      BY <1>1, <2>1, StartKeepsMeter, AllocateKeepsMeter, FailsKeepsMeter, ReadKeepsMeter,
         StopKeepsMeter, BesideKeepsMeter DEF MeasurementNext
  <1>2. CASE UNCHANGED meterVars
    BY <1>2 DEF meterVars, MeterInv, MeterTypeOK, SomebodyTraces, Acquainted, OwnMemory, Alone,
                Memory, ProcessOf, OwnBut, Beside, NothingBeside
  <1> QED
    BY <1>1, <1>2

(* Every peak that measure_call reports holds the whole memory of its own  *)
(* computation.  With SOLVE_ISOLATION = process it holds nothing else;     *)
(* in threads, what work the API did beside it, and the memory of other    *)
(* measurements only if the call met one at work, or one that had failed.  *)
THEOREM PeaksAreOwn ==
    ASSUME NEW CONSTANT mode
    PROVE  MeterInit(mode) /\ [][MeasurementNext]_meterVars => []PeakIsOwn
PROOF
  <1>1. MeterInit(mode) => MeterInv
    BY InitMeter
  <1>2. MeterInv => PeakIsOwn
    BY DEF MeterInv, OwnMemory, OwnBut, Alone, PeakIsOwn, NothingBeside, Beside
  <1> QED
    BY <1>1, <1>2, MeterStep, PTL

-----------------------------------------------------------------------------
(* A set that is matched with a finite one is as large.                    *)
LEMMA MatchedSets ==
    ASSUME NEW S, NEW T, IsFiniteSet(S), NEW f \in [S -> T],
           \A x, y \in S : f[x] = f[y] => x = y,
           \A z \in T : \E x \in S : f[x] = z
    PROVE  IsFiniteSet(T) /\ Cardinality(T) = Cardinality(S)
PROOF
  <1>1. f \in Bijection(S, T)
    BY DEF Bijection, Injection, Surjection, IsInjective
  <1>2. ExistsBijection(S, T)
    BY <1>1 DEF ExistsBijection
  <1> QED
    BY <1>2, FS_Bijection

-----------------------------------------------------------------------------
(* Powers of two, as the numbers of subsets.                               *)

LEMMA IntervalCounts ==
    ASSUME NEW k \in Nat
    PROVE  IsFiniteSet(1..k) /\ Cardinality(1..k) = k
PROOF
  <1>1. IsFiniteSet(1..k) /\ Cardinality(1..k) = IF 1 > k THEN 0 ELSE k - 1 + 1
    BY FS_Interval
  <1> QED
    BY <1>1

LEMMA CountsFromZero ==
    ASSUME NEW n \in Nat
    PROVE  IsFiniteSet(0..(n - 1)) /\ Cardinality(0..(n - 1)) = n
PROOF
  <1>1. ASSUME NEW m \in Int, n = m + 1
        PROVE  IsFiniteSet(0..m) /\ Cardinality(0..m) = n
    <2>1. IsFiniteSet(0..m) /\ Cardinality(0..m) = IF 0 > m THEN 0 ELSE m - 0 + 1
      BY FS_Interval
    <2> QED
      BY <1>1, <2>1
  <1>2. n - 1 \in Int /\ n = (n - 1) + 1
    OBVIOUS
  <1> QED
    BY <1>1, <1>2

LEMMA SubsetsOfInterval ==
    ASSUME NEW k \in Nat
    PROVE  /\ IsFiniteSet(1..k) /\ IsFiniteSet(SUBSET (1..k))
           /\ Cardinality(1..k) = k
           /\ Cardinality(SUBSET (1..k)) = 2^k /\ 2^k \in Nat
PROOF
  <1>1. IsFiniteSet(1..k)
    BY IntervalCounts
  <1>2. Cardinality(1..k) = k
    BY IntervalCounts
  <1>3. IsFiniteSet(SUBSET (1..k)) /\ Cardinality(SUBSET (1..k)) = 2^k
    BY <1>1, <1>2, FS_SUBSET
  <1>4. Cardinality(SUBSET (1..k)) \in Nat
    BY <1>3, FS_CardinalityType
  <1> QED
    BY <1>1, <1>2, <1>3, <1>4

LEMMA PowersAreNatural == \A k \in Nat : 2^k \in Nat
PROOF BY SubsetsOfInterval

LEMMA PowerOfNone ==
    ASSUME NEW k \in Nat, k = 0
    PROVE  2^k = 1
PROOF
  <1>1. SUBSET (1..k) = {{}}
    OBVIOUS
  <1>2. Cardinality({{}}) = 1
    BY FS_Singleton
  <1> QED
    BY <1>1, <1>2, SubsetsOfInterval

LEMMA PowersGrow ==
    ASSUME NEW j \in Nat, NEW k \in Nat, j <= k
    PROVE  2^j <= 2^k
PROOF
  <1>1. SUBSET (1..j) \subseteq SUBSET (1..k)
    OBVIOUS
  <1>2. Cardinality(SUBSET (1..j)) <= Cardinality(SUBSET (1..k))
    BY <1>1, SubsetsOfInterval, FS_Subset
  <1> QED
    BY <1>2, SubsetsOfInterval

(* Every subset is without the last element, or is one that is and has it. *)
LEMMA PowerDoubles ==
    ASSUME NEW k \in Nat
    PROVE  2^(k + 1) = 2 * 2^k
PROOF
  <1> DEFINE S == SUBSET (1..k)
             With == {T \cup {k + 1} : T \in S}
             f == [T \in S |-> T \cup {k + 1}]
  <1>1. SUBSET (1..(k + 1)) = S \cup With
    <2>1. ASSUME NEW T \in SUBSET (1..(k + 1)), T \notin S PROVE T \in With
      <3>1. k + 1 \in T /\ T \ {k + 1} \in S
        BY <2>1
      <3>2. T = (T \ {k + 1}) \cup {k + 1}
        BY <3>1
      <3> QED
        BY <3>1, <3>2
    <2>2. S \subseteq SUBSET (1..(k + 1)) /\ \A T \in S : T \cup {k + 1} \subseteq 1..(k + 1)
      OBVIOUS
    <2>3. With \subseteq SUBSET (1..(k + 1))
      BY <2>2
    <2> HIDE DEF S, With
    <2> QED
      BY <2>1, <2>2, <2>3
  <1>2. S \cap With = {}
    OBVIOUS
  <1>3. /\ f \in [S -> With] /\ \A y \in With : \E x \in S : f[x] = y
        /\ \A T, U \in S : f[T] = f[U] => T = U
    <2>1. f \in [S -> With] /\ \A y \in With : \E x \in S : f[x] = y
      OBVIOUS
    <2>2. ASSUME NEW T \in S, NEW U \in S, f[T] = f[U] PROVE T = U
      <3>1. k + 1 \notin T /\ k + 1 \notin U /\ T \cup {k + 1} = U \cup {k + 1}
        BY <2>2
      <3> QED
        BY <3>1
    <2> QED
      BY <2>1, <2>2
  <1>4. IsFiniteSet(S) /\ Cardinality(S) = 2^k /\ 2^k \in Nat
    BY SubsetsOfInterval
  <1>5. IsFiniteSet(With) /\ Cardinality(With) = Cardinality(S)
    <2> HIDE DEF S, With, f
    <2> QED
      BY <1>3, <1>4, MatchedSets
  <1>6. Cardinality(S \cup With) = Cardinality(S) + Cardinality(With) - Cardinality(S \cap With)
    BY <1>4, <1>5, FS_Union
  <1>7. Cardinality(S \cap With) = 0
    BY <1>2, FS_EmptySet
  <1>8. Cardinality(SUBSET (1..(k + 1))) = 2^(k + 1)
    <2>1. k + 1 \in Nat
      OBVIOUS
    <2> QED
      BY <2>1, SubsetsOfInterval
  <1>9. Cardinality(S \cup With) = 2^k + 2^k
    <2> HIDE DEF S, With
    <2> QED
      BY <1>4, <1>5, <1>6, <1>7
  <1>10. 2^(k + 1) = Cardinality(S \cup With)
    BY <1>1, <1>8
  <1> QED
    BY <1>4, <1>9, <1>10

LEMMA PowersExceed ==
    ASSUME NEW k \in Nat
    PROVE  2^k > k
PROOF
  <1> DEFINE S == SUBSET (1..k)
             Points == {{i} : i \in 1..k}
             f == [i \in 1..k |-> {i}]
  <1>1. /\ f \in [1..k -> Points] /\ \A y \in Points : \E x \in 1..k : f[x] = y
        /\ \A i, j \in 1..k : f[i] = f[j] => i = j
    OBVIOUS
  <1>2. IsFiniteSet(Points) /\ Cardinality(Points) = k
    <2>1. IsFiniteSet(1..k) /\ Cardinality(1..k) = k
      BY SubsetsOfInterval
    <2> HIDE DEF Points, f
    <2> QED
      BY <1>1, <2>1, MatchedSets
  <1>3. IsFiniteSet(S) /\ Cardinality(S) = 2^k /\ 2^k \in Nat
    BY SubsetsOfInterval
  <1>4. Points \subseteq S /\ Points # S
    <2>1. {} \in S /\ {} \notin Points
      OBVIOUS
    <2> QED
      BY <2>1
  <1>5. Cardinality(Points) <= Cardinality(S) /\ (Cardinality(Points) = Cardinality(S) => Points = S)
    BY <1>3, <1>4, FS_Subset
  <1> QED
    BY <1>2, <1>3, <1>4, <1>5

LEMMA LeastNatural ==
    ASSUME NEW S, S \subseteq Nat, S # {}
    PROVE  \E n \in S : \A m \in S : n <= m
PROOF
  <1>1. \E n \in S : \A m \in S : ~(<<m, n>> \in OpToRel(<, Nat))
    BY NatLessThanWellFounded, WFMin
  <1>2. PICK n \in S : \A m \in S : ~(<<m, n>> \in OpToRel(<, Nat))
    BY <1>1
  <1>3. ASSUME NEW m \in S PROVE n <= m
    <2>1. <<m, n>> \notin OpToRel(<, Nat)
      BY <1>2
    <2>2. n \in Nat /\ m \in Nat
      OBVIOUS
    <2>3. ~(m < n)
      BY <2>1, <2>2 DEF OpToRel
    <2> QED
      BY <2>2, <2>3
  <1> QED
    BY <1>3

(* The bit length of a number is the least power of two beyond it.         *)
LEMMA BitLengthFits ==
    ASSUME NEW n \in Nat
    PROVE  /\ BitLength(n) \in 0..n
           /\ 2^BitLength(n) > n
           /\ \A j \in 0..n : j < BitLength(n) => 2^j <= n
PROOF
  <1> DEFINE Beyond == {k \in 0..n : 2^k > n}
  <1>1. n \in Beyond
    BY PowersExceed
  <1>2. Beyond \subseteq Nat
    OBVIOUS
  <1>3. PICK k \in Beyond : \A m \in Beyond : k <= m
    <2> HIDE DEF Beyond
    <2> QED
      BY <1>1, <1>2, LeastNatural
  <1>4. ASSUME NEW j \in 0..n, j < k PROVE 2^j <= n
    <2>1. j \notin Beyond
      BY <1>3, <1>4
    <2>2. j \in Nat /\ 2^j \in Nat
      BY PowersAreNatural
    <2> QED
      BY <2>1, <2>2
  <1>5. \E i \in 0..n : 2^i > n /\ \A j \in 0..n : j < i => 2^j <= n
    BY <1>3, <1>4
  <1> QED
    BY <1>5 DEF BitLength

-----------------------------------------------------------------------------
(* The handlers' steps.                                                    *)

(* A request is handled in the steps of its own kind.                      *)
Routed ==
    /\ request \in Received
    /\ \/ request.kind = "simulate" /\ at \in {"base", "scenarios", "search", "done"}
       \/ request.kind = "benchmark" /\ at \in {"benchmark", "measure", "done"}
       \/ request.kind = "compare" /\ at \in {"compare", "run", "done"}
       \/ request.kind = "structure" /\
              at \in {"classify", "extract", "data", "assemble", "validate", "done"}
       \/ request.kind = "recommend" /\ at \in {"recommend", "ranked", "done"}
       \/ request.kind = "measure" /\ at = "measurements"

LEMMA InitRouted == Init => Routed
PROOF BY ReceivedAssumption DEF Init, Routed, Kinds, FirstStep

SimulationStep ==
    \/ SolveBase \/ BaseTimesOut \/ SolveScenario \/ ScenarioTimesOut
    \/ WithoutSearch \/ StartSearch \/ SearchReturns \/ SearchFails \/ SearchTimesOut

TrialStep ==
    \/ BeginBenchmark \/ MeasureNext \/ MeasureTimesOut \/ FinishBenchmark
    \/ BeginComparison \/ RunOnce \/ FinishComparison

ModelStep ==
    \/ Classify \/ ExtractObjectivesConstraints \/ ExtractDomainData \/ LlmFails
    \/ AssembleProblem \/ ValidateProblem
    \/ InvokeLlm \/ RecommendByRule \/ RecommendRanked

(* What a step of the whole system is.                                     *)
LEMMA NextIs ==
    ASSUME [Next]_vars
    PROVE  \/ SimulationStep /\ UNCHANGED meterVars
           \/ EvaluateNext /\ UNCHANGED meterVars
           \/ TrialStep /\ UNCHANGED <<searchVars, meterVars>>
           \/ ModelStep /\ UNCHANGED <<searchVars, meterVars>>
           \/ MeasurementNext /\ UNCHANGED <<handlerVars, searchVars>>
           \/ UNCHANGED <<handlerVars, searchVars, meterVars>>
PROOF BY Zenon DEF Next, vars, others, SimulationStep, TrialStep, ModelStep

(* Where a scenario's result goes.                                         *)
LEMMA NoteGoes ==
    ASSUME NEW result, NoteScenario(result)
    PROVE  (at' = "scenarios" \/ at' = "done") /\ request' = request
PROOF BY DEF NoteScenario, Proceed, Reply, Answered

LEMMA SimulationRoutes ==
    ASSUME Routed, SimulationStep
    PROVE  Routed' /\ request' = request /\ request.kind = "simulate"
PROOF
  <1> USE DEF Routed
  <1>1. CASE SolveBase
    BY <1>1 DEF SolveBase, BaseEnds, Proceed, Reply
  <1>2. CASE SolveScenario
    BY <1>2, NoteGoes DEF SolveScenario
  <1>3. CASE ScenarioTimesOut
    BY <1>3, NoteGoes DEF ScenarioTimesOut
  <1>4. CASE BaseTimesOut \/ WithoutSearch \/ SearchReturns \/ SearchFails \/ SearchTimesOut
    BY <1>4 DEF BaseTimesOut, WithoutSearch, SearchReturns, SearchFails, SearchTimesOut, Reply
  <1>5. CASE StartSearch
    BY <1>5 DEF StartSearch, Proceed
  <1> QED
    BY <1>1, <1>2, <1>3, <1>4, <1>5 DEF SimulationStep

LEMMA TrialRoutes ==
    ASSUME Routed, TrialStep
    PROVE  Routed' /\ request' = request /\ request.kind \in {"benchmark", "compare"}
PROOF
  <1> USE DEF Routed, Proceed, Reply
  <1>1. CASE BeginBenchmark \/ FinishBenchmark
    BY <1>1 DEF BeginBenchmark, FinishBenchmark
  <1>2. CASE MeasureNext
    BY <1>2 DEF MeasureNext, Measuring, MeasureWith, Measured
  <1>3. CASE MeasureTimesOut
    BY <1>3 DEF MeasureTimesOut, Measuring
  <1>4. CASE BeginComparison \/ FinishComparison
    BY <1>4 DEF BeginComparison, FinishComparison
  <1>5. CASE RunOnce
    BY <1>5 DEF RunOnce
  <1> QED
    BY <1>1, <1>2, <1>3, <1>4, <1>5 DEF TrialStep

LEMMA ModelRoutes ==
    ASSUME Routed, ModelStep
    PROVE  Routed' /\ request' = request /\ request.kind \in {"structure", "recommend"}
PROOF
  <1> USE DEF Routed, Proceed, Reply
  <1>1. CASE Classify \/ ExtractObjectivesConstraints \/ ExtractDomainData \/ LlmFails
    BY <1>1 DEF Classify, ExtractObjectivesConstraints, ExtractDomainData, LlmFails
  <1>2. CASE AssembleProblem \/ ValidateProblem
    BY <1>2 DEF AssembleProblem, ValidateProblem
  <1>3. CASE InvokeLlm \/ RecommendByRule \/ RecommendRanked
    BY <1>3 DEF InvokeLlm, RecommendByRule, RecommendRanked
  <1> QED
    BY <1>1, <1>2, <1>3 DEF ModelStep

LEMMA NextRoutes ==
    ASSUME Routed, [Next]_vars
    PROVE  Routed'
PROOF
  <1>1. ASSUME UNCHANGED handlerVars PROVE Routed'
    BY <1>1 DEF handlerVars, Routed
  <1>2. ASSUME EvaluateNext PROVE Routed'
    BY <1>1, <1>2 DEF EvaluateNext
  <1> QED
    BY <1>1, <1>2, NextIs, SimulationRoutes, TrialRoutes, ModelRoutes, Zenon

(* The bisection in the composition: it starts on integers.                *)
LEMMA ComposedSearch ==
    ASSUME Routed, SearchInv, [Next]_vars
    PROVE  SearchInv'
PROOF
  <1>1. ASSUME UNCHANGED searchVars PROVE SearchInv'
    BY <1>1 DEF searchVars, SearchInv, InRange, Section, Running, Satisfies
  <1>2. ASSUME StartSearch PROVE SearchInv'
    <2> DEFINE s == SearchOf(request.problem, FixedAlgorithm, request.sensitivity)
    <2>1. request \in Received /\ request.kind = "simulate" /\ request.sensitivity # None
      BY <1>2 DEF StartSearch, Routed
    <2>2. s.low \in Int /\ s.high \in Int
      BY <2>1, ReceivedAssumption DEF SearchOf
    <2>3. Start(s)
      BY <1>2 DEF StartSearch
    <2> HIDE DEF s
    <2> QED
      BY <2>2, <2>3, StartKeeps
  <1>3. ASSUME EvaluateNext PROVE SearchInv'
    BY <1>3, RaiseKeeps, TryHighKeeps, TryMiddleKeeps DEF EvaluateNext, Evaluate
  <1>4. ASSUME SimulationStep PROVE StartSearch \/ UNCHANGED searchVars
    BY <1>4, Zenon DEF SimulationStep, SolveBase, BaseTimesOut, SolveScenario, ScenarioTimesOut,
             WithoutSearch, SearchReturns, SearchFails, SearchTimesOut
  <1> QED
    BY <1>1, <1>2, <1>3, <1>4, NextIs, Zenon

-----------------------------------------------------------------------------
(* The budget of the bisection.                                            *)

Steps == search.high - search.low

(* Every evaluation but the first halves what is left; the last one may be *)
(* of two values.                                                          *)
Halved ==
    /\ IsFiniteSet(evaluated)
    /\ stage = "middle" =>
           Cardinality(evaluated) >= 1 /\ (hi - lo) * 2^(Cardinality(evaluated) - 1) <= Steps
    /\ stage \in {"found", "none", "raised"} =>
           \/ Cardinality(evaluated) \in {0, 1}
           \/ Cardinality(evaluated) >= 2 /\ 2^(Cardinality(evaluated) - 2) <= Steps

(* The caller gave up although no evaluation overran its time.             *)
GaveUp ==
    /\ request.kind = "simulate" /\ at = "done" /\ reply.outcome = "answered"
    /\ "late" \in DOMAIN reply.body.sensitivity /\ ~reply.body.sensitivity.late

NoPower == Steps >= 0 /\ \A k \in 0..Steps : Steps + 1 # 2^k

(* The halves of a section, doubled, are no more than the section.         *)
LEMMA HalfOfSection ==
    ASSUME NEW l \in Int, NEW h \in Int, l < h, NEW q \in Nat, NEW steps \in Int,
           (h - l) * q <= steps
    PROVE  LET m == l + (h - l) \div 2
           IN  /\ (m - l) * (2 * q) <= steps
               /\ (h - (m + 1)) * (2 * q) <= steps
PROOF
  <1> DEFINE d == h - l
             e == d \div 2
  <1>1. d \in Nat /\ e \in Nat /\ 2 * e <= d /\ 2 * (d - e - 1) <= d /\ d - e - 1 \in Nat
    OBVIOUS
  <1>2. \A a \in Nat : 2 * a <= d => a * (2 * q) <= d * q
    <2> TAKE a \in Nat
    <2> HAVE 2 * a <= d
    <2>1. a * (2 * q) = (2 * a) * q
      OBVIOUS
    <2>2. d = 2 * a + (d - 2 * a) /\ d - 2 * a \in Nat
      BY <1>1
    <2>3. PICK r \in Nat : d = 2 * a + r
      BY <2>2
    <2>4. d * q = (2 * a) * q + r * q /\ r * q \in Nat
      BY <2>3
    <2> HIDE DEF d
    <2> QED
      BY <1>1, <2>1, <2>4
  <1>3. (l + e) - l = e /\ h - ((l + e) + 1) = d - e - 1
    BY <1>1
  <1> HIDE DEF e
  <1>4. e * (2 * q) <= d * q /\ (d - e - 1) * (2 * q) <= d * q
    BY <1>1, <1>2
  <1> QED
    BY <1>3, <1>4 DEF e

LEMMA PowerBefore ==
    ASSUME NEW n \in Nat, n >= 1
    PROVE  2^(n - 1) \in Nat /\ 2^(n - 1) >= 1 /\ 2^n = 2 * 2^(n - 1)
PROOF
  <1>1. n - 1 \in Nat /\ (n - 1) + 1 = n
    OBVIOUS
  <1> QED
    BY <1>1, PowersAreNatural, PowerDoubles, PowersExceed

(* In a section of more than one value, what is left counts.               *)
LEMMA SectionCounts ==
    ASSUME SearchInv, Halved, stage = "middle"
    PROVE  2^(Cardinality(evaluated) - 1) <= Steps
PROOF
  <1> DEFINE n == Cardinality(evaluated)
             q == 2^(n - 1)
  <1>1. n \in Nat /\ n >= 1 /\ (hi - lo) * q <= Steps
    BY FS_CardinalityType DEF Halved
  <1>2. lo \in Int /\ hi \in Int /\ lo < hi /\ Steps \in Int
    BY DEF SearchInv, InRange, Steps
  <1>3. q \in Nat
    BY <1>1, PowerBefore
  <1>4. PICK r \in Nat : hi - lo = 1 + r
    <2>1. (hi - lo) - 1 \in Nat /\ hi - lo = 1 + ((hi - lo) - 1)
      BY <1>2
    <2> QED
      BY <2>1
  <1> HIDE DEF q
  <1>5. (1 + r) * q = q + r * q /\ r * q \in Nat
    BY <1>3
  <1> QED
    BY <1>1, <1>2, <1>3, <1>4, <1>5 DEF q

LEMMA HighHalves ==
    ASSUME SearchInv, Halved, TryHigh
    PROVE  Halved'
PROOF
  <1>1. evaluated' = {search.high} /\ search' = search /\ Steps' = Steps /\ Steps \in Int
    BY DEF TryHigh, Steps, SearchInv, InRange
  <1>2. IsFiniteSet(evaluated') /\ Cardinality(evaluated') = 1
    BY <1>1, FS_Singleton
  <1>3. 2^(1 - 1) = 1
    OBVIOUS
  <1>4. stage' = "middle" => hi' - lo' = Steps
    BY <1>1 DEF TryHigh, Steps
  <1>5. stage' = "middle" => (hi' - lo') * 2^(Cardinality(evaluated') - 1) <= Steps'
    BY <1>1, <1>2, <1>3, <1>4
  <1> QED
    BY <1>2, <1>5 DEF Halved

LEMMA MiddleHalves ==
    ASSUME SearchInv, Halved, TryMiddle
    PROVE  Halved'
PROOF
  <1> DEFINE n == Cardinality(evaluated)
             q == 2^(n - 1)
  <1>1. /\ evaluated' = evaluated \cup {Middle} /\ search' = search /\ Steps' = Steps
        /\ Steps \in Int /\ lo \in Int /\ hi \in Int /\ lo < hi /\ Section /\ stage = "middle"
    BY DEF TryMiddle, Steps, SearchInv, InRange
  <1>2. Middle \in Int /\ lo <= Middle /\ Middle < hi
    BY <1>1, MiddleWithin DEF Middle
  <1>3. Middle \notin evaluated
    BY <1>1, <1>2 DEF Section
  <1>4. n \in Nat /\ n >= 1 /\ (hi - lo) * q <= Steps
    BY <1>1, FS_CardinalityType DEF Halved
  <1>5. IsFiniteSet(evaluated') /\ Cardinality(evaluated') = n + 1
    BY <1>1, <1>3, FS_AddElement DEF Halved
  <1>6. q \in Nat /\ 2^n = 2 * q
    BY <1>4, PowerBefore
  <1>7. q <= Steps
    BY <1>1, SectionCounts
  <1>8. hi' - lo' = Middle - lo \/ hi' - lo' = hi - (Middle + 1)
    BY DEF TryMiddle
  <1>9. (hi' - lo') * (2 * q) <= Steps
    <2> HIDE DEF q
    <2>1. (Middle - lo) * (2 * q) <= Steps /\ (hi - (Middle + 1)) * (2 * q) <= Steps
      BY <1>1, <1>4, <1>6, HalfOfSection DEF Middle
    <2> QED
      BY <1>8, <2>1
  <1>10. (n + 1) - 1 = n /\ (n + 1) - 2 = n - 1
    BY <1>4
  <1>11. stage' \in {"middle", "found"}
    BY DEF TryMiddle, Onwards
  <1>12. (hi' - lo') * 2^(Cardinality(evaluated') - 1) <= Steps'
    BY <1>1, <1>5, <1>6, <1>9, <1>10
  <1>13. 2^(Cardinality(evaluated') - 2) <= Steps'
    BY <1>1, <1>5, <1>7, <1>10
  <1> QED
    BY <1>4, <1>5, <1>11, <1>12, <1>13 DEF Halved

LEMMA RaiseHalves ==
    ASSUME SearchInv, Halved, Raise
    PROVE  Halved'
PROOF
  <1> DEFINE n == Cardinality(evaluated)
  <1>1. stage' = "raised" /\ evaluated' = evaluated /\ Steps' = Steps /\ n \in Nat
    BY FS_CardinalityType DEF Raise, Steps, Halved
  <1>2. CASE stage = "high"
    <2>1. n = 0
      BY <1>2, FS_EmptySet DEF SearchInv
    <2> QED
      BY <1>1, <2>1 DEF Halved
  <1>3. CASE stage = "middle"
    <2>1. 2^(n - 1) <= Steps /\ n >= 1 /\ Steps \in Int
      BY <1>3, SectionCounts DEF Halved, SearchInv, InRange, Steps
    <2>2. CASE n = 1
      BY <1>1, <2>2 DEF Halved
    <2>3. CASE n >= 2
      <3>1. n - 2 \in Nat /\ n - 1 \in Nat /\ n - 2 <= n - 1
        BY <1>1, <2>3
      <3>2. 2^(n - 2) <= 2^(n - 1) /\ 2^(n - 2) \in Nat /\ 2^(n - 1) \in Nat
        BY <3>1, PowersGrow, PowersAreNatural
      <3>3. 2^(n - 2) <= Steps
        BY <2>1, <3>2
      <3> QED
        BY <1>1, <2>3, <3>3 DEF Halved
    <2> QED
      BY <1>1, <2>1, <2>2, <2>3
  <1> QED
    BY <1>2, <1>3 DEF Raise, Running

BudgetInv ==
    /\ SearchInv
    /\ Halved
    /\ GaveUp => NoPower

LEMMA InitBudget == Init => BudgetInv
PROOF
  <1> SUFFICES ASSUME Init PROVE BudgetInv
    OBVIOUS
  <1>1. SearchInv /\ evaluated = {} /\ stage = "off"
    BY InitSearch DEF Init, SearchInit
  <1>2. Halved
    BY <1>1, FS_EmptySet DEF Halved
  <1>3. at # "done"
    BY ReceivedAssumption DEF Init, Kinds, FirstStep
  <1> QED
    BY <1>1, <1>2, <1>3 DEF BudgetInv, GaveUp

(* Nothing is read of a search's state but by its own steps.               *)
LEMMA RestKeepsHalved ==
    ASSUME Halved, UNCHANGED searchVars
    PROVE  Halved' /\ (NoPower => NoPower')
PROOF BY DEF Halved, NoPower, Steps, searchVars

LEMMA StartKeepsBudget ==
    ASSUME BudgetInv, Routed, StartSearch
    PROVE  Halved' /\ ~GaveUp'
PROOF
  <1>1. stage = "off" /\ evaluated' = evaluated /\ stage' \in {"raised", "high"} /\ at' = "search"
    BY DEF StartSearch, Start, Proceed
  <1>2. evaluated = {}
    BY <1>1 DEF BudgetInv, SearchInv
  <1> QED
    BY <1>1, <1>2, FS_EmptySet DEF Halved, GaveUp

LEMMA EvaluateKeepsBudget ==
    ASSUME BudgetInv, EvaluateNext
    PROVE  Halved' /\ (GaveUp' => NoPower')
PROOF
  <1>1. search' = search
    BY DEF EvaluateNext, Evaluate, Raise, TryHigh, TryMiddle
  <1>2. GaveUp' => NoPower'
    BY <1>1 DEF EvaluateNext, handlerVars, BudgetInv, GaveUp, NoPower, Steps
  <1> QED
    BY <1>2, HighHalves, MiddleHalves, RaiseHalves DEF EvaluateNext, Evaluate, BudgetInv

LEMMA MaxOfTwo ==
    ASSUME NEW b \in Nat, b >= 1
    PROVE  Max({1, b}) = b
PROOF
  <1>1. \A x \in {1, b} : (\A y \in {1, b} : x >= y) <=> x = b
    OBVIOUS
  <1> QED
    BY <1>1 DEF Max

(* The budget is the least number of bits the size of the range fits in.   *)
LEMMA BudgetFits ==
    ASSUME Steps \in Nat
    PROVE  /\ Budget \in Nat /\ Budget >= 1
           /\ 2^Budget > Steps + 1
           /\ \A k \in Nat : k < Budget => 2^k <= Steps + 1
PROOF
  <1> DEFINE b == BitLength(Steps + 1)
  <1>1. /\ b \in 0..(Steps + 1) /\ 2^b > Steps + 1
        /\ \A j \in 0..(Steps + 1) : j < b => 2^j <= Steps + 1
    BY BitLengthFits, Steps + 1 \in Nat
  <1>2. b # 0
    <2>1. b = 0 => 2^b = 1
      BY PowerOfNone
    <2> QED
      BY <1>1, <2>1
  <1>3. b \in Nat /\ b >= 1
    BY <1>1, <1>2
  <1>4. Budget = b
    BY <1>3, MaxOfTwo DEF Budget, Steps
  <1> QED
    BY <1>1, <1>3, <1>4

(* A search that is timed out without being late has had as many           *)
(* evaluations as the budget is for, which a range whose size is a power   *)
(* of two leaves no value to.                                              *)
LEMMA TimeoutKeepsBudget ==
    ASSUME BudgetInv, SearchTimesOut
    PROVE  GaveUp' => NoPower'
PROOF
  <1> SUFFICES ASSUME GaveUp' PROVE NoPower
    BY DEF SearchTimesOut, searchVars, NoPower, Steps
  <1> DEFINE n == Cardinality(evaluated)
  <1>1. Running /\ ~(n < Budget)
    <2>1. PICK late \in {TRUE, n < Budget} :
              Reply(Outcome([found |-> "nothing", late |-> late]))
      BY DEF SearchTimesOut
    <2>2. reply'.body.sensitivity.late = late
      BY <2>1 DEF Reply, Outcome, Answered
    <2>3. ~late
      BY <2>2 DEF GaveUp
    <2>4. late = TRUE \/ late = (n < Budget)
      BY <2>1
    <2> HIDE DEF n
    <2> QED
      BY <2>3, <2>4, Zenon DEF SearchTimesOut
  <1>2. Steps \in Nat /\ n \in Nat
    BY <1>1, FS_CardinalityType DEF BudgetInv, SearchInv, InRange, Steps, Halved
  <1>3. /\ Budget \in Nat /\ Budget >= 1 /\ 2^Budget > Steps + 1 /\ n >= Budget
    BY <1>1, <1>2, BudgetFits
  <1>4. stage = "middle"
    BY <1>1, <1>3, FS_EmptySet DEF Running, BudgetInv, SearchInv
  <1>5. 2^(n - 1) <= Steps /\ n - 1 \in Nat
    BY <1>2, <1>3, <1>4, SectionCounts DEF BudgetInv
  <1>6. ASSUME NEW k \in 0..Steps, Steps + 1 = 2^k PROVE FALSE
    <2>1. k \in Nat /\ 2^k \in Nat /\ 2^Budget \in Nat /\ 2^(n - 1) \in Nat
      BY <1>3, <1>5, PowersAreNatural
    <2>2. ~(Budget <= k)
      BY <1>2, <1>3, <1>6, <2>1, PowersGrow
    <2>3. k <= n - 1
      BY <1>2, <1>3, <2>1, <2>2
    <2>4. 2^k <= 2^(n - 1)
      BY <1>5, <2>1, <2>3, PowersGrow
    <2> QED
      BY <1>2, <1>5, <1>6, <2>1, <2>4
  <1> QED
    BY <1>2, <1>6 DEF NoPower

(* No other reply of a simulation says that the budget ran out.            *)
LEMMA OtherReplies ==
    ASSUME \/ SolveBase \/ BaseTimesOut \/ SolveScenario \/ ScenarioTimesOut
           \/ WithoutSearch \/ SearchReturns \/ SearchFails
    PROVE  ~GaveUp'
PROOF
  <1> USE DEF GaveUp, Reply, Proceed
  <1>1. CASE SolveBase
    BY <1>1 DEF SolveBase, BaseEnds
  <1>2. CASE BaseTimesOut
    BY <1>2 DEF BaseTimesOut, TimedOut
  <1>3. ASSUME NEW result, NoteScenario(result) PROVE ~GaveUp'
    BY <1>3 DEF NoteScenario
  <1>4. CASE SolveScenario \/ ScenarioTimesOut
    BY <1>3, <1>4 DEF SolveScenario, ScenarioTimesOut
  <1>5. CASE WithoutSearch \/ SearchFails
    BY <1>5 DEF WithoutSearch, SearchFails, Outcome, Answered, NoSensitivity
  <1>6. CASE SearchReturns
    BY <1>6 DEF SearchReturns, Outcome, Answered
  <1> QED
    BY <1>1, <1>2, <1>4, <1>5, <1>6

LEMMA BudgetInductive ==
    ASSUME Routed, BudgetInv, [Next]_vars
    PROVE  BudgetInv'
PROOF
  <1>1. SearchInv'
    BY ComposedSearch DEF BudgetInv
  <1>2. ASSUME SimulationStep, ~StartSearch PROVE UNCHANGED searchVars
    BY <1>2, Zenon DEF SimulationStep, SolveBase, BaseTimesOut, SolveScenario, ScenarioTimesOut,
             WithoutSearch, SearchReturns, SearchFails, SearchTimesOut
  <1>3. ASSUME SimulationStep, ~StartSearch PROVE Halved' /\ (GaveUp' => NoPower')
    BY <1>2, <1>3, RestKeepsHalved, TimeoutKeepsBudget, OtherReplies DEF SimulationStep, BudgetInv
  <1>4. ASSUME TrialStep \/ ModelStep PROVE ~GaveUp'
    BY <1>4, TrialRoutes, ModelRoutes DEF GaveUp
  <1>5. ASSUME UNCHANGED <<handlerVars, searchVars>> PROVE Halved' /\ (GaveUp' => NoPower')
    <2>1. GaveUp' => GaveUp
      BY <1>5 DEF handlerVars, GaveUp
    <2> QED
      BY <1>5, <2>1, RestKeepsHalved DEF BudgetInv
  <1>6. Halved' /\ (GaveUp' => NoPower')
    <2>1. ASSUME TrialStep \/ ModelStep, UNCHANGED searchVars PROVE Halved' /\ (GaveUp' => NoPower')
      BY <1>4, <2>1, RestKeepsHalved DEF BudgetInv
    <2>2. CASE SimulationStep
      BY <1>3, <2>2, StartKeepsBudget
    <2> QED
      BY <1>5, <2>1, <2>2, NextIs, EvaluateKeepsBudget, Zenon
  <1> QED
    BY <1>1, <1>6 DEF BudgetInv

LEMMA BudgetImplies == BudgetInv => BudgetSuffices
PROOF
  <1> SUFFICES ASSUME BudgetInv, GaveUp
               PROVE  /\ \A k \in 0..Steps : Steps + 1 # 2^k
                      /\ Cardinality(evaluated) <= Budget + 1
    BY DEF BudgetSuffices, GaveUp, Steps
  <1> DEFINE n == Cardinality(evaluated)
  <1>1. Steps \in Nat /\ \A k \in 0..Steps : Steps + 1 # 2^k
    BY DEF BudgetInv, SearchInv, InRange, NoPower, Steps
  <1>2. /\ Budget \in Nat /\ Budget >= 1 /\ 2^Budget > Steps + 1 /\ n \in Nat
    BY <1>1, BudgetFits, FS_CardinalityType DEF BudgetInv, Halved
  <1>3. ASSUME NEW j \in Nat, 2^j <= Steps PROVE j < Budget
    <2>1. 2^j \in Nat /\ 2^Budget \in Nat
      BY <1>2, PowersAreNatural
    <2>2. ~(Budget <= j)
      BY <1>1, <1>2, <1>3, <2>1, PowersGrow
    <2> QED
      BY <1>2, <2>2
  <1>4. CASE stage \in {"off", "high"}
    <2>1. n = 0
      BY <1>4, FS_EmptySet DEF BudgetInv, SearchInv
    <2> QED
      BY <1>1, <1>2, <2>1
  <1>5. CASE stage = "middle"
    <2>1. 2^(n - 1) <= Steps /\ n - 1 \in Nat
      BY <1>2, <1>5, SectionCounts DEF BudgetInv, Halved
    <2>2. n - 1 < Budget
      BY <1>3, <2>1
    <2> QED
      BY <1>1, <1>2, <2>2
  <1>6. CASE stage \in {"found", "none", "raised"}
    <2>1. CASE n \in {0, 1}
      BY <1>1, <1>2, <2>1
    <2>2. CASE n >= 2 /\ 2^(n - 2) <= Steps
      <3>1. n - 2 \in Nat
        BY <1>2, <2>2
      <3>2. n - 2 < Budget
        BY <1>3, <2>2, <3>1
      <3> QED
        BY <1>1, <1>2, <3>2
    <2> QED
      BY <1>6, <2>1, <2>2 DEF BudgetInv, Halved
  <1> QED
    BY <1>4, <1>5, <1>6 DEF BudgetInv, SearchInv, InRange

-----------------------------------------------------------------------------
(* The ranking of strategies.                                              *)

(* A finite set of naturals has a greatest one: one with the fewest above. *)
LEMMA GreatestNatural ==
    ASSUME NEW S, S \subseteq Nat, S # {}, IsFiniteSet(S)
    PROVE  Max(S) \in S /\ \A x \in S : x <= Max(S)
PROOF
  <1> DEFINE Above(x) == {y \in S : x < y}
             sizes == {Cardinality(Above(x)) : x \in S}
  <1>1. \A x \in S : IsFiniteSet(Above(x)) /\ Cardinality(Above(x)) \in Nat
    <2> TAKE x \in S
    <2>1. Above(x) \in SUBSET S
      OBVIOUS
    <2> HIDE DEF Above
    <2>2. IsFiniteSet(Above(x))
      BY <2>1, FS_Subset
    <2> QED
      BY <2>2, FS_CardinalityType
  <1>2. \E n \in sizes : \A m \in sizes : n <= m
    <2>1. sizes \subseteq Nat /\ sizes # {}
      <3> HIDE DEF Above
      <3> QED
        BY <1>1
    <2> HIDE DEF sizes
    <2> QED
      BY <2>1, LeastNatural
  <1>3. PICK x \in S : \A y \in S : Cardinality(Above(x)) <= Cardinality(Above(y))
    <2> HIDE DEF Above
    <2> QED
      BY <1>2
  <1>4. ASSUME NEW y \in S, x < y PROVE FALSE
    <2>1. Above(y) \in SUBSET Above(x) /\ y \in Above(x) /\ y \notin Above(y)
      <3>1. x \in Nat /\ y \in Nat
        BY <1>4
      <3>2. \A z \in S : y < z => x < z
        BY <1>4, <3>1
      <3>3. Above(y) \in SUBSET Above(x)
        BY <3>2
      <3>4. y \in Above(x) /\ y \notin Above(y)
        BY <1>4, <3>1
      <3> QED
        BY <3>3, <3>4
    <2> HIDE DEF Above
    <2>2. Cardinality(Above(y)) <= Cardinality(Above(x))
          /\ (Cardinality(Above(x)) = Cardinality(Above(y)) => Above(x) = Above(y))
      BY <1>1, <2>1, FS_Subset
    <2> QED
      BY <1>1, <1>3, <2>1, <2>2
  <1>5. \E z \in S : \A y \in S : z >= y
    BY <1>3, <1>4
  <1>6. Max(S) \in S /\ \A y \in S : Max(S) >= y
    BY <1>5 DEF Max
  <1> QED
    BY <1>6

(* The place where a name that is mentioned is mentioned last.             *)
LEMMA LastPlaceIs ==
    ASSUME NEW ranking \in Seq(STRING), NEW n \in Range(ranking)
    PROVE  /\ LastPlace(ranking, n) \in DOMAIN ranking
           /\ LastPlace(ranking, n) \in Nat
           /\ ranking[LastPlace(ranking, n)] = n
PROOF
  <1> DEFINE Said == {i \in DOMAIN ranking : ranking[i] = n}
  <1>1. /\ DOMAIN ranking = 1..Len(ranking) /\ Len(ranking) \in Nat
        /\ Said \subseteq Nat /\ Said \in SUBSET (1..Len(ranking))
    OBVIOUS
  <1>2. Said # {}
    BY DEF Range
  <1>3. Max(Said) \in Said
    <2> HIDE DEF Said
    <2>1. IsFiniteSet(Said)
      BY <1>1, IntervalCounts, FS_Subset
    <2> QED
      BY <1>1, <1>2, <2>1, GreatestNatural
  <1> QED
    BY <1>1, <1>3 DEF LastPlace

(* Distinct names are sorted in a strict order that relates every two.     *)
LEMMA SortsStrictly ==
    ASSUME NEW S, NEW names \in Seq(S), IsInjective(names), NEW ranking \in Seq(STRING)
    PROVE  /\ \A i \in DOMAIN names : ~SortsBefore(names, ranking, i, i)
           /\ \A i, j, k \in DOMAIN names :
                  SortsBefore(names, ranking, i, j) /\ SortsBefore(names, ranking, j, k)
                      => SortsBefore(names, ranking, i, k)
           /\ \A i, j \in DOMAIN names :
                  i # j => SortsBefore(names, ranking, i, j) \/ SortsBefore(names, ranking, j, i)
PROOF
  <1> DEFINE said(i) == names[i] \in Range(ranking)
             last(i) == LastPlace(ranking, names[i])
  <1>1. \A i \in DOMAIN names : i \in Nat /\ (said(i) => last(i) \in Nat)
    BY LastPlaceIs
  <1>2. \A i, j \in DOMAIN names : said(i) /\ said(j) /\ last(i) = last(j) => i = j
    BY LastPlaceIs DEF IsInjective
  <1>3. \A i, j : SortsBefore(names, ranking, i, j) <=>
                       \/ said(i) /\ said(j) /\ last(i) < last(j)
                       \/ said(i) /\ ~said(j)
                       \/ ~said(i) /\ ~said(j) /\ i < j
    BY DEF SortsBefore
  <1> HIDE DEF said, last
  <1> QED
    BY <1>1, <1>2, <1>3

(* An entry that sorts before another has fewer entries before it.         *)
LEMMA EarlierGrows ==
    ASSUME NEW S, NEW names \in Seq(S), IsInjective(names), NEW ranking \in Seq(STRING),
           NEW i \in DOMAIN names, NEW j \in DOMAIN names
    PROVE  /\ Cardinality(Earlier(names, ranking, i)) \in 0..(Len(names) - 1)
           /\ SortsBefore(names, ranking, i, j) <=>
                  Cardinality(Earlier(names, ranking, i)) < Cardinality(Earlier(names, ranking, j))
PROOF
  <1> DEFINE E(k) == Earlier(names, ranking, k)
             B(k, l) == SortsBefore(names, ranking, k, l)
  <1>1. /\ DOMAIN names = 1..Len(names) /\ Len(names) \in Nat
        /\ IsFiniteSet(DOMAIN names) /\ Cardinality(DOMAIN names) = Len(names)
    BY IntervalCounts
  <1>2. \A k, l : k \in E(l) <=> k \in DOMAIN names /\ B(k, l)
    BY DEF Earlier
  <1>3. /\ \A k \in DOMAIN names : ~B(k, k)
        /\ \A k, l, m \in DOMAIN names : B(k, l) /\ B(l, m) => B(k, m)
        /\ \A k, l \in DOMAIN names : k # l => B(k, l) \/ B(l, k)
    BY SortsStrictly
  <1> HIDE DEF E, B
  <1>4. \A k \in DOMAIN names : E(k) \subseteq DOMAIN names /\ k \notin E(k)
    BY <1>2, <1>3
  <1>5. \A k \in DOMAIN names : IsFiniteSet(E(k)) /\ Cardinality(E(k)) \in Nat
    BY <1>1, <1>4, FS_Subset, FS_CardinalityType
  <1>6. ASSUME NEW k \in DOMAIN names, NEW l \in DOMAIN names, B(k, l)
        PROVE  Cardinality(E(k)) < Cardinality(E(l))
    <2>1. E(k) \subseteq E(l) /\ k \in E(l) /\ k \notin E(k)
      BY <1>2, <1>3, <1>6
    <2>2. Cardinality(E(k)) <= Cardinality(E(l)) /\ Cardinality(E(k)) # Cardinality(E(l))
      BY <1>5, <2>1, FS_Subset
    <2> QED
      BY <1>5, <2>2
  <1>7. Cardinality(E(i)) \in 0..(Len(names) - 1)
    <2>1. Cardinality(E(i)) <= Len(names) /\ Cardinality(E(i)) # Len(names)
      BY <1>1, <1>4, FS_Subset
    <2> QED
      BY <1>1, <1>5, <2>1
  <1>8. B(i, j) <=> Cardinality(E(i)) < Cardinality(E(j))
    <2>1. CASE i = j
      BY <1>3, <1>5, <2>1
    <2>2. CASE i # j
      BY <1>3, <1>5, <1>6, <2>2
    <2> QED
      BY <2>1, <2>2
  <1> QED
    BY <1>7, <1>8 DEF E, B

Nth(names, ranking, k) ==
    CHOOSE i \in DOMAIN names : Cardinality(Earlier(names, ranking, i)) = k - 1

(* Each place of the sorted sequence has its entry, and each entry a place.*)
LEMMA SortIsWhole ==
    ASSUME NEW S, NEW names \in Seq(S), IsInjective(names), NEW ranking \in Seq(STRING)
    PROVE  /\ \A k \in DOMAIN names :
                  /\ Nth(names, ranking, k) \in DOMAIN names
                  /\ Cardinality(Earlier(names, ranking, Nth(names, ranking, k))) = k - 1
           /\ \A i \in DOMAIN names : \E k \in DOMAIN names : Nth(names, ranking, k) = i
PROOF
  <1> DEFINE D == DOMAIN names
             R == 0..(Len(names) - 1)
             e == [i \in D |-> Cardinality(Earlier(names, ranking, i))]
  <1>1. D = 1..Len(names) /\ Len(names) \in Nat
    OBVIOUS
  <1>2. /\ IsFiniteSet(D) /\ Cardinality(D) = Len(names)
        /\ IsFiniteSet(R) /\ Cardinality(R) = Len(names)
    <2>1. IsFiniteSet(R) /\ Cardinality(R) = Len(names)
      BY <1>1, CountsFromZero
    <2>2. IsFiniteSet(D) /\ Cardinality(D) = Len(names)
      BY <1>1, IntervalCounts
    <2> QED
      BY <2>1, <2>2
  <1>3. e \in [D -> R]
    BY EarlierGrows
  <1>4. \A i, j \in D : e[i] = e[j] => i = j
    <2> TAKE i \in D, j \in D
    <2>1. e[i] \in Int /\ e[j] \in Int
      BY <1>3
    <2>2. (SortsBefore(names, ranking, i, j) => e[i] < e[j]) /\ (SortsBefore(names, ranking, j, i) => e[j] < e[i])
      BY EarlierGrows
    <2>3. i # j => SortsBefore(names, ranking, i, j) \/ SortsBefore(names, ranking, j, i)
      BY SortsStrictly
    <2> HIDE DEF e
    <2> QED
      BY <2>1, <2>2, <2>3
  <1>5. e \in Injection(D, R)
    BY <1>3, <1>4 DEF Injection, IsInjective
  <1>6. e \in Surjection(D, R)
    <2> HIDE DEF e, D, R
    <2> QED
      BY <1>2, <1>5, FS_Injection
  <1>7. \A z \in R : \E i \in D : e[i] = z
    BY <1>6 DEF Surjection
  <1>8. ASSUME NEW k \in D
        PROVE  Nth(names, ranking, k) \in D /\ e[Nth(names, ranking, k)] = k - 1
    <2>1. k - 1 \in R
      BY <1>1
    <2>2. \E i \in D : Cardinality(Earlier(names, ranking, i)) = k - 1
      BY <1>7, <2>1
    <2> QED
      BY <2>2 DEF Nth
  <1>9. ASSUME NEW i \in D
        PROVE  \E k \in D : Nth(names, ranking, k) = i
    <2>1. PICK k \in D : k - 1 = e[i]
      <3>1. e[i] + 1 \in D /\ (e[i] + 1) - 1 = e[i]
        BY <1>1, <1>3
      <3> QED
        BY <3>1
    <2>2. e[Nth(names, ranking, k)] = e[i] /\ Nth(names, ranking, k) \in D
      BY <1>8, <2>1
    <2>3. Nth(names, ranking, k) = i
      BY <1>4, <2>2
    <2> QED
      BY <2>1, <2>3
  <1> QED
    BY <1>8, <1>9

StrategyNames == UNION {Range(Registered(type)) : type \in ProblemTypes}

LEMMA RegistryIsDistinct ==
    ASSUME NEW type \in ProblemTypes
    PROVE  Registered(type) \in Seq(StrategyNames) /\ IsInjective(Registered(type))
PROOF
  <1>1. Registered(type) \in Seq(Range(Registered(type))) /\ IsInjective(Registered(type))
    <2> USE DEF Registered, IsInjective, Range
    <2>1. CASE type = "route_planning"
      BY <2>1
    <2>2. CASE type = "shift_scheduling"
      BY <2>2
    <2>3. CASE type = "network_design"
      BY <2>3
    <2>4. CASE type = "travel_planning"
      BY <2>4
    <2>5. CASE type = "project_scheduling"
      BY <2>5
    <2>6. CASE type = "logistics_planning"
      BY <2>6
    <2> QED
      BY <2>1, <2>2, <2>3, <2>4, <2>5, <2>6 DEF ProblemTypes
  <1>2. Range(Registered(type)) \subseteq StrategyNames
    BY DEF StrategyNames
  <1> QED
    BY <1>1, <1>2

LEMMA PreferredIsRegistered ==
    ASSUME NEW p, p.type \in ProblemTypes
    PROVE  Preferred(p) \in Range(Registered(p.type))
PROOF BY DEF ProblemTypes, Preferred, Registered, Range

LEMMA ValidKeepsType ==
    ASSUME NEW doc, ModelValidate(doc) # Invalid
    PROVE  ModelValidate(doc).type = TypeOf(doc)
PROOF BY DEF ModelValidate, Over

(* What is recommended for distinct names, whatever the ranking.           *)
LEMMA RankedIsWhole ==
    ASSUME NEW S, NEW names \in Seq(S), IsInjective(names), NEW ranking \in Seq(STRING)
    PROVE  LET items == Ranked(names, ranking)
               said(i) == {k \in DOMAIN ranking : ranking[k] = items[i].name}
           IN  /\ DOMAIN items = DOMAIN names
               /\ {items[i].name : i \in DOMAIN items} = Range(names)
               /\ \A i \in DOMAIN items : items[i].rank = None <=> said(i) = {}
               /\ \A i, j \in DOMAIN items : i < j =>
                      /\ items[i].name # items[j].name
                      /\ said(j) # {} => said(i) # {}
                      /\ \A k, l \in DOMAIN ranking : said(i) = {k} /\ said(j) = {l} => k < l
                      /\ said(i) = {} /\ said(j) = {} =>
                             \E k, l \in DOMAIN names :
                                 k < l /\ names[k] = items[i].name /\ names[l] = items[j].name
PROOF
  <1> DEFINE items == Ranked(names, ranking)
             said(i) == {k \in DOMAIN ranking : ranking[k] = items[i].name}
             nth(i) == Nth(names, ranking, i)
             last(i) == LastPlace(ranking, names[nth(i)])
  <1>1. /\ DOMAIN items = DOMAIN names
        /\ \A i \in DOMAIN names :
               /\ items[i].name = names[nth(i)]
               /\ items[i].rank = IF names[nth(i)] \in Range(ranking) THEN last(i) ELSE None
    BY DEF Ranked, Nth
  <1>2. /\ \A i \in DOMAIN names :
               nth(i) \in DOMAIN names /\ Cardinality(Earlier(names, ranking, nth(i))) = i - 1
        /\ \A j \in DOMAIN names : \E i \in DOMAIN names : nth(i) = j
    BY SortIsWhole
  <1>3. ASSUME NEW i \in DOMAIN names, NEW j \in DOMAIN names, i < j
        PROVE  SortsBefore(names, ranking, nth(i), nth(j))
    <2>1. i \in Int /\ j \in Int /\ i - 1 < j - 1
      BY <1>3
    <2>2. Cardinality(Earlier(names, ranking, nth(i))) < Cardinality(Earlier(names, ranking, nth(j)))
      BY <1>2, <2>1
    <2> QED
      BY <1>2, <2>2, EarlierGrows
  <1>4. \A i \in DOMAIN names : said(i) # {} <=> names[nth(i)] \in Range(ranking)
    BY <1>1 DEF Range
  <1>5. \A i \in DOMAIN names : said(i) # {} => last(i) \in said(i) /\ last(i) \in Nat
    BY <1>1, <1>4, LastPlaceIs
  <1>6. \A i \in DOMAIN items : items[i].rank = None <=> said(i) = {}
    <2> HIDE DEF items, said, last, nth
    <2> QED
      BY <1>1, <1>4, <1>5, NoneAssumption
  <1>7. {items[i].name : i \in DOMAIN items} = Range(names)
    <2>1. ASSUME NEW i \in DOMAIN items PROVE items[i].name \in Range(names)
      BY <1>1, <1>2 DEF Range
    <2>2. ASSUME NEW n \in Range(names) PROVE \E i \in DOMAIN items : items[i].name = n
      <3>1. PICK j \in DOMAIN names : n = names[j]
        BY <2>2 DEF Range
      <3>2. PICK i \in DOMAIN names : nth(i) = j
        BY <1>2
      <3> QED
        BY <1>1, <3>1, <3>2
    <2> HIDE DEF items
    <2> QED
      BY <2>1, <2>2
  <1>8. ASSUME NEW i \in DOMAIN items, NEW j \in DOMAIN items, i < j
        PROVE  /\ items[i].name # items[j].name
               /\ said(j) # {} => said(i) # {}
               /\ \A k, l \in DOMAIN ranking : said(i) = {k} /\ said(j) = {l} => k < l
               /\ said(i) = {} /\ said(j) = {} =>
                      \E k, l \in DOMAIN names :
                          k < l /\ names[k] = items[i].name /\ names[l] = items[j].name
    <2>1. i \in DOMAIN names /\ j \in DOMAIN names /\ nth(i) \in DOMAIN names /\ nth(j) \in DOMAIN names
      BY <1>1, <1>2, <1>8
    <2>2. \/ said(i) # {} /\ said(j) # {} /\ last(i) < last(j)
          \/ said(i) # {} /\ said(j) = {}
          \/ said(i) = {} /\ said(j) = {} /\ nth(i) < nth(j)
      BY <1>3, <1>4, <1>8, <2>1 DEF SortsBefore
    <2>3. nth(i) # nth(j)
      BY <1>3, <1>8, <2>1, SortsStrictly
    <2>4. items[i].name # items[j].name
      BY <1>1, <2>1, <2>3 DEF IsInjective
    <2> HIDE DEF items, nth, last, said
    <2> QED
      BY <1>1, <1>5, <2>1, <2>2, <2>4
  <1> HIDE DEF said, items
  <1> QED
    BY <1>1, <1>6, <1>7, <1>8 DEF said, items

(* How far a recommendation has come.                                      *)
Recommending ==
    request.kind = "recommend" =>
        /\ at = "recommend" => log = <<>>
        /\ at \in {"ranked", "done"} => log \in Seq(STRING)
        /\ at = "done" => reply = Recommendations(Problem, log)

LEMMA RecommendingInductive ==
    ASSUME Routed, Recommending, [Next]_vars
    PROVE  Recommending'
PROOF
  <1>1. ASSUME UNCHANGED handlerVars PROVE Recommending'
    BY <1>1 DEF handlerVars, Recommending, Problem
  <1>2. ASSUME SimulationStep \/ TrialStep PROVE Recommending'
    BY <1>2, SimulationRoutes, TrialRoutes DEF Recommending
  <1>3. ASSUME ModelStep PROVE Recommending'
    <2> SUFFICES ASSUME request.kind = "recommend" PROVE Recommending'
      BY <1>3, ModelRoutes DEF Recommending
    <2>1. at \in {"recommend", "ranked"} /\ (InvokeLlm \/ RecommendByRule \/ RecommendRanked)
      BY <1>3 DEF ModelStep, Routed, Classify, ExtractObjectivesConstraints, ExtractDomainData,
                 LlmFails, AssembleProblem, ValidateProblem, InvokeLlm, RecommendByRule, RecommendRanked
    <2>2. CASE InvokeLlm
      <3>1. \E ranking \in request.rankings : at' = "ranked" /\ log' = ranking
        BY <2>2 DEF InvokeLlm, Proceed
      <3>2. log' \in Seq(STRING)
        BY <3>1, ReceivedAssumption DEF Routed
      <3> QED
        BY <3>1, <3>2 DEF Recommending
    <2>3. CASE RecommendByRule
      BY <2>3 DEF RecommendByRule, Recommending, Reply, Problem
    <2>4. CASE RecommendRanked
      BY <2>4 DEF RecommendRanked, Recommending, Reply, Problem
    <2> QED
      BY <2>1, <2>2, <2>3, <2>4
  <1>4. ASSUME EvaluateNext PROVE Recommending'
    BY <1>1, <1>4 DEF EvaluateNext
  <1> QED
    BY <1>1, <1>2, <1>3, <1>4, NextIs, Zenon

LEMMA RecommendingImplies == Routed /\ Recommending => RankingIsWhole
PROOF
  <1> SUFFICES ASSUME Routed, Recommending, request.kind = "recommend", at = "done"
               PROVE  RankingIsWhole
    BY DEF RankingIsWhole
  <1> DEFINE type == TypeOf(request.problem)
  <1>1. type \in ProblemTypes /\ Problem.type = type
    BY ReceivedAssumption, ValidKeepsType DEF Routed, Problem
  <1>2. /\ log \in Seq(STRING)
        /\ reply.body.items = Ranked(Registered(type), log)
        /\ reply.body.preferred = Preferred(Problem)
    BY <1>1 DEF Recommending, Recommendations, Answered, Names
  <1>3. Registered(type) \in Seq(StrategyNames) /\ IsInjective(Registered(type))
    BY <1>1, RegistryIsDistinct
  <1>4. Preferred(Problem) \in Range(Registered(type))
    BY <1>1, PreferredIsRegistered
  <1> DEFINE all == Registered(type)
             said(i) == {k \in DOMAIN log : log[k] = reply.body.items[i].name}
  <1>5. LET items == reply.body.items
        IN  /\ DOMAIN items = DOMAIN all
            /\ {items[i].name : i \in DOMAIN items} = Range(all)
            /\ \A i \in DOMAIN items : items[i].rank = None <=> said(i) = {}
            /\ \A i, j \in DOMAIN items : i < j =>
                   /\ items[i].name # items[j].name
                   /\ said(j) # {} => said(i) # {}
                   /\ \A k, l \in DOMAIN log : said(i) = {k} /\ said(j) = {l} => k < l
                   /\ said(i) = {} /\ said(j) = {} =>
                          \E k, l \in DOMAIN all :
                              k < l /\ all[k] = items[i].name /\ all[l] = items[j].name
    <2> HIDE DEF type
    <2> QED
      BY <1>2, <1>3, RankedIsWhole, SMTT(30)
  <1> HIDE DEF said
  <1> QED
    BY <1>2, <1>4, <1>5 DEF RankingIsWhole, said

-----------------------------------------------------------------------------
(* The benchmark.                                                          *)

(* And every set of naturals has a least one.                              *)
LEMMA LeastIsMin ==
    ASSUME NEW S, S \subseteq Nat, S # {}
    PROVE  Min(S) \in S /\ \A x \in S : Min(S) <= x
PROOF
  <1>1. \E n \in S : \A m \in S : n <= m
    BY LeastNatural
  <1>2. Min(S) \in S /\ \A y \in S : Min(S) =< y
    BY <1>1 DEF Min
  <1> QED
    BY <1>2

(* What has been measured: entries whose ratio is still open.              *)
Unrated(entries) ==
    /\ \E S : entries \in Seq(S)
    /\ \A i \in DOMAIN entries :
           entries[i] = [algorithm |-> entries[i].algorithm, status |-> entries[i].status,
                         metrics |-> entries[i].metrics, ratio |-> None]

LEMMA UnratedGrows ==
    ASSUME NEW entries, Unrated(entries), NEW s, NEW v
    PROVE  Unrated(Append(entries, Entry(s, v)))
PROOF
  <1> DEFINE e == Entry(s, v)
             longer == Append(entries, e)
  <1>1. PICK S : entries \in Seq(S)
    BY DEF Unrated
  <1>2. longer \in Seq(S \cup {e}) /\ DOMAIN longer = 1..(Len(entries) + 1)
        /\ \A i \in DOMAIN longer : longer[i] = e \/ (i \in DOMAIN entries /\ longer[i] = entries[i])
    <2>1. entries \in Seq(S \cup {e}) /\ e \in S \cup {e}
      BY <1>1
    <2> HIDE DEF e
    <2> QED
      BY <2>1
  <1>3. e = [algorithm |-> e.algorithm, status |-> e.status, metrics |-> e.metrics, ratio |-> None]
    BY DEF Entry
  <1> HIDE DEF e, longer
  <1>4. Unrated(longer)
    BY <1>2, <1>3 DEF Unrated
  <1> QED
    BY <1>4 DEF longer, e

(* How far a benchmark has come.                                           *)
Benchmarking ==
    request.kind = "benchmark" =>
        /\ Unrated(log)
        /\ at = "done" /\ reply.outcome = "answered" =>
               reply.body.entries = QualityRatios(Problem.objectives, log)

LEMMA BenchmarkingInductive ==
    ASSUME Routed, Benchmarking, [Next]_vars
    PROVE  Benchmarking'
PROOF
  <1>1. ASSUME UNCHANGED handlerVars PROVE Benchmarking'
    BY <1>1 DEF handlerVars, Benchmarking, Problem
  <1>2. ASSUME SimulationStep \/ ModelStep PROVE Benchmarking'
    BY <1>2, SimulationRoutes, ModelRoutes DEF Benchmarking
  <1>3. ASSUME TrialStep PROVE Benchmarking'
    <2> SUFFICES ASSUME request.kind = "benchmark" PROVE Benchmarking'
      BY <1>3, TrialRoutes DEF Benchmarking
    <2>1. at \in {"benchmark", "measure"} /\ Unrated(log) /\ request' = request
          /\ (BeginBenchmark \/ MeasureNext \/ MeasureTimesOut \/ FinishBenchmark)
      BY <1>3, TrialRoutes DEF TrialStep, Routed, BeginComparison, RunOnce, FinishComparison, Benchmarking,
         BeginBenchmark, MeasureNext, MeasureTimesOut, Measuring, FinishBenchmark
    <2>2. CASE BeginBenchmark
      <3>1. Unrated(<<>>)
        BY DEF Unrated
      <3>2. \/ at' = "measure" /\ log' = <<>>
            \/ reply'.outcome = "refused" /\ log' = log
        BY <2>2 DEF BeginBenchmark, Proceed, Reply, Refused
      <3> QED
        BY <2>1, <3>1, <3>2 DEF Benchmarking
    <2>3. CASE MeasureNext
      <3>1. Measured(Problem, Strategies[Len(log) + 1], Answers(Problem, Strategies[Len(log) + 1]))
        BY <2>3 DEF MeasureNext, MeasureWith
      <3>2. \/ reply'.outcome = "raised" /\ log' = log
            \/ \E s, v : at' = "measure" /\ log' = Append(log, Entry(s, v))
        BY <3>1 DEF Measured, Proceed, Reply, Raised
      <3> QED
        BY <2>1, <3>2, UnratedGrows DEF Benchmarking
    <2>4. CASE MeasureTimesOut
      BY <2>1, <2>4 DEF MeasureTimesOut, Reply, TimedOut, Benchmarking
    <2>5. CASE FinishBenchmark
      BY <2>1, <2>5 DEF FinishBenchmark, Reply, Answered, Benchmarking, Problem
    <2> QED
      BY <2>1, <2>2, <2>3, <2>4, <2>5
  <1>4. ASSUME EvaluateNext PROVE Benchmarking'
    BY <1>1, <1>4 DEF EvaluateNext
  <1> QED
    BY <1>1, <1>2, <1>3, <1>4, NextIs, Zenon
(* What the ratios are once some entry has the figure, and the best of     *)
(* these figures is not 0.                                                 *)
LEMMA RatesWith ==
    ASSUME NEW objectives, objectives # <<>>, NEW entries,
           NEW target, target = objectives[1].target,
           NEW values, values = {e.metrics[target] : e \in {e \in Range(entries) : Counts(e, target)}},
           NEW best, best = IF objectives[1].sense = "minimize" THEN Min(values) ELSE Max(values),
           values # {}, best # 0
    PROVE  QualityRatios(objectives, entries) =
               [i \in DOMAIN entries |->
                   IF Counts(entries[i], target)
                   THEN [entries[i] EXCEPT !.ratio = <<entries[i].metrics[target], best>>]
                   ELSE entries[i]]
PROOF
  BY Zenon DEF QualityRatios

(* Rating changes nothing but the ratios.                                  *)
LEMMA RatesKeep ==
    ASSUME NEW objectives, NEW entries, Unrated(entries)
    PROVE  LET rated == QualityRatios(objectives, entries)
           IN  /\ DOMAIN rated = DOMAIN entries
               /\ \A i \in DOMAIN entries : rated[i].status = entries[i].status
                                            /\ rated[i].metrics = entries[i].metrics
PROOF
  <1> DEFINE target == objectives[1].target
             values == {e.metrics[target] : e \in {e \in Range(entries) : Counts(e, target)}}
             best == IF objectives[1].sense = "minimize" THEN Min(values) ELSE Max(values)
             changed == [i \in DOMAIN entries |->
                            IF Counts(entries[i], target)
                            THEN [entries[i] EXCEPT !.ratio = <<entries[i].metrics[target], best>>]
                            ELSE entries[i]]
  <1>1. QualityRatios(objectives, entries) = entries \/ QualityRatios(objectives, entries) = changed
    BY Zenon DEF QualityRatios
  <1>2. DOMAIN changed = DOMAIN entries
        /\ \A i \in DOMAIN entries : changed[i].status = entries[i].status
                                      /\ changed[i].metrics = entries[i].metrics
    <2> HIDE DEF best
    <2> QED
      BY DEF Unrated
  <1> HIDE DEF changed
  <1> QED
    BY <1>1, <1>2

(* The places of the entries that have the figure of the first objective.  *)
Figured(objectives, entries) ==
    {i \in DOMAIN entries :
        entries[i].status = "valid" /\ objectives[1].target \in DOMAIN entries[i].metrics}

(* Positive figures are all related to one best one among them.            *)
LEMMA RatesAll ==
    ASSUME NEW objectives, objectives # <<>>, NEW entries, Unrated(entries),
           Figured(objectives, entries) # {},
           \A i \in Figured(objectives, entries) : entries[i].metrics[objectives[1].target] \in Nat \ {0}
    PROVE  \E best \in Nat \ {0} :
               /\ \E i \in Figured(objectives, entries) : entries[i].metrics[objectives[1].target] = best
               /\ \A i \in Figured(objectives, entries) :
                      IF objectives[1].sense = "minimize"
                      THEN best <= entries[i].metrics[objectives[1].target]
                      ELSE entries[i].metrics[objectives[1].target] <= best
               /\ \A i \in DOMAIN entries :
                      QualityRatios(objectives, entries)[i].ratio =
                         IF i \in Figured(objectives, entries)
                         THEN <<entries[i].metrics[objectives[1].target], best>> ELSE None
PROOF
  <1> DEFINE target == objectives[1].target
             known == Figured(objectives, entries)
             values == {entries[i].metrics[target] : i \in known}
             counted == {e.metrics[target] : e \in {e \in Range(entries) : Counts(e, target)}}
             best == IF objectives[1].sense = "minimize" THEN Min(values) ELSE Max(values)
  <1>1. counted = values
    BY DEF Counts, Range, Figured
  <1>2. values \subseteq Nat \ {0} /\ values # {}
    OBVIOUS
  <1>3. IsFiniteSet(values)
    <2> DEFINE places == [i \in known |-> entries[i].metrics[target]]
    <2>1. PICK S : entries \in Seq(S)
      BY DEF Unrated
    <2>2. Len(entries) \in Nat /\ DOMAIN entries = 1..Len(entries)
      BY <2>1
    <2>3. IsFiniteSet(1..Len(entries))
      BY <2>2, IntervalCounts
    <2>4. known \in SUBSET (1..Len(entries))
      BY <2>2 DEF Figured
    <2>5. IsFiniteSet(known)
      BY <2>3, <2>4, FS_Subset
    <2>6. places \in Surjection(known, values)
      BY DEF Surjection
    <2> HIDE DEF places, values
    <2> QED
      BY <2>5, <2>6, FS_Surjection
  <1>4. best \in values /\ \A v \in values : IF objectives[1].sense = "minimize" THEN best <= v ELSE v <= best
    <2>1. values \subseteq Nat
      BY <1>2
    <2> HIDE DEF values
    <2> QED
      BY <1>2, <1>3, <2>1, LeastIsMin, GreatestNatural
  <1>5. QualityRatios(objectives, entries) =
            [i \in DOMAIN entries |->
                IF Counts(entries[i], target)
                THEN [entries[i] EXCEPT !.ratio = <<entries[i].metrics[target], best>>]
                ELSE entries[i]]
    <2>1. values # {} /\ best # 0
      BY <1>2, <1>4
    <2>2. best = IF objectives[1].sense = "minimize" THEN Min(values) ELSE Max(values)
      OBVIOUS
    <2> HIDE DEF best, values
    <2> QED
      BY <1>1, <2>1, <2>2, RatesWith
  <1>6. \A i \in DOMAIN entries : Counts(entries[i], target) <=> i \in known
    BY DEF Counts, Figured
  <1>7. \A i \in DOMAIN entries : QualityRatios(objectives, entries)[i].ratio =
                      IF i \in known THEN <<entries[i].metrics[target], best>> ELSE None
    <2> HIDE DEF best
    <2> QED
      BY <1>5, <1>6 DEF Unrated
  <1>8. best \in Nat \ {0} /\ (\E i \in known : entries[i].metrics[target] = best)
        /\ \A i \in known : IF objectives[1].sense = "minimize"
                                      THEN best <= entries[i].metrics[target]
                                      ELSE entries[i].metrics[target] <= best
    <2> HIDE DEF best
    <2> QED
      BY <1>2, <1>4
  <1> HIDE DEF best
  <1> QED
    BY <1>7, <1>8

LEMMA BenchmarkingImplies == Routed /\ Benchmarking => RatiosRank
PROOF
  <1> SUFFICES ASSUME Routed, Benchmarking, request.kind = "benchmark", at = "done",
                      reply.outcome = "answered", Problem.objectives # <<>>
               PROVE  RatiosRank
    BY DEF RatiosRank
  <1> DEFINE objective == Problem.objectives[1]
             target == objective.target
             rated == reply.body.entries
             known == {i \in DOMAIN log : log[i].status = "valid" /\ target \in DOMAIN log[i].metrics}
             figured == {e \in Range(rated) : e.status = "valid" /\ target \in DOMAIN e.metrics}
             conclusion ==
                /\ {e \in Range(rated) : e.ratio # None} = figured
                /\ \A e, f \in figured : e.ratio[2] = f.ratio[2]
                /\ \A e \in figured : IF objective.sense = "minimize" THEN e.ratio[1] >= e.ratio[2]
                                                                     ELSE e.ratio[1] <= e.ratio[2]
                /\ figured # {} => \E e \in figured : e.ratio[1] = e.ratio[2]
  <1>1. Unrated(log) /\ rated = QualityRatios(Problem.objectives, log)
    BY DEF Benchmarking
  <1>2. SUFFICES ASSUME \A e \in figured : e.metrics[target] \in Nat \ {0}
                 PROVE  conclusion
    BY DEF RatiosRank
  <1>3. CASE known = {}
    <2> DEFINE values == {e.metrics[target] : e \in {e \in Range(log) : Counts(e, target)}}
    <2>1. values = {}
      BY <1>3 DEF Counts, Range
    <2>2. QualityRatios(Problem.objectives, log) = log
      BY <2>1, Zenon DEF QualityRatios
    <2>3. rated = log
      BY <1>1, <2>2
    <2>4. figured = {} /\ \A i \in DOMAIN log : log[i].ratio = None
      BY <1>1, <1>3, <2>3 DEF Unrated, Range
    <2> QED
      BY <2>3, <2>4 DEF Range
  <1>4. CASE known # {}
    <2>1. /\ DOMAIN rated = DOMAIN log
          /\ \A i \in DOMAIN log : rated[i].status = log[i].status /\ rated[i].metrics = log[i].metrics
      BY <1>1, RatesKeep
    <2>2. \A i \in known : rated[i] \in figured
      BY <2>1 DEF Range
    <2>3. \A e \in figured : \E i \in known : e = rated[i]
      BY <2>1 DEF Range
    <2>4. \A i \in known : log[i].metrics[target] \in Nat \ {0}
      BY <1>2, <2>1, <2>2
    <2>5. PICK best \in Nat \ {0} :
               /\ \E i \in known : log[i].metrics[target] = best
               /\ \A i \in known : IF objective.sense = "minimize"
                                    THEN best <= log[i].metrics[target]
                                    ELSE log[i].metrics[target] <= best
               /\ \A i \in DOMAIN log : rated[i].ratio =
                      IF i \in known THEN <<log[i].metrics[target], best>> ELSE None
      <3>1. Unrated(log) /\ known # {} /\ Figured(Problem.objectives, log) = known
        BY <1>1, <1>4 DEF Figured
      <3> HIDE DEF known, rated
      <3> QED
        BY <1>1, <2>4, <3>1, RatesAll, SMTT(30)
    <2>6. /\ \A i \in known : rated[i].ratio = <<log[i].metrics[target], best>>
          /\ \A i \in DOMAIN log \ known : rated[i].ratio = None
      BY <2>5
    <2>7. \A i \in known : rated[i].ratio # None
      <3> TAKE i \in known
      <3>1. log[i].metrics[target] \in Int /\ best \in Int
        BY <2>4
      <3>2. rated[i].ratio = <<log[i].metrics[target], best>>
        BY <2>6
      <3>3. rated[i].ratio \in Int \X Int
        BY <3>1, <3>2
      <3> QED
        BY <3>3, NoneAssumption
    <2>8. {e \in Range(rated) : e.ratio # None} = figured
      <3>1. \A e \in Range(rated) : \E i \in DOMAIN log : e = rated[i]
        BY <2>1 DEF Range
      <3> QED
        BY <2>2, <2>3, <2>6, <2>7, <3>1
    <2>9. \A e, f \in figured : e.ratio[2] = f.ratio[2]
      BY <2>3, <2>6
    <2>10. \A e \in figured : IF objective.sense = "minimize" THEN e.ratio[1] >= e.ratio[2]
                                                              ELSE e.ratio[1] <= e.ratio[2]
      <3> TAKE e \in figured
      <3>1. PICK i \in known : e = rated[i]
        BY <2>3
      <3>2. e.ratio[1] = log[i].metrics[target] /\ e.ratio[2] = best
        BY <2>6, <3>1
      <3> HIDE DEF known, figured, rated
      <3> QED
        BY <2>4, <2>5, <3>1, <3>2
    <2>11. \E e \in figured : e.ratio[1] = e.ratio[2]
      BY <2>2, <2>5, <2>6
    <2> HIDE DEF figured
    <2> QED
      BY <2>8, <2>9, <2>10, <2>11
  <1> QED
    BY <1>3, <1>4

-----------------------------------------------------------------------------
(* Structuring.                                                            *)

(* What the base problems have of the fields that are looked at by name.   *)
LEMMA BaseDataIs ==
    ASSUME NEW type \in ProblemTypes
    PROVE  /\ "problem_type" \notin DOMAIN BaseData(type)
           /\ type # "travel_planning" => "preferences" \notin DOMAIN BaseData(type)
           /\ type = "travel_planning" =>
                  /\ {"places", "preferences"} \subseteq DOMAIN BaseData(type)
                  /\ BaseData(type)["preferences"] = Object(NoFields)
                  /\ BaseData(type)["places"].kind = "list"
PROOF
  <1>1. CASE type = "route_planning"
    BY <1>1 DEF BaseData
  <1>2. CASE type = "network_design"
    BY <1>2 DEF BaseData
  <1>3. CASE type = "shift_scheduling"
    BY <1>3 DEF BaseData
  <1>4. CASE type = "travel_planning"
    BY <1>4 DEF BaseData, Listed, Value
  <1>5. CASE type = "project_scheduling"
    BY <1>5 DEF BaseData
  <1>6. CASE type = "logistics_planning"
    BY <1>6 DEF BaseData
  <1> QED
    BY <1>1, <1>2, <1>3, <1>4, <1>5, <1>6 DEF ProblemTypes

(* And every base problem has objectives.                                  *)
LEMMA BaseHasObjectives ==
    ASSUME NEW type
    PROVE  BaseObjectives(type) # <<>>
PROOF BY DEF BaseObjectives

(* What merging an object makes of the fields.                             *)
LEMMA MergedIs ==
    ASSUME NEW b, NEW d, d.kind = "object", NEW inner
    PROVE  LET old == FieldsOf(b)
               new == FieldsOf(d)
               fields == Merged(b, d, inner).fields
           IN  /\ Merged(b, d, inner) = Object(fields)
               /\ \A k : k \in DOMAIN fields <=>
                      k \in DOMAIN old \cup DOMAIN new /\ ~(k \in DOMAIN new /\ new[k] = Null)
               /\ \A k \in DOMAIN fields :
                      fields[k] = IF k \in DOMAIN inner THEN inner[k]
                                  ELSE IF k \in DOMAIN new THEN new[k] ELSE old[k]
PROOF
  <1> DEFINE old == FieldsOf(b)
             new == FieldsOf(d)
             gone == {k \in DOMAIN new : new[k] = Null}
             into(k) == IF k \in DOMAIN inner THEN inner[k] ELSE IF k \in DOMAIN new THEN new[k] ELSE old[k]
             fields == [k \in (DOMAIN old \cup DOMAIN new) \ gone |-> into(k)]
  <1>1. Merged(b, d, inner) = Object(fields)
    BY Zenon DEF Merged
  <1>2. Object(fields).fields = fields
    BY DEF Object
  <1>3. \A k \in DOMAIN fields : fields[k] = into(k)
    OBVIOUS
  <1>4. \A k : k \in DOMAIN fields <=>
                k \in DOMAIN old \cup DOMAIN new /\ ~(k \in DOMAIN new /\ new[k] = Null)
    OBVIOUS
  <1> HIDE DEF fields
  <1> QED
    BY <1>1, <1>2, <1>3, <1>4

(* The data of a base problem with a patch merged into them.               *)
LEMMA MergedData ==
    ASSUME NEW old, NEW patch, NEW inner, DOMAIN inner = Both(Object(old), Object(patch)),
           \A k \in DOMAIN inner : inner[k] = Merged(old[k], patch[k], NoFields)
    PROVE  LET fields == Merged(Object(old), Object(patch), inner).fields
           IN  /\ Merged(Object(old), Object(patch), inner) = Object(fields)
               /\ \A k \in DOMAIN fields : k \in DOMAIN old \/ k \in DOMAIN patch
               /\ \A k \in DOMAIN old : k \notin DOMAIN patch => k \in DOMAIN fields /\ fields[k] = old[k]
               /\ \A k \in DOMAIN old : k \in DOMAIN patch /\ k \in DOMAIN fields =>
                      DOMAIN FieldsOf(fields[k]) \subseteq DOMAIN FieldsOf(old[k]) \cup DOMAIN FieldsOf(patch[k])
PROOF
  <1>1. FieldsOf(Object(old)) = old /\ FieldsOf(Object(patch)) = patch /\ Object(patch).kind = "object"
    BY DEF FieldsOf, Object
  <1> DEFINE fields == Merged(Object(old), Object(patch), inner).fields
  <1>2. /\ Merged(Object(old), Object(patch), inner) = Object(fields)
        /\ \A k : k \in DOMAIN fields <=>
                k \in DOMAIN old \cup DOMAIN patch /\ ~(k \in DOMAIN patch /\ patch[k] = Null)
        /\ \A k \in DOMAIN fields :
                fields[k] = IF k \in DOMAIN inner THEN inner[k] ELSE IF k \in DOMAIN patch THEN patch[k] ELSE old[k]
    BY <1>1, MergedIs
  <1>3. \A k \in DOMAIN inner : k \in DOMAIN old /\ k \in DOMAIN patch /\ patch[k].kind = "object"
    BY <1>1 DEF Both, Object
  <1>4. ASSUME NEW k \in DOMAIN old, k \in DOMAIN patch, k \in DOMAIN fields
        PROVE  DOMAIN FieldsOf(fields[k]) \subseteq DOMAIN FieldsOf(old[k]) \cup DOMAIN FieldsOf(patch[k])
    <2>1. CASE k \notin DOMAIN inner
      BY <1>2, <1>4, <2>1
    <2>2. CASE k \in DOMAIN inner
      <3> DEFINE b == old[k]
                 d == patch[k]
                 m == Merged(b, d, NoFields)
                 f == m.fields
      <3>1. fields[k] = m
        BY <1>2, <1>4, <2>2
      <3>2. d.kind = "object"
        BY <1>3, <2>2
      <3> HIDE DEF b, d, fields
      <3>3. /\ Merged(b, d, NoFields) = Object(Merged(b, d, NoFields).fields)
            /\ \A x : x \in DOMAIN Merged(b, d, NoFields).fields <=>
                      x \in DOMAIN FieldsOf(b) \cup DOMAIN FieldsOf(d) /\ ~(x \in DOMAIN FieldsOf(d) /\ FieldsOf(d)[x] = Null)
            /\ \A x \in DOMAIN Merged(b, d, NoFields).fields :
                      Merged(b, d, NoFields).fields[x] =
                          IF x \in DOMAIN NoFields THEN NoFields[x]
                          ELSE IF x \in DOMAIN FieldsOf(d) THEN FieldsOf(d)[x] ELSE FieldsOf(b)[x]
        BY <3>2, MergedIs, Zenon
      <3>4. m = Object(f) /\ DOMAIN f \subseteq DOMAIN FieldsOf(b) \cup DOMAIN FieldsOf(d)
        BY <3>3
      <3> HIDE DEF m, f
      <3>5. FieldsOf(Object(f)) = f
        BY DEF FieldsOf, Object
      <3>6. DOMAIN FieldsOf(fields[k]) \subseteq DOMAIN FieldsOf(b) \cup DOMAIN FieldsOf(d)
        BY <3>1, <3>5, <3>4
      <3> QED
        BY <3>6 DEF b, d
    <2> QED
      BY <2>1, <2>2
  <1>5. \A k \in DOMAIN fields : k \in DOMAIN old \/ k \in DOMAIN patch
    BY <1>2
  <1>6. \A k \in DOMAIN old : k \notin DOMAIN patch => k \in DOMAIN fields /\ fields[k] = old[k]
    BY <1>2, <1>3
  <1> QED
    BY <1>2, <1>4, <1>5, <1>6

(* The data of a base problem.                                             *)
OldData(type) == Over([problem_type |-> Value("text", type)], BaseData(type))

(* A base problem field by field.                                          *)
LEMMA BaseProblemIs ==
    ASSUME NEW type
    PROVE  LET fields == BaseProblem(type).fields
           IN  /\ BaseProblem(type) = Object(fields)
               /\ FieldsOf(BaseProblem(type)) = fields
               /\ DOMAIN fields = {"problem_type", "objectives", "constraints", "data"}
               /\ fields["problem_type"] = Value("text", type)
               /\ fields["objectives"] = Listed(BaseObjectives(type))
               /\ fields["constraints"].kind = "list"
               /\ fields["data"] = Object(OldData(type))
PROOF
  <1>1. \A c : LET d == Document(type, BaseObjectives(type), c, BaseData(type))
                   fields == d.fields
               IN  /\ d = Object(fields)
                   /\ FieldsOf(d) = fields
                   /\ DOMAIN fields = {"problem_type", "objectives", "constraints", "data"}
                   /\ fields["problem_type"] = Value("text", type)
                   /\ fields["objectives"] = Listed(BaseObjectives(type))
                   /\ fields["constraints"].kind = "list"
                   /\ fields["data"] = Object(OldData(type))
    BY DEF Document, Object, FieldsOf, Listed, Value, OldData
  <1> QED
    BY <1>1 DEF BaseProblem

(* What is merged into it: nothing that removes a field.                   *)
LEMMA OverridesAre ==
    ASSUME NEW state
    PROVE  LET fields == BuildOverrides(state).fields
           IN  /\ BuildOverrides(state).kind = "object"
               /\ FieldsOf(BuildOverrides(state)) = fields
               /\ DOMAIN fields = {"constraints"} \cup (IF state.objectives = <<>> THEN {} ELSE {"objectives"})
                                                  \cup (IF DOMAIN state.patch = {} THEN {} ELSE {"data"})
               /\ fields["constraints"] = Listed(state.constraints)
               /\ state.objectives # <<>> => fields["objectives"] = Listed(state.objectives)
               /\ DOMAIN state.patch # {} => fields["data"] = Object(state.patch)
PROOF
  <1> DEFINE objectives == IF state.objectives = <<>> THEN NoFields
                           ELSE [objectives |-> Listed(state.objectives)]
             data == IF DOMAIN state.patch = {} THEN NoFields ELSE [data |-> Object(state.patch)]
             rest == Over(objectives, data)
             all == Over([constraints |-> Listed(state.constraints)], rest)
  <1>1. BuildOverrides(state) = Object(all)
    BY DEF BuildOverrides
  <1>2. /\ DOMAIN rest = (IF state.objectives = <<>> THEN {} ELSE {"objectives"})
                         \cup (IF DOMAIN state.patch = {} THEN {} ELSE {"data"})
        /\ state.objectives # <<>> => rest["objectives"] = Listed(state.objectives)
        /\ DOMAIN state.patch # {} => rest["data"] = Object(state.patch)
    BY DEF Over, NoFields
  <1> HIDE DEF rest
  <1>3. /\ DOMAIN all = {"constraints"} \cup DOMAIN rest
        /\ all["constraints"] = Listed(state.constraints)
        /\ \A k \in DOMAIN rest : k # "constraints" => all[k] = rest[k]
    BY DEF Over
  <1> HIDE DEF all
  <1> QED
    BY <1>1, <1>2, <1>3 DEF Object, FieldsOf

(* The problem that is assembled of the base and of what was said: its     *)
(* type is the base's, it has objectives, and its data are the base's but  *)
(* for the fields of the patch.                                            *)
LEMMA AssembledIs ==
    ASSUME NEW type, NEW state
    PROVE  LET doc == DeepMerge(BaseProblem(type), BuildOverrides(state))
               fields == doc.fields["data"].fields
               old == OldData(type)
               patch == state.patch
           IN  /\ doc = Object(doc.fields)
               /\ doc.fields["problem_type"] = Value("text", type)
               /\ doc.fields["objectives"] = Listed(IF state.objectives = <<>> THEN BaseObjectives(type)
                                                                            ELSE state.objectives)
               /\ "data" \in DOMAIN doc.fields /\ doc.fields["data"] = Object(fields)
               /\ \A k \in DOMAIN fields : k \in DOMAIN old \/ k \in DOMAIN patch
               /\ \A k \in DOMAIN old : k \notin DOMAIN patch => k \in DOMAIN fields /\ fields[k] = old[k]
               /\ \A k \in DOMAIN old : k \in DOMAIN patch /\ k \in DOMAIN fields =>
                      DOMAIN FieldsOf(fields[k]) \subseteq DOMAIN FieldsOf(old[k]) \cup DOMAIN FieldsOf(patch[k])
PROOF
  <1> DEFINE base == BaseProblem(type)
             over == BuildOverrides(state)
             values(b, d) == Merged(b, d, NoFields)
             merged(b, d) == Merged(b, d, [k \in Both(b, d) |-> values(b.fields[k], d.fields[k])])
             inner == [k \in Both(base, over) |-> merged(base.fields[k], over.fields[k])]
             doc == Merged(base, over, inner)
             old == OldData(type)
             patch == state.patch
  <1>1. DeepMerge(base, over) = doc
    BY DEF DeepMerge
  <1>2. /\ FieldsOf(base) = base.fields
        /\ DOMAIN base.fields = {"problem_type", "objectives", "constraints", "data"}
        /\ base.fields["problem_type"] = Value("text", type)
        /\ base.fields["objectives"] = Listed(BaseObjectives(type))
        /\ base.fields["constraints"].kind = "list"
        /\ base.fields["data"] = Object(old)
    BY BaseProblemIs
  <1>3. /\ over.kind = "object"
        /\ FieldsOf(over) = over.fields
        /\ DOMAIN over.fields = {"constraints"} \cup (IF state.objectives = <<>> THEN {} ELSE {"objectives"})
                                           \cup (IF DOMAIN patch = {} THEN {} ELSE {"data"})
        /\ over.fields["constraints"] = Listed(state.constraints)
        /\ state.objectives # <<>> => over.fields["objectives"] = Listed(state.objectives)
        /\ DOMAIN patch # {} => over.fields["data"] = Object(patch)
    BY OverridesAre
  <1>4. DOMAIN inner = IF DOMAIN patch = {} THEN {} ELSE {"data"}
    <2> HIDE DEF base, over, merged
    <2> QED
      BY <1>2, <1>3 DEF Both, Listed, Value, Object
  <1>5. DOMAIN patch # {} => inner["data"] = merged(Object(old), Object(patch))
    <2> HIDE DEF base, over, merged
    <2> QED
      BY <1>2, <1>3, <1>4
  <1> HIDE DEF inner
  <1>6. /\ doc = Object(doc.fields)
        /\ \A k : k \in DOMAIN doc.fields <=>
               k \in DOMAIN base.fields \cup DOMAIN over.fields
               /\ ~(k \in DOMAIN over.fields /\ over.fields[k] = Null)
        /\ \A k \in DOMAIN doc.fields :
               doc.fields[k] = IF k \in DOMAIN inner THEN inner[k]
                               ELSE IF k \in DOMAIN over.fields THEN over.fields[k] ELSE base.fields[k]
    <2>1. over.kind = "object" /\ FieldsOf(base) = base.fields /\ FieldsOf(over) = over.fields
      BY <1>2, <1>3
    <2> HIDE DEF base, over
    <2> QED
      BY <2>1, MergedIs
  <1>7. \A k \in DOMAIN over.fields : over.fields[k] # Null
    <2> HIDE DEF over
    <2> QED
      BY <1>3 DEF Null, Listed, Value, Object
  <1> HIDE DEF doc, base, over
  <1>8. /\ doc.fields["problem_type"] = Value("text", type)
        /\ doc.fields["objectives"] = Listed(IF state.objectives = <<>> THEN BaseObjectives(type)
                                                                     ELSE state.objectives)
        /\ "data" \in DOMAIN doc.fields
        /\ doc.fields["data"] = IF DOMAIN patch = {} THEN Object(old) ELSE merged(Object(old), Object(patch))
    <2> HIDE DEF merged
    <2> QED
      BY <1>2, <1>3, <1>4, <1>5, <1>6, <1>7
  <1> DEFINE fields == doc.fields["data"].fields
  <1>9. /\ doc.fields["data"] = Object(fields)
        /\ \A k \in DOMAIN fields : k \in DOMAIN old \/ k \in DOMAIN patch
        /\ \A k \in DOMAIN old : k \notin DOMAIN patch => k \in DOMAIN fields /\ fields[k] = old[k]
        /\ \A k \in DOMAIN old : k \in DOMAIN patch /\ k \in DOMAIN fields =>
               DOMAIN FieldsOf(fields[k]) \subseteq DOMAIN FieldsOf(old[k]) \cup DOMAIN FieldsOf(patch[k])
    <2>1. CASE DOMAIN patch = {}
      BY <1>8, <2>1 DEF Object
    <2>2. CASE DOMAIN patch # {}
      <3> DEFINE below == [k \in Both(Object(old), Object(patch)) |->
                              values(Object(old).fields[k], Object(patch).fields[k])]
      <3>1. doc.fields["data"] = Merged(Object(old), Object(patch), below)
        BY <1>8, <2>2
      <3>2. DOMAIN below = Both(Object(old), Object(patch))
            /\ \A k \in DOMAIN below : below[k] = Merged(old[k], patch[k], NoFields)
        BY DEF Object
      <3> HIDE DEF below, old, patch
      <3> QED
        BY <3>1, <3>2, MergedData
    <2> QED
      BY <2>1, <2>2
  <1> QED
    BY <1>1, <1>6, <1>8, <1>9 DEF doc, base, over

(* Preferences that the validation of a travel problem lets pass.          *)
LEMMA PreferencesInCatalog ==
    ASSUME NEW doc, TypeOf(doc) = "travel_planning", WellFormed(doc),
           NEW fields, Get(doc, "data") = Object(fields),
           "places" \in DOMAIN fields, fields["places"].kind = "list"
    PROVE  \A id \in DOMAIN FieldsOf(Get(Get(doc, "data"), "preferences")) :
               id[1] = "places" /\ id[2] \in DOMAIN fields["places"].value
PROOF
  <1> DEFINE data == Get(doc, "data")
             d == DataOf("travel_planning", data)
  <1>1. \A f : Get(data, f) = IF f \in DOMAIN fields THEN fields[f] ELSE Missing
    BY DEF Get, Has, FieldsOf, Object
  <1>2. DataHolds("travel_planning", d)
    BY DEF WellFormed
  <1>3. \A id \in DOMAIN d.preferences.fields : InCatalog(id, "places", d)
    <2> HIDE DEF d
    <2> QED
      BY <1>2 DEF DataHolds
  <1>4. \A f \in DOMAIN Schema("travel_planning") : Get(data, f).kind # "missing" => d[f] = Get(data, f)
    <2> HIDE DEF data
    <2> QED
      BY DEF DataOf
  <1>5. {"places", "preferences"} \subseteq DOMAIN Schema("travel_planning")
    BY DEF Schema
  <1>6. Get(data, "places") = fields["places"] /\ d["places"] = fields["places"]
    <2> HIDE DEF data, d
    <2> QED
      BY <1>1, <1>4, <1>5
  <1>7. CASE FieldsOf(Get(data, "preferences")) = NoFields
    BY <1>7 DEF NoFields
  <1>8. CASE Get(data, "preferences").kind = "object"
    <2>1. d["preferences"] = Get(data, "preferences")
      <3> HIDE DEF data, d
      <3> QED
        BY <1>4, <1>5, <1>8
    <2>2. FieldsOf(Get(data, "preferences")) = d.preferences.fields
      <3> HIDE DEF data, d
      <3> QED
        BY <1>8, <2>1 DEF FieldsOf
    <2> HIDE DEF data, d
    <2>3. \A id \in DOMAIN d.preferences.fields : id[1] = "places" /\ id[2] \in DOMAIN fields["places"].value
      BY <1>3, <1>6 DEF InCatalog
    <2> QED
      BY <2>2, <2>3 DEF data
  <1> QED
    BY <1>7, <1>8 DEF FieldsOf

(* What is said about a problem of a type: a patch of its data, or none.   *)
Sayable(type, patch) == patch = NoFields \/ patch \in Sayings[type].patches

(* It is grounded in the base when both validations let it pass.           *)
LEMMA AssembledIsGrounded ==
    ASSUME NEW type \in DOMAIN Sayings, NEW state, Sayable(type, state.patch),
           NEW doc, doc = DeepMerge(BaseProblem(type), BuildOverrides(state)),
           WellFormed(doc), Grounded(doc, CatalogIds(BaseProblem(type)))
    PROVE  GroundedIn(doc, BaseProblem(type), state.patch)
PROOF
  <1> DEFINE old == BaseProblem(type).fields.data.fields
             patch == state.patch
             data == doc.fields.data
             fields == data.fields
             lists == {f \in DOMAIN old : old[f].kind = "list"}
             ids == UNION {{<<f, n>> : n \in DOMAIN old[f].value} : f \in lists}
             listed == UNION {c.items : c \in {c \in Range(ConstraintsOf(doc)) :
                                                   c.kind \in {"forbidden", "required_inclusion"}}}
  <1>3. old = OldData(type)
    <2>1. BaseProblem(type).fields["data"] = Object(OldData(type))
      BY BaseProblemIs
    <2>2. Object(OldData(type)).fields = OldData(type)
      BY DEF Object
    <2> QED
      BY <2>1, <2>2
  <1>0. /\ doc = Object(doc.fields)
        /\ doc.fields["problem_type"] = Value("text", type)
        /\ doc.fields["objectives"] = Listed(IF state.objectives = <<>> THEN BaseObjectives(type)
                                                                     ELSE state.objectives)
        /\ "data" \in DOMAIN doc.fields /\ data = Object(fields)
        /\ \A k \in DOMAIN fields : k \in DOMAIN OldData(type) \/ k \in DOMAIN patch
        /\ \A k \in DOMAIN OldData(type) : k \notin DOMAIN patch => k \in DOMAIN fields /\ fields[k] = OldData(type)[k]
        /\ \A k \in DOMAIN OldData(type) : k \in DOMAIN patch /\ k \in DOMAIN fields =>
               DOMAIN FieldsOf(fields[k]) \subseteq DOMAIN FieldsOf(OldData(type)[k]) \cup DOMAIN FieldsOf(patch[k])
    BY AssembledIs
  <1>1. /\ doc = Object(doc.fields)
        /\ doc.fields["problem_type"] = Value("text", type)
        /\ doc.fields["objectives"] = Listed(IF state.objectives = <<>> THEN BaseObjectives(type)
                                                                     ELSE state.objectives)
        /\ "data" \in DOMAIN doc.fields /\ data = Object(fields)
        /\ \A k \in DOMAIN fields : k \in DOMAIN old \/ k \in DOMAIN patch
        /\ \A k \in DOMAIN old : k \notin DOMAIN patch => k \in DOMAIN fields /\ fields[k] = old[k]
        /\ \A k \in DOMAIN old : k \in DOMAIN patch /\ k \in DOMAIN fields =>
               DOMAIN FieldsOf(fields[k]) \subseteq DOMAIN FieldsOf(old[k]) \cup DOMAIN FieldsOf(patch[k])
    <2> HIDE DEF old, data, fields
    <2> QED
      BY <1>0, <1>3
  <1>2. type \in ProblemTypes
    BY SayingsAssumption
  <1>4. \A f \in DOMAIN patch :
            /\ f \in DOMAIN BaseData(type) /\ BaseData(type)[f].kind # "list"
            /\ \A id \in DOMAIN FieldsOf(patch[f]) : id = <<id[1], id[2]>>
    BY SayingsAssumption DEF Sayable, NoFields
  <1>5. /\ DOMAIN old = {"problem_type"} \cup DOMAIN BaseData(type)
        /\ \A f \in DOMAIN BaseData(type) : old[f] = BaseData(type)[f]
        /\ old["problem_type"].kind = "text"
    BY <1>2, <1>3, BaseDataIs DEF OldData, Over, Value
  <1> HIDE DEF old, patch
  <1>6. \A f \in DOMAIN patch : f \in DOMAIN old \ lists
    BY <1>4, <1>5
  <1>7. \A f : Get(data, f) = IF f \in DOMAIN fields THEN fields[f] ELSE Missing
    <2>1. data.kind = "object"
      BY <1>1 DEF Object
    <2> HIDE DEF data
    <2> QED
      BY <2>1 DEF Get, Has, FieldsOf
  <1>8. TypeOf(doc) = type
    BY <1>1 DEF TypeOf, Value
  <1>9. \A f \in DOMAIN old : f \in DOMAIN patch \/ Get(data, f) = old[f]
    <2> HIDE DEF data
    <2> QED
      BY <1>1, <1>7
  <1>10. \A f \in lists : Get(data, f) = old[f]
    BY <1>6, <1>9
  <1>11. CatalogIds(BaseProblem(type)) = ids
    BY DEF CatalogIds, old
  <1>12. /\ listed \subseteq ids
         /\ \A f \in DOMAIN fields : fields[f].kind = "id" => fields[f].value \in ids
    <2>1. References(doc) \subseteq ids
      BY <1>11 DEF Grounded
    <2>2. References(doc) = listed \cup {fields[f].value : f \in {f \in DOMAIN fields : fields[f].kind = "id"}}
      BY DEF References
    <2> QED
      BY <2>1, <2>2
  <1>13. DOMAIN FieldsOf(Get(data, "preferences")) \subseteq ids
    <2>1. CASE type # "travel_planning"
      <3>1. "preferences" \notin DOMAIN fields
        BY <1>1, <1>2, <1>5, <1>6, <2>1, BaseDataIs
      <3>2. Get(data, "preferences") = Missing
        BY <1>7, <3>1
      <3> QED
        BY <3>2 DEF FieldsOf, Missing, NoFields
    <2>2. CASE type = "travel_planning"
      <3>1. /\ "places" \in DOMAIN old /\ old["places"].kind = "list"
            /\ "preferences" \in DOMAIN old /\ old["preferences"] = Object(NoFields)
        BY <1>2, <1>5, <2>2, BaseDataIs
      <3>2. "places" \in DOMAIN fields /\ fields["places"] = old["places"]
        BY <1>1, <1>6, <3>1
      <3>3. Get(doc, "data") = data
        BY <1>1 DEF Get, Has, FieldsOf, Object
      <3>4. \A id \in DOMAIN FieldsOf(Get(data, "preferences")) :
                id[1] = "places" /\ id[2] \in DOMAIN old["places"].value
        <4> HIDE DEF data
        <4> QED
          BY <1>1, <1>8, <2>2, <3>1, <3>2, <3>3, PreferencesInCatalog
      <3>5. \A id \in DOMAIN FieldsOf(Get(data, "preferences")) : id = <<id[1], id[2]>>
        <4>1. CASE "preferences" \notin DOMAIN fields
          BY <1>7, <4>1 DEF FieldsOf, Missing, NoFields
        <4>2. CASE "preferences" \in DOMAIN fields
          <5>1. Get(data, "preferences") = fields["preferences"]
            BY <1>7, <4>2
          <5>2. DOMAIN FieldsOf(old["preferences"]) = {}
            BY <3>1 DEF FieldsOf, Object, NoFields
          <5>3. CASE "preferences" \in DOMAIN patch
            <6>1. DOMAIN FieldsOf(fields["preferences"]) \subseteq DOMAIN FieldsOf(patch["preferences"])
              BY <1>1, <3>1, <4>2, <5>2, <5>3
            <6> QED
              BY <1>4, <5>1, <5>3, <6>1 DEF patch
          <5>4. CASE "preferences" \notin DOMAIN patch
            BY <1>1, <3>1, <5>1, <5>2, <5>4
          <5> QED
            BY <5>3, <5>4
        <4> QED
          BY <4>1, <4>2
      <3>6. \A n \in DOMAIN old["places"].value : <<"places", n>> \in ids
        BY <3>1
      <3> QED
        BY <3>4, <3>5, <3>6
    <2> QED
      BY <2>1, <2>2
  <1>14. doc.fields["objectives"].value # <<>>
    BY <1>1, BaseHasObjectives DEF Listed, Value
  <1>15. TypeOf(BaseProblem(type)) = type
    <2>1. BaseProblem(type).fields["problem_type"] = Value("text", type)
      BY BaseProblemIs
    <2> QED
      BY <2>1 DEF TypeOf, Value
  <1>16. GroundedIn(doc, BaseProblem(type), patch) <=>
            /\ TypeOf(doc) = TypeOf(BaseProblem(type))
            /\ \A f \in lists : Get(data, f) = old[f]
            /\ \A f \in DOMAIN old : f \in DOMAIN patch \/ Get(data, f) = old[f]
            /\ \A f \in DOMAIN fields : fields[f].kind = "id" => fields[f].value \in ids
            /\ DOMAIN FieldsOf(Get(data, "preferences")) \cup listed \subseteq ids
            /\ doc.fields.objectives.value # <<>>
    BY Zenon DEF GroundedIn, old
  <1>17. DOMAIN FieldsOf(Get(data, "preferences")) \cup listed \subseteq ids
    BY <1>12, <1>13
  <1> HIDE DEF listed, ids, lists, fields, data
  <1> QED
    BY <1>8, <1>9, <1>10, <1>12, <1>14, <1>15, <1>16, <1>17 DEF patch

(* How far a run of the workflow has come: what the model said is kept     *)
(* under its names, and the problem is assembled from nothing else.        *)
Heard(names) == DOMAIN log = names /\ log.type \in DOMAIN Sayings

Assembled ==
    /\ Heard({"type", "objectives", "constraints", "patch", "doc"})
    /\ Sayable(log.type, log.patch)
    /\ log.doc = DeepMerge(BaseProblem(log.type), BuildOverrides(log))
    /\ WellFormed(log.doc)

Listening ==
    request.kind = "structure" =>
        /\ at = "extract" => Heard({"type"})
        /\ at = "data" => Heard({"type", "objectives", "constraints"})
        /\ at = "assemble" => /\ Heard({"type", "objectives", "constraints", "patch"})
                              /\ Sayable(log.type, log.patch)
        /\ at = "validate" => Assembled
        /\ at = "done" /\ reply.outcome = "answered" =>
               /\ Assembled /\ reply.body.problem = log.doc
               /\ Grounded(log.doc, CatalogIds(Base))

(* Each step of the workflow adds its own name, and no other handler runs. *)
LEMMA ListeningInductive ==
    ASSUME Routed, Listening, [Next]_vars
    PROVE  Listening'
PROOF
  <1>1. ASSUME UNCHANGED handlerVars PROVE Listening'
    BY <1>1 DEF handlerVars, Listening, Heard, Assembled, Base
  <1>2. ASSUME SimulationStep \/ TrialStep PROVE Listening'
    BY <1>2, SimulationRoutes, TrialRoutes DEF Listening
  <1>3. ASSUME ModelStep PROVE Listening'
    <2> SUFFICES ASSUME request.kind = "structure" PROVE Listening'
      BY <1>3, ModelRoutes DEF Listening
    <2> USE DEF Proceed, Reply
    <2>1. CASE Classify
      BY <2>1 DEF Classify, Listening, Heard
    <2>2. CASE ExtractObjectivesConstraints
      <3>1. PICK o, c : at' = "data" /\ log' = Over(log, [objectives |-> o, constraints |-> c])
        BY <2>2 DEF ExtractObjectivesConstraints
      <3>2. at = "extract" /\ Heard({"type"})
        BY <2>2 DEF ExtractObjectivesConstraints, Listening
      <3> QED
        BY <3>1, <3>2 DEF Listening, Heard, Over
    <2>3. CASE ExtractDomainData
      <3>1. PICK patch : at' = "assemble" /\ log' = Over(log, [patch |-> patch]) /\ Sayable(log.type, patch)
        BY <2>3 DEF ExtractDomainData, Sayable
      <3>2. at = "data" /\ Heard({"type", "objectives", "constraints"})
        BY <2>3 DEF ExtractDomainData, Listening
      <3> QED
        BY <3>1, <3>2 DEF Listening, Heard, Over
    <2>4. CASE LlmFails
      BY <2>4 DEF LlmFails, Raised, Listening
    <2>5. CASE AssembleProblem
      <3> DEFINE doc == DeepMerge(BaseProblem(log.type), BuildOverrides(log))
      <3>1. at = "assemble" /\ Heard({"type", "objectives", "constraints", "patch"})
            /\ Sayable(log.type, log.patch)
        BY <2>5 DEF AssembleProblem, Listening
      <3>2. ApplyOverrides(Base, BuildOverrides(log)) = ModelValidate(doc)
        BY OverridesAre, SMTT(30) DEF ApplyOverrides, Base
      <3>3. \/ reply'.outcome = "refused" /\ at' = "done" /\ log' = log
            \/ /\ ModelValidate(doc) # Invalid
               /\ at' = "validate" /\ log' = Over(log, [doc |-> doc])
        BY <2>5, <3>2 DEF AssembleProblem, Refused, Base
      <3>4. CASE ModelValidate(doc) # Invalid /\ at' = "validate" /\ log' = Over(log, [doc |-> doc])
        <4>1. WellFormed(doc)
          BY <3>4 DEF ModelValidate
        <4> HIDE DEF doc
        <4>2. /\ DOMAIN log' = {"type", "objectives", "constraints", "patch", "doc"}
              /\ log'.doc = doc /\ log'.type = log.type /\ log'.patch = log.patch
              /\ log'.objectives = log.objectives /\ log'.constraints = log.constraints
          BY <3>1, <3>4 DEF Heard, Over
        <4>3. BuildOverrides(log') = BuildOverrides(log)
          BY <4>2 DEF BuildOverrides
        <4>4. Assembled'
          BY <3>1, <4>1, <4>2, <4>3 DEF Assembled, Heard, doc
        <4> QED
          BY <3>4, <4>4 DEF Listening
      <3> QED
        BY <3>3, <3>4 DEF Listening
    <2>6. CASE ValidateProblem
      <3>1. at = "validate" /\ Assembled /\ log' = log /\ at' = "done"
        BY <2>6 DEF ValidateProblem, Listening
      <3>2. Assembled'
        BY <3>1 DEF Assembled, Heard
      <3>3. \/ reply'.outcome = "refused"
            \/ reply'.body.problem = log.doc /\ Grounded(log.doc, CatalogIds(Base))
        BY <2>6 DEF ValidateProblem, Answered, Refused
      <3> QED
        BY <3>1, <3>2, <3>3 DEF Listening, Base
    <2>7. CASE InvokeLlm \/ RecommendByRule \/ RecommendRanked
      BY <2>7 DEF InvokeLlm, RecommendByRule, RecommendRanked, Routed
    <2> QED
      BY <1>3, <2>1, <2>2, <2>3, <2>4, <2>5, <2>6, <2>7 DEF ModelStep
  <1>4. ASSUME EvaluateNext PROVE Listening'
    BY <1>1, <1>4 DEF EvaluateNext
  <1> QED
    BY <1>1, <1>2, <1>3, <1>4, NextIs, Zenon

(* So what is answered has been assembled and validated.                   *)
LEMMA ListeningImplies == Listening => StructuredIsGrounded
PROOF
  <1> SUFFICES ASSUME Listening, Structured PROVE StructuredIsGrounded
    BY DEF StructuredIsGrounded
  <1>1. /\ Assembled /\ reply.body.problem = log.doc
        /\ Grounded(log.doc, CatalogIds(Base))
    BY DEF Listening, Structured
  <1>2. /\ log.type \in DOMAIN Sayings /\ Sayable(log.type, log.patch)
        /\ log.doc = DeepMerge(BaseProblem(log.type), BuildOverrides(log))
        /\ WellFormed(log.doc) /\ Grounded(log.doc, CatalogIds(BaseProblem(log.type)))
    BY <1>1 DEF Assembled, Heard, Base
  <1> QED
    BY <1>1, <1>2, AssembledIsGrounded DEF StructuredIsGrounded, Base

-----------------------------------------------------------------------------
(* Merging, whatever the documents, and along paths of any length.         *)

(* The documents along a path are what the definition of Trail says: there *)
(* is a function that satisfies it.                                        *)
Trails(doc, path, n, f) == f = [i \in 0..n |-> IF i = 0 THEN doc ELSE Get(f[i - 1], path[i])]

LEMMA TrailsExist ==
    ASSUME NEW doc, NEW path
    PROVE  \A n \in Nat : \E f : Trails(doc, path, n, f)
PROOF
  <1> DEFINE Bad == {n \in Nat : ~\E f : Trails(doc, path, n, f)}
  <1>1. SUFFICES ASSUME Bad # {} PROVE FALSE
    OBVIOUS
  <1>2. PICK n \in Bad : \A m \in Bad : n <= m
    BY <1>1, LeastNatural
  <1>3. Trails(doc, path, 0, [i \in 0..0 |-> doc])
    BY DEF Trails
  <1>4. n # 0 /\ n - 1 \in Nat /\ n - 1 \notin Bad
    BY <1>2, <1>3
  <1>5. PICK f : Trails(doc, path, n - 1, f)
    BY <1>4
  <1> DEFINE g == [i \in 0..n |-> IF i = n THEN Get(f[n - 1], path[n]) ELSE f[i]]
  <1>6. Trails(doc, path, n, g)
    <2>1. \A i \in 0..(n - 1) : f[i] = IF i = 0 THEN doc ELSE Get(f[i - 1], path[i])
      BY <1>4, <1>5 DEF Trails
    <2>2. ASSUME NEW i \in 0..n PROVE g[i] = IF i = 0 THEN doc ELSE Get(g[i - 1], path[i])
      <3>1. i = n \/ i \in 0..(n - 1)
        BY <1>4
      <3>2. i # 0 => i - 1 \in 0..(n - 1) /\ g[i - 1] = f[i - 1]
        BY <1>4
      <3> QED
        BY <1>4, <2>1, <3>1, <3>2
    <2> HIDE DEF g
    <2>3. g = [i \in 0..n |-> g[i]]
      BY DEF g
    <2> QED
      BY <2>2, <2>3 DEF Trails
  <1> QED
    BY <1>2, <1>6

LEMMA TrailIs ==
    ASSUME NEW doc, NEW path, Len(path) \in Nat
    PROVE  /\ Trail(doc, path)[0] = doc
           /\ \A i \in 1..Len(path) : Trail(doc, path)[i] = Get(Trail(doc, path)[i - 1], path[i])
PROOF
  <1>1. PICK f : Trails(doc, path, Len(path), f)
    BY TrailsExist
  <1>2. Trail(doc, path) = CHOOSE g : Trails(doc, path, Len(path), g)
    BY DEF Trail, Trails
  <1>3. Trails(doc, path, Len(path), Trail(doc, path))
    BY <1>1, <1>2
  <1> QED
    BY <1>3 DEF Trails

(* Two trails that meet stay together, and what is no object ends one.     *)
LEMMA TrailsStayTogether ==
    ASSUME NEW c, NEW d, NEW path, Len(path) \in Nat, NEW i \in 0..Len(path),
           Trail(c, path)[i] = Trail(d, path)[i]
    PROVE  At(c, path) = At(d, path)
PROOF
  <1> DEFINE Bad == {n \in Nat : n \in i..Len(path) /\ Trail(c, path)[n] # Trail(d, path)[n]}
  <1>1. SUFFICES ASSUME Bad # {} PROVE FALSE
    BY DEF At
  <1>2. PICK n \in Bad : \A m \in Bad : n <= m
    BY <1>1, LeastNatural
  <1>3. n \in 1..Len(path) /\ n - 1 \in Nat /\ n - 1 \in i..Len(path) /\ n - 1 \notin Bad
    BY <1>2
  <1> QED
    BY <1>2, <1>3, TrailIs

LEMMA TrailsEnd ==
    ASSUME NEW doc, NEW path, Len(path) \in Nat, NEW i \in 0..Len(path),
           Trail(doc, path)[i].kind # "object", i < Len(path)
    PROVE  At(doc, path) = Missing
PROOF
  <1> DEFINE Bad == {n \in Nat : n \in (i + 1)..Len(path) /\ Trail(doc, path)[n] # Missing}
  <1>1. \A x, k : x.kind # "object" => Get(x, k) = Missing
    BY DEF Get, Has, FieldsOf, NoFields
  <1>2. Missing.kind # "object"
    BY DEF Missing
  <1>3. SUFFICES ASSUME Bad # {} PROVE FALSE
    BY DEF At
  <1>4. PICK n \in Bad : \A m \in Bad : n <= m
    BY <1>3, LeastNatural
  <1>5. n \in 1..Len(path) /\ n - 1 \in Nat /\ (n - 1 = i \/ n - 1 \in (i + 1)..Len(path)) /\ n - 1 \notin Bad
    BY <1>4
  <1>6. Trail(doc, path)[n - 1].kind # "object"
    BY <1>2, <1>5
  <1> QED
    BY <1>1, <1>4, <1>5, <1>6, TrailIs

(* What a merged object has for a key.                                     *)
LEMMA MergedHas ==
    ASSUME NEW base, NEW patch, patch.kind = "object",
           NEW inner, DOMAIN inner \subseteq Both(base, patch), NEW k
    PROVE  /\ Merged(base, patch, inner).kind = "object"
           /\ Get(Merged(base, patch, inner), k) =
                  IF ~Has(patch, k) THEN Get(base, k)
                  ELSE IF Get(patch, k) = Null THEN Missing
                  ELSE IF k \in DOMAIN inner THEN inner[k] ELSE Get(patch, k)
PROOF
  <1> DEFINE old == FieldsOf(base)
             new == FieldsOf(patch)
             gone == {j \in DOMAIN new : new[j] = Null}
             into(j) == IF j \in DOMAIN inner THEN inner[j] ELSE IF j \in DOMAIN new THEN new[j] ELSE old[j]
             all == [j \in (DOMAIN old \cup DOMAIN new) \ gone |-> into(j)]
  <1>1. Merged(base, patch, inner) = Object(all)
    BY DEF Merged
  <1>2. Object(all).kind = "object" /\ FieldsOf(Object(all)) = all /\ Object(all).fields = all
    BY DEF Object, FieldsOf
  <1>3. DOMAIN inner \subseteq DOMAIN new
    BY DEF Both
  <1>4. k \in DOMAIN old => base.fields[k] = old[k]
    BY DEF FieldsOf, NoFields
  <1>5. new = patch.fields
    BY DEF FieldsOf
  <1>6. DOMAIN all = (DOMAIN old \cup DOMAIN new) \ gone /\ (k \in DOMAIN all => all[k] = into(k))
    OBVIOUS
  <1>7. /\ Get(Object(all), k) = IF k \in DOMAIN all THEN into(k) ELSE Missing
        /\ Get(base, k) = IF k \in DOMAIN old THEN old[k] ELSE Missing
        /\ Get(patch, k) = IF k \in DOMAIN new THEN new[k] ELSE Missing
        /\ Has(patch, k) <=> k \in DOMAIN new
    BY <1>2, <1>4, <1>5, <1>6 DEF Get, Has
  <1> HIDE DEF all, old, new
  <1> QED
    BY <1>1, <1>2, <1>3, <1>6, <1>7

(* The merge of two documents at a depth: what DeepMerge does where it has *)
(* not come to what is no object.                                          *)
MergeValues(base, patch) == Merged(base, patch, NoFields)

MergeData(base, patch) == Merged(base, patch, [k \in Both(base, patch) |-> MergeValues(base.fields[k], patch.fields[k])])

MergesAt(depth, base, patch, merged) ==
    \/ base.kind # "object" /\ merged = patch
    \/ /\ depth = 1 /\ merged = MergeValues(base, patch)
       /\ \A v \in Range(FieldsOf(base)) : v.kind # "object"
    \/ /\ depth = 2 /\ merged = MergeData(base, patch)
       /\ \A k \in DOMAIN FieldsOf(base) : \A v \in Range(FieldsOf(base.fields[k])) : v.kind # "object"
    \/ depth = 3 /\ merged = DeepMerge(base, patch) /\ ThreeDeep(base)

LEMMA DeepMergeIs ==
    ASSUME NEW base, NEW patch
    PROVE  DeepMerge(base, patch) =
               Merged(base, patch, [k \in Both(base, patch) |-> MergeData(base.fields[k], patch.fields[k])])
PROOF BY DEF DeepMerge, MergeData, MergeValues

LEMMA ObjectsMerge ==
    ASSUME NEW depth, NEW base, NEW patch, patch.kind = "object", NEW merged,
           MergesAt(depth, base, patch, merged)
    PROVE  merged.kind = "object"
PROOF
  <1>1. DOMAIN NoFields \subseteq Both(base, patch)
    BY DEF NoFields
  <1>2. MergeValues(base, patch).kind = "object"
    BY <1>1, MergedHas DEF MergeValues
  <1>3. MergeData(base, patch).kind = "object"
    BY MergedHas DEF MergeData
  <1>4. DeepMerge(base, patch).kind = "object"
    BY MergedHas, DeepMergeIs
  <1> QED
    BY <1>2, <1>3, <1>4 DEF MergesAt

(* One key further: the patch has it not, or has null there, or a value,   *)
(* or an object, and the merge goes on.                                    *)
LEMMA MergeSteps ==
    ASSUME NEW depth, NEW base, NEW patch, patch.kind = "object", NEW merged,
           MergesAt(depth, base, patch, merged), NEW k
    PROVE  /\ ~Has(patch, k) => Get(merged, k) = Get(base, k)
           /\ Has(patch, k) /\ Get(patch, k) = Null =>
                  base.kind # "object" \/ Get(merged, k) = Missing
           /\ Has(patch, k) /\ Get(patch, k) # Null /\ Get(patch, k).kind # "object" =>
                  Get(merged, k) = Get(patch, k)
           /\ Has(patch, k) /\ Get(patch, k).kind = "object" =>
                  \E d : MergesAt(d, Get(base, k), Get(patch, k), Get(merged, k))
PROOF
  <1> DEFINE b == Get(base, k)
             p == Get(patch, k)
             m == Get(merged, k)
  <1>1. /\ Missing.kind # "object" /\ Null.kind # "object"
        /\ base.kind # "object" => b = Missing
        /\ ~Has(patch, k) => p = Missing
        /\ Has(base, k) => b = base.fields[k] /\ FieldsOf(base)[k] = base.fields[k]
        /\ Has(patch, k) => p = patch.fields[k]
        /\ ~Has(base, k) => b = Missing
        /\ k \in Both(base, patch) <=> Has(base, k) /\ Has(patch, k) /\ b.kind = "object" /\ p.kind = "object"
    BY DEF Missing, Null, Get, Has, FieldsOf, NoFields, Both
  <1>2. CASE base.kind # "object" /\ merged = patch
    BY <1>1, <1>2 DEF MergesAt
  <1>3. ASSUME NEW inner, DOMAIN inner = Both(base, patch), merged = Merged(base, patch, inner),
               k \in Both(base, patch) => \E d : MergesAt(d, b, p, inner[k])
        PROVE  /\ ~Has(patch, k) => m = b
               /\ Has(patch, k) /\ p = Null => m = Missing
               /\ Has(patch, k) /\ p # Null /\ p.kind # "object" => m = p
               /\ Has(patch, k) /\ p.kind = "object" => \E d : MergesAt(d, b, p, m)
    <2>1. m = IF ~Has(patch, k) THEN b ELSE IF p = Null THEN Missing
              ELSE IF k \in DOMAIN inner THEN inner[k] ELSE p
      BY <1>3, MergedHas
    <2>2. ASSUME Has(patch, k), p.kind = "object" PROVE \E d : MergesAt(d, b, p, m)
      <3>1. CASE k \in Both(base, patch)
        BY <1>1, <1>3, <2>1, <2>2, <3>1
      <3>2. CASE k \notin Both(base, patch)
        <4>1. b.kind # "object" /\ m = p
          BY <1>1, <1>3, <2>1, <2>2, <3>2
        <4> QED
          BY <4>1 DEF MergesAt
      <3> QED
        BY <3>1, <3>2
    <2> QED
      BY <1>1, <1>3, <2>1, <2>2
  <1>4. CASE /\ depth = 1 /\ merged = MergeValues(base, patch)
             /\ \A v \in Range(FieldsOf(base)) : v.kind # "object"
    <2>1. Both(base, patch) = {}
      BY <1>4 DEF Both, Range, FieldsOf, NoFields
    <2>2. DOMAIN NoFields = {}
      BY DEF NoFields
    <2> QED
      BY <1>3, <1>4, <2>1, <2>2 DEF MergeValues
  <1>5. CASE /\ depth = 2 /\ merged = MergeData(base, patch)
             /\ \A j \in DOMAIN FieldsOf(base) : \A v \in Range(FieldsOf(base.fields[j])) : v.kind # "object"
    <2> DEFINE inner == [j \in Both(base, patch) |-> MergeValues(base.fields[j], patch.fields[j])]
    <2>1. ASSUME k \in Both(base, patch) PROVE MergesAt(1, b, p, inner[k])
      <3>1. inner[k] = MergeValues(b, p)
        BY <1>1, <2>1
      <3>2. \A v \in Range(FieldsOf(b)) : v.kind # "object"
        BY <1>1, <1>5, <2>1 DEF Has
      <3> HIDE DEF inner
      <3> QED
        BY <3>1, <3>2 DEF MergesAt
    <2>2. DOMAIN inner = Both(base, patch) /\ merged = Merged(base, patch, inner)
      BY <1>5 DEF MergeData
    <2> HIDE DEF inner
    <2> QED
      BY <1>3, <2>1, <2>2
  <1>6. CASE depth = 3 /\ merged = DeepMerge(base, patch) /\ ThreeDeep(base)
    <2> DEFINE inner == [j \in Both(base, patch) |-> MergeData(base.fields[j], patch.fields[j])]
    <2>1. ASSUME k \in Both(base, patch) PROVE MergesAt(2, b, p, inner[k])
      <3>1. inner[k] = MergeData(b, p)
        BY <1>1, <2>1
      <3>2. \A l \in DOMAIN FieldsOf(b) : \A v \in Range(FieldsOf(b.fields[l])) : v.kind # "object"
        BY <1>1, <1>6, <2>1 DEF Has, ThreeDeep
      <3> HIDE DEF inner
      <3> QED
        BY <3>1, <3>2 DEF MergesAt
    <2>2. DOMAIN inner = Both(base, patch) /\ merged = Merged(base, patch, inner)
      BY <1>6, DeepMergeIs
    <2> HIDE DEF inner
    <2> QED
      BY <1>3, <2>1, <2>2
  <1> HIDE DEF b, p, m
  <1> QED
    BY <1>2, <1>4, <1>5, <1>6 DEF MergesAt, b, p, m

(* As long as the patch has objects on the way, the merge goes on there.   *)
LEMMA MergesAlong ==
    ASSUME NEW base, NEW patch, ThreeDeep(base), NEW path, Len(path) \in Nat
    PROVE  \A n \in 0..Len(path) :
               (\A j \in 0..n : Trail(patch, path)[j].kind = "object") =>
                   \E d : MergesAt(d, Trail(base, path)[n], Trail(patch, path)[n],
                                   Trail(DeepMerge(base, patch), path)[n])
PROOF
  <1> DEFINE b == Trail(base, path)
             p == Trail(patch, path)
             m == Trail(DeepMerge(base, patch), path)
             Objects(n) == \A j \in 0..n : p[j].kind = "object"
             Bad == {n \in Nat : n \in 0..Len(path) /\ Objects(n) /\ ~\E d : MergesAt(d, b[n], p[n], m[n])}
  <1>1. SUFFICES ASSUME Bad # {} PROVE FALSE
    OBVIOUS
  <1>2. PICK n \in Bad : \A i \in Bad : n <= i
    BY <1>1, LeastNatural
  <1>3. /\ b[0] = base /\ p[0] = patch /\ m[0] = DeepMerge(base, patch)
        /\ \A i \in 1..Len(path) : /\ b[i] = Get(b[i - 1], path[i])
                                   /\ p[i] = Get(p[i - 1], path[i])
                                   /\ m[i] = Get(m[i - 1], path[i])
    BY TrailIs
  <1> HIDE DEF b, p, m
  <1>4. n # 0
    BY <1>2, <1>3 DEF MergesAt
  <1>5. n \in 1..Len(path) /\ n - 1 \in 0..Len(path) /\ n - 1 \in Nat /\ n - 1 \notin Bad /\ Objects(n - 1)
    BY <1>2, <1>4
  <1>6. PICK d : MergesAt(d, b[n - 1], p[n - 1], m[n - 1])
    BY <1>5
  <1>7. p[n - 1].kind = "object" /\ p[n].kind = "object"
    BY <1>2, <1>5
  <1>8. Has(p[n - 1], path[n])
    <2>1. Missing.kind # "object"
      BY DEF Missing
    <2> QED
      BY <1>3, <1>5, <1>7, <2>1 DEF Get
  <1>9. \E e : MergesAt(e, Get(b[n - 1], path[n]), Get(p[n - 1], path[n]), Get(m[n - 1], path[n]))
    BY <1>3, <1>5, <1>6, <1>7, <1>8, MergeSteps
  <1> QED
    BY <1>2, <1>3, <1>5, <1>9

(* What RFC 7386 leaves at a path, unless the merge kept a null on it.     *)
LEMMA MergesAsExpected ==
    ASSUME NEW base, ThreeDeep(base), NEW patch, patch.kind = "object", NEW path, Len(path) \in Nat,
           DOMAIN path = 1..Len(path), ~KeepsNull(base, patch, path)
    PROVE  LET found == At(DeepMerge(base, patch), path)
               expected == Expected(base, patch, path)
           IN  found.kind = expected.kind /\ (found.kind # "object" => found = expected)
PROOF
  <1> DEFINE n == Len(path)
             b == Trail(base, path)
             p == Trail(patch, path)
             m == Trail(DeepMerge(base, patch), path)
             leaves == {i \in 0..n : p[i].kind # "object"}
             first == CHOOSE i \in leaves : \A j \in leaves : i <= j
  <1>1. /\ b[0] = base /\ p[0] = patch /\ m[0] = DeepMerge(base, patch)
        /\ \A i \in 1..n : /\ b[i] = Get(b[i - 1], path[i])
                           /\ p[i] = Get(p[i - 1], path[i])
                           /\ m[i] = Get(m[i - 1], path[i])
    BY TrailIs
  <1>2. /\ At(DeepMerge(base, patch), path) = m[n]
        /\ Expected(base, patch, path) =
               IF leaves = {} THEN Object(NoFields)
               ELSE IF ~Has(p[first - 1], path[first]) THEN At(base, path)
               ELSE IF p[first] = Null \/ first < n THEN Missing
               ELSE p[first]
    BY DEF At, Expected
  <1>3. \A k \in 0..n : (\A j \in 0..k : p[j].kind = "object") => \E d : MergesAt(d, b[k], p[k], m[k])
    BY MergesAlong
  <1>4. CASE leaves = {}
    <2>1. p[n].kind = "object" /\ \E d : MergesAt(d, b[n], p[n], m[n])
      <3>1. n \in 0..n /\ \A j \in 0..n : p[j].kind = "object"
        BY <1>4
      <3> HIDE DEF p, b, m, leaves, n
      <3> QED
        BY <1>3, <3>1
    <2>2. m[n].kind = "object"
      BY <2>1, ObjectsMerge
    <2>3. Object(NoFields).kind = "object"
      BY DEF Object
    <2> QED
      BY <1>2, <1>4, <2>2, <2>3
  <1>5. CASE leaves # {}
    <2>1. first \in leaves /\ \A j \in leaves : first <= j
      <3>1. \E i \in leaves : \A j \in leaves : i <= j
        <4>1. leaves \subseteq Nat
          OBVIOUS
        <4> HIDE DEF leaves
        <4> QED
          BY <1>5, <4>1, LeastNatural
      <3> QED
        BY <3>1
    <2> HIDE DEF first
    <2>2. first \in 1..n /\ first - 1 \in 0..n /\ first \in 0..n
      BY <1>1, <2>1
    <2> DEFINE before == first - 1
               key == path[first]
    <2>3. \A j \in 0..before : p[j].kind = "object"
      <3> HIDE DEF p
      <3> QED
        BY <2>1, <2>2
    <2>4. p[before].kind = "object" /\ \E d : MergesAt(d, b[before], p[before], m[before])
      <3>1. before \in 0..n /\ before \in 0..before
        BY <2>2
      <3> HIDE DEF p, b, m, before
      <3> QED
        BY <1>3, <2>3, <3>1
    <2>5. /\ b[first] = Get(b[before], key) /\ p[first] = Get(p[before], key)
          /\ m[first] = Get(m[before], key)
      BY <1>1, <2>2
    <2>6. p[first].kind # "object"
      BY <2>1
    <2>7. first = n \/ first < n
      <3>1. n \in Nat
        OBVIOUS
      <3> HIDE DEF p, b, m, leaves, n
      <3> QED
        BY <2>2, <3>1
    <2>8. p[first] = Null => b[before].kind = "object"
      BY <2>2 DEF KeepsNull
    <2>9. CASE ~Has(p[before], key)
      <3>1. m[first] = b[first]
        BY <2>4, <2>5, <2>9, MergeSteps
      <3>2. m[n] = At(base, path)
        BY <1>2, <2>2, <3>1, TrailsStayTogether
      <3> QED
        BY <1>2, <1>5, <2>9, <3>2
    <2>10. CASE Has(p[before], key) /\ p[first] = Null
      <3>1. m[first] = Missing
        <4>1. PICK d : MergesAt(d, b[before], p[before], m[before])
          BY <2>4
        <4>2. p[before].kind = "object" /\ Has(p[before], key) /\ Get(p[before], key) = Null
          BY <2>4, <2>5, <2>10
        <4>3. b[before].kind # "object" \/ Get(m[before], key) = Missing
          <5> HIDE DEF p, b, m, before, key
          <5> QED
            BY <4>1, <4>2, MergeSteps
        <4> QED
          BY <2>5, <2>8, <2>10, <4>3
      <3>2. m[n] = Missing
        <4>1. CASE first = n
          BY <3>1, <4>1
        <4>2. CASE first < n
          <5>1. m[first].kind # "object"
            BY <3>1 DEF Missing
          <5> QED
            BY <1>2, <2>2, <4>2, <5>1, TrailsEnd
        <4> QED
          BY <2>7, <4>1, <4>2
      <3> QED
        BY <1>2, <1>5, <2>10, <3>2
    <2>11. CASE Has(p[before], key) /\ p[first] # Null
      <3>1. m[first] = p[first]
        BY <2>4, <2>5, <2>6, <2>11, MergeSteps
      <3>2. CASE first = n
        BY <1>2, <1>5, <2>11, <3>1, <3>2
      <3>3. CASE first < n
        <4>1. m[n] = Missing
          BY <1>2, <2>2, <2>6, <3>1, <3>3, TrailsEnd
        <4> QED
          BY <1>2, <1>5, <2>11, <3>3, <4>1
      <3> QED
        BY <2>7, <3>2, <3>3
    <2> QED
      BY <2>9, <2>10, <2>11
  <1> QED
    BY <1>4, <1>5

LEMMA PathsAreSequences ==
    ASSUME NEW doc, NEW path \in Paths(doc)
    PROVE  Len(path) \in Nat /\ DOMAIN path = 1..Len(path)
PROOF
  <1> DEFINE longer(paths) == UNION {{Append(q, k) : k \in DOMAIN FieldsOf(At(doc, q))} : q \in paths}
             Sequences(paths) == \A q \in paths : \E S : q \in Seq(S)
             one == longer({<<>>})
             two == longer(one)
             three == longer(two)
             four == longer(three)
  <1> HIDE DEF longer, Sequences
  <1>1. ASSUME NEW paths, Sequences(paths) PROVE Sequences(longer(paths))
    <2>1. SUFFICES ASSUME NEW grown \in longer(paths) PROVE \E S : grown \in Seq(S)
      BY DEF Sequences
    <2>2. PICK q \in paths : \E k \in DOMAIN FieldsOf(At(doc, q)) : grown = Append(q, k)
      BY <2>1 DEF longer
    <2> PICK k : grown = Append(q, k)
      BY <2>2
    <2>3. PICK S : q \in Seq(S)
      BY <1>1 DEF Sequences
    <2>4. q \in Seq(S \cup {k})
      <3>1. Len(q) \in Nat /\ q \in [1..Len(q) -> S]
        BY <2>3
      <3>2. q \in [1..Len(q) -> S \cup {k}]
        BY <3>1
      <3> QED
        BY <3>1, <3>2
    <2>5. Append(q, k) \in Seq(S \cup {k})
      BY <2>4
    <2> QED
      BY <2>5
  <1>2. Sequences({<<>>})
    BY DEF Sequences
  <1>3. Sequences(one) /\ Sequences(two) /\ Sequences(three) /\ Sequences(four)
    BY <1>1, <1>2
  <1> HIDE DEF one, two, three, four
  <1>4. Paths(doc) = {<<>>} \cup one \cup two \cup three \cup four
    BY DEF Paths, one, two, three, four, longer
  <1>5. \E S : path \in Seq(S)
    BY <1>2, <1>3, <1>4 DEF Sequences
  <1> QED
    BY <1>5

LEMMA DeepMergeIsMergePatch ==
    ASSUME NEW base, ThreeDeep(base), NEW patch, patch.kind = "object"
    PROVE  IsMergePatch(base, patch, DeepMerge(base, patch))
PROOF BY MergesAsExpected, PathsAreSequences DEF IsMergePatch

-----------------------------------------------------------------------------
(* The scenarios.                                                          *)

(* A patch without fields changes nothing.                                 *)
LEMMA NothingMerged ==
    ASSUME NEW doc, doc = Object([f \in DOMAIN doc.fields |-> doc.fields[f]])
    PROVE  DeepMerge(doc, Object(NoFields)) = doc
PROOF
  <1> DEFINE fields == [f \in DOMAIN doc.fields |-> doc.fields[f]]
             none == Object(NoFields)
  <1>1. FieldsOf(doc) = fields /\ FieldsOf(none) = NoFields /\ none.kind = "object"
        /\ DOMAIN NoFields = {}
    BY DEF FieldsOf, Object, NoFields
  <1>2. \A inner : DOMAIN inner = {} => Merged(doc, none, inner) = Object(fields)
    <2> SUFFICES ASSUME NEW inner, DOMAIN inner = {} PROVE Merged(doc, none, inner) = Object(fields)
      OBVIOUS
    <2> DEFINE into(k) == IF k \in DOMAIN inner THEN inner[k]
                          ELSE IF k \in DOMAIN NoFields THEN NoFields[k] ELSE fields[k]
               gone == {k \in DOMAIN NoFields : NoFields[k] = Null}
               all == [k \in (DOMAIN fields \cup DOMAIN NoFields) \ gone |-> into(k)]
    <2>1. Merged(doc, none, inner) = Object(all)
      BY <1>1 DEF Merged
    <2>2. all = fields
      BY <1>1
    <2> QED
      BY <2>1, <2>2
  <1>3. Both(doc, none) = {}
    BY <1>1 DEF Both
  <1> HIDE DEF none, fields
  <1> DEFINE values(b, d) == Merged(b, d, NoFields)
             data(b, d) == Merged(b, d, [k \in Both(b, d) |-> values(b.fields[k], d.fields[k])])
             inner == [k \in Both(doc, none) |-> data(doc.fields[k], none.fields[k])]
  <1>4. DOMAIN inner = {}
    BY <1>3
  <1>5. DeepMerge(doc, none) = Merged(doc, none, inner)
    BY DEF DeepMerge
  <1> HIDE DEF inner
  <1> QED
    BY <1>2, <1>4, <1>5 DEF none, fields

(* How a computation ends, and that an answer names its algorithm.         *)
LEMMA SolveOnceEnds ==
    ASSUME NEW p, NEW algorithm
    PROVE  LET r == SolveOnce(p, algorithm)
           IN  \/ r = Refused
               \/ r = Raised
               \/ /\ r = Answered(r.body)
                  /\ r.body.algorithm = Chosen(p, algorithm) /\ r.body.error = None
                  /\ p # Invalid /\ Known(p, Chosen(p, algorithm))
PROOF
  <1> DEFINE s == Chosen(p, algorithm)
  <1>1. \A v : SolutionBody(v, s) = Answered(SolutionBody(v, s).body)
               /\ SolutionBody(v, s).body.algorithm = s /\ SolutionBody(v, s).body.error = None
    BY DEF SolutionBody, Answered
  <1> HIDE DEF s
  <1>2. \A a : VerifiedBody(p, a, s) = Raised \/ \E v : VerifiedBody(p, a, s) = SolutionBody(v, s)
    BY DEF VerifiedBody
  <1>3. \A answers : \/ FirstVerified(p, answers, s) = Raised
                     \/ \E v : FirstVerified(p, answers, s) = SolutionBody(v, s)
    BY <1>2 DEF FirstVerified
  <1>4. SolveOnce(p, algorithm) = Refused
        \/ (p # Invalid /\ Known(p, s) /\ SolveOnce(p, algorithm) = FirstVerified(p, Answers(p, s), s))
    BY DEF SolveOnce, SolveWith, s
  <1> QED
    BY <1>1, <1>3, <1>4 DEF s

LEMMA NoneIsNoError ==
    /\ InvalidScenario("refused").error = "refused" /\ "refused" # None
    /\ InvalidScenario("timed_out").error = "timed_out" /\ "timed_out" # None
PROOF BY NamesAssumption DEF InvalidScenario

(* How far a simulation has come.                                          *)
Comparing ==
    request.kind = "simulate" =>
        /\ \E S : log \in Seq(S)
        /\ at = "base" => log = <<>>
        /\ at \in {"scenarios", "search"} => log # <<>>
        /\ log # <<>> => SolveOnce(Problem, request.algorithm) = Answered(log[1])
        /\ ScenariosAreAlone

(* What follows the base's result changes none of what is there.           *)
LEMMA AloneGrows ==
    ASSUME Routed, Comparing, request.kind = "simulate", log # <<>>, request' = request,
           NEW result, log' = Append(log, result), at' # "base",
           NEW i \in DOMAIN request.scenarios, i = Len(log),
           ScenarioIsAlone(request.scenarios[i], result)
    PROVE  Comparing'
PROOF
  <1>1. PICK S : log \in Seq(S)
    BY DEF Comparing
  <1>2. log \in Seq(S \cup {result}) /\ result \in S \cup {result}
    BY <1>1
  <1>3. /\ log' \in Seq(S \cup {result}) /\ log' # <<>> /\ Len(log') = Len(log) + 1
        /\ log'[1] = log[1] /\ log'[Len(log) + 1] = result
        /\ \A j \in 1..Len(log) : log'[j] = log[j]
    BY <1>2
  <1>4. FixedAlgorithm' = FixedAlgorithm
    BY <1>3 DEF FixedAlgorithm
  <1>5. \A patch, r : ScenarioIsAlone(patch, r)' <=> ScenarioIsAlone(patch, r)
    BY <1>3, <1>4 DEF ScenarioIsAlone, SameAlone
  <1>6. request.scenarios \in Seq(Range(request.scenarios))
    BY ReceivedAssumption DEF Routed
  <1>7. ASSUME NEW j \in DOMAIN request.scenarios, j < Len(log')
        PROVE  ScenarioIsAlone(request.scenarios[j], log'[j + 1])
    <2>1. j \in Nat /\ Len(log) \in Nat
      BY <1>1, <1>6
    <2>2. CASE j < Len(log)
      <3>1. ScenarioIsAlone(request.scenarios[j], log[j + 1])
        BY <2>2 DEF Comparing, ScenariosAreAlone
      <3>2. j + 1 \in 1..Len(log)
        BY <1>6, <2>1, <2>2
      <3> QED
        BY <1>3, <3>1, <3>2
    <2>3. CASE j = Len(log)
      BY <1>3, <2>3
    <2> QED
      BY <1>3, <1>7, <2>1, <2>2, <2>3
  <1>8. ScenariosAreAlone'
    BY <1>5, <1>7 DEF ScenariosAreAlone
  <1>9. SolveOnce(Problem, request.algorithm)' = Answered(log'[1])
    BY <1>3 DEF Comparing, Problem
  <1> QED
    BY <1>3, <1>8, <1>9 DEF Comparing

(* Nor does a step that notes nothing.                                     *)
LEMMA AloneStays ==
    ASSUME Comparing, request' = request, log' = log,
           at' = "base" => log = <<>>, at' \in {"scenarios", "search"} => log # <<>>
    PROVE  Comparing'
PROOF
  <1>1. FixedAlgorithm' = FixedAlgorithm
    BY DEF FixedAlgorithm
  <1>2. ScenariosAreAlone => ScenariosAreAlone'
    BY <1>1 DEF ScenariosAreAlone, ScenarioIsAlone, SameAlone
  <1> QED
    BY <1>2 DEF Comparing, Problem

(* The base's algorithm, when it has been answered.                        *)
LEMMA AlgorithmIsFixed ==
    ASSUME Routed, Comparing, request.kind = "simulate", log # <<>>
    PROVE  /\ FixedAlgorithm = log[1].algorithm /\ FixedAlgorithm # None
           /\ SolveOnce(Problem, FixedAlgorithm) = Answered(log[1])
PROOF
  <1>1. SolveOnce(Problem, request.algorithm) = Answered(log[1])
    BY DEF Comparing
  <1>2. \A b : Answered(b).body = b /\ Answered(b) # Refused /\ Answered(b) # Raised
    BY DEF Answered, Refused, Raised
  <1>3. log[1].algorithm = Chosen(Problem, request.algorithm) /\ Known(Problem, Chosen(Problem, request.algorithm))
    BY <1>1, <1>2, SolveOnceEnds
  <1>4. Problem.type \in ProblemTypes
    BY ValidKeepsType, ReceivedAssumption DEF Routed, Problem
  <1>5. \A s : Known(Problem, s) => s # None
    BY <1>4, NamesAssumption DEF Known
  <1>6. FixedAlgorithm = log[1].algorithm /\ FixedAlgorithm # None
    BY <1>3, <1>5 DEF FixedAlgorithm, Chosen
  <1>7. Chosen(Problem, FixedAlgorithm) = Chosen(Problem, request.algorithm)
    BY <1>3, <1>6 DEF Chosen
  <1> QED
    BY <1>1, <1>6, <1>7 DEF SolveOnce

(* What a scenario's result says of the changed problem.                   *)
LEMMA NotedIsAlone ==
    ASSUME Routed, Comparing, request.kind = "simulate", log # <<>>, NEW patch,
           NEW r, r = SolveOnce(ApplyOverrides(request.problem, patch), FixedAlgorithm)
    PROVE  /\ r.outcome = "answered" => ScenarioIsAlone(patch, r.body)
           /\ r.outcome # "answered" /\ r # Raised => ScenarioIsAlone(patch, InvalidScenario(r.outcome))
PROOF
  <1> DEFINE changed == ModelValidate(DeepMerge(request.problem, patch))
             alone == SolveOnce(changed, FixedAlgorithm)
             applied == ApplyOverrides(request.problem, patch)
  <1>1. \A b : Answered(b).body = b /\ Answered(b).outcome = "answered"
        /\ Refused.outcome = "refused" /\ Raised.outcome = "raised"
    BY DEF Answered, Refused, Raised
  <1>2. \/ r = Refused \/ r = Raised
        \/ /\ r = Answered(r.body) /\ r.body.algorithm = Chosen(applied, FixedAlgorithm)
           /\ r.body.error = None /\ applied # Invalid
    BY SolveOnceEnds
  <1>3. Retyped(patch) => applied = Invalid
    BY DEF Retyped, ApplyOverrides
  <1>4. ~Retyped(patch) => applied = changed /\ r = alone
    BY DEF Retyped, ApplyOverrides
  <1>5. FixedAlgorithm = log[1].algorithm /\ FixedAlgorithm # None
        /\ SolveOnce(Problem, FixedAlgorithm) = Answered(log[1])
    BY AlgorithmIsFixed
  <1>6. patch = Object(NoFields) => ~Retyped(patch) /\ r = Answered(log[1])
    <2> SUFFICES ASSUME patch = Object(NoFields) PROVE ~Retyped(patch) /\ r = Answered(log[1])
      OBVIOUS
    <2>1. ~Retyped(patch)
      BY DEF Retyped, Object, NoFields
    <2>2. request.problem = Object([f \in DOMAIN request.problem.fields |-> request.problem.fields[f]])
      BY ReceivedAssumption DEF Routed
    <2>3. DeepMerge(request.problem, patch) = request.problem
      BY <2>2, NothingMerged
    <2> QED
      BY <1>4, <1>5, <2>1, <2>3 DEF Problem
  <1>7. ASSUME r.outcome = "answered" PROVE ScenarioIsAlone(patch, r.body)
    <2>1. r = Answered(r.body) /\ ~Retyped(patch) /\ r.body.algorithm = FixedAlgorithm /\ r.body.error = None
      BY <1>1, <1>2, <1>3, <1>5, <1>7 DEF Chosen
    <2>2. SameAlone(r.body, alone, Retyped(patch))
      BY <1>4, <1>5, <2>1, NoneIsNoError DEF SameAlone
    <2> QED
      BY <1>1, <1>6, <2>2 DEF ScenarioIsAlone
  <1>8. ASSUME r.outcome # "answered", r # Raised
        PROVE  ScenarioIsAlone(patch, InvalidScenario(r.outcome))
    <2>1. r = Refused
      BY <1>1, <1>2, <1>8
    <2>2. InvalidScenario("refused").error = "refused" /\ "refused" # None
      BY NoneIsNoError
    <2>3. SameAlone(InvalidScenario("refused"), alone, Retyped(patch))
      BY <1>4, <2>1, <2>2 DEF SameAlone
    <2>4. patch # Object(NoFields)
      BY <1>1, <1>6, <1>8
    <2> QED
      BY <1>1, <2>1, <2>3, <2>4 DEF ScenarioIsAlone
  <1> QED
    BY <1>7, <1>8

(* Each scenario is noted by itself, and nothing else is.                  *)
LEMMA ComparingInductive ==
    ASSUME Routed, Comparing, [Next]_vars
    PROVE  Comparing'
PROOF
  <1>1. ASSUME UNCHANGED handlerVars PROVE Comparing'
    BY <1>1, AloneStays DEF handlerVars, Comparing
  <1>2. ASSUME TrialStep \/ ModelStep PROVE Comparing'
    BY <1>2, TrialRoutes, ModelRoutes DEF Comparing
  <1>3. ASSUME SimulationStep PROVE Comparing'
    <2>0. request.kind = "simulate" /\ request' = request
      BY <1>3, SimulationRoutes
    <2>1. CASE SolveBase
      <3>1. at = "base" /\ log = <<>> /\ BaseEnds(SolveOnce(Problem, request.algorithm))
        BY <2>0, <2>1 DEF SolveBase, Comparing
      <3> DEFINE base == SolveOnce(Problem, request.algorithm)
      <3>2. CASE base.outcome = "answered"
        <4>1. at' = "scenarios" /\ log' = <<base.body>>
          BY <3>1, <3>2 DEF BaseEnds, Proceed
        <4>2. base = Answered(base.body)
          BY <3>2, SolveOnceEnds DEF Refused, Raised
        <4> HIDE DEF base
        <4>3. log' \in Seq({base.body}) /\ log' # <<>> /\ log'[1] = base.body /\ Len(log') = 1
          BY <4>1
        <4>4. request.scenarios \in Seq(Range(request.scenarios))
          BY <2>0, ReceivedAssumption DEF Routed
        <4>5. \A i \in DOMAIN request.scenarios : ~(i < Len(log'))
          BY <4>3, <4>4
        <4>6. base' = base
          BY <2>0 DEF base, Problem
        <4> QED
          BY <2>0, <4>1, <4>2, <4>3, <4>5, <4>6 DEF Comparing, ScenariosAreAlone, base
      <3>3. CASE base.outcome # "answered"
        BY <2>0, <3>1, <3>3, AloneStays DEF BaseEnds, Reply
      <3> QED
        BY <3>2, <3>3
    <2>2. CASE SolveScenario
      <3> DEFINE i == Len(log)
                 patch == request.scenarios[i]
                 r == SolveOnce(ApplyOverrides(request.problem, patch), FixedAlgorithm)
      <3>1. at = "scenarios" /\ log # <<>> /\ i <= Len(request.scenarios) /\ NoteScenario(r)
        BY <2>0, <2>2 DEF SolveScenario, Comparing
      <3>2. i \in DOMAIN request.scenarios
        BY <2>0, <3>1, ReceivedAssumption DEF Routed, Comparing
      <3>3. /\ r.outcome = "answered" => ScenarioIsAlone(patch, r.body)
            /\ r.outcome # "answered" /\ r # Raised => ScenarioIsAlone(patch, InvalidScenario(r.outcome))
        BY <2>0, <3>1, NotedIsAlone
      <3> HIDE DEF r
      <3>4. CASE r.outcome = "answered"
        BY <2>0, <3>1, <3>2, <3>3, <3>4, AloneGrows DEF NoteScenario, Proceed
      <3>5. CASE r.outcome = "raised"
        BY <2>0, <3>1, <3>5, AloneStays DEF NoteScenario, Reply
      <3>6. CASE r.outcome \notin {"answered", "raised"}
        <4>1. r # Raised
          BY <3>6 DEF Raised
        <4> QED
          BY <2>0, <3>1, <3>2, <3>3, <3>6, <4>1, AloneGrows DEF NoteScenario, Proceed
      <3> QED
        BY <3>4, <3>5, <3>6
    <2>3. CASE ScenarioTimesOut
      <3> DEFINE i == Len(log)
                 patch == request.scenarios[i]
      <3>1. at = "scenarios" /\ log # <<>> /\ i <= Len(request.scenarios) /\ NoteScenario(TimedOut)
        BY <2>0, <2>3 DEF ScenarioTimesOut, Comparing
      <3>2. i \in DOMAIN request.scenarios
        BY <2>0, <3>1, ReceivedAssumption DEF Routed, Comparing
      <3>3. at' = "scenarios" /\ log' = Append(log, InvalidScenario("timed_out"))
        BY <3>1 DEF NoteScenario, TimedOut, Proceed
      <3>4. InvalidScenario("timed_out").error = "timed_out" /\ "timed_out" # None
        BY NoneIsNoError
      <3>5. ScenarioIsAlone(patch, InvalidScenario("timed_out"))
        BY <3>4 DEF ScenarioIsAlone, SameAlone
      <3> QED
        BY <2>0, <3>1, <3>2, <3>3, <3>5, AloneGrows
    <2>4. CASE BaseTimesOut \/ WithoutSearch \/ SearchReturns \/ SearchFails \/ SearchTimesOut
      BY <2>0, <2>4, AloneStays
      DEF BaseTimesOut, WithoutSearch, SearchReturns, SearchFails, SearchTimesOut, Reply
    <2>5. CASE StartSearch
      BY <2>0, <2>5, AloneStays DEF StartSearch, Proceed, Comparing
    <2> QED
      BY <1>3, <2>1, <2>2, <2>3, <2>4, <2>5 DEF SimulationStep
  <1>4. ASSUME EvaluateNext PROVE Comparing'
    BY <1>1, <1>4 DEF EvaluateNext
  <1> QED
    BY <1>1, <1>2, <1>3, <1>4, NextIs, Zenon

-----------------------------------------------------------------------------
(* The invariant of the whole: the handlers keep to their steps, and what  *)
(* runs beside them, the bisection and the measurements, to its own.       *)
ComposedInv ==
    /\ Routed
    /\ BudgetInv /\ MeterInv
    /\ Recommending /\ Benchmarking /\ Listening /\ Comparing

LEMMA InitComposed == Init => ComposedInv
PROOF
  <1>1. Init => Recommending
    BY ReceivedAssumption DEF Init, Recommending, Kinds, FirstStep
  <1>2. Init => Benchmarking
    BY ReceivedAssumption DEF Init, Benchmarking, Unrated, Kinds, FirstStep
  <1>3. Init => Listening
    BY ReceivedAssumption DEF Init, Listening, Kinds, FirstStep
  <1>4. Init => Comparing
    <2>1. ASSUME Init PROVE log \in Seq({}) /\ ScenariosAreAlone
      <3>1. request.kind = "simulate" => request.scenarios \in Seq(Range(request.scenarios))
        BY <2>1, ReceivedAssumption DEF Init
      <3> QED
        BY <2>1, <3>1 DEF Init, ScenariosAreAlone
    <2> QED
      BY <2>1 DEF Init, Comparing, FirstStep
  <1> QED
    BY <1>1, <1>2, <1>3, <1>4, InitRouted, InitBudget, InitMeter DEF Init, ComposedInv

LEMMA ComposedInductive == ComposedInv /\ [Next]_vars => ComposedInv'
PROOF
  <1> SUFFICES ASSUME ComposedInv, [Next]_vars PROVE ComposedInv'
    OBVIOUS
  <1>1. [MeasurementNext]_meterVars
    BY NextIs, Zenon
  <1> QED
    BY <1>1, NextRoutes, BudgetInductive, MeterStep, RecommendingInductive, BenchmarkingInductive,
       ListeningInductive, ComparingInductive
    DEF ComposedInv

LEMMA ComposedHolds == Spec => []ComposedInv
PROOF BY InitComposed, ComposedInductive, PTL DEF Spec

(* The caller of a sensitivity search gives up on one that was not late    *)
(* only if the number of values is no power of two, and then a single      *)
(* evaluation was missing: for every range.                                *)
THEOREM BudgetMissesOne == Spec => []BudgetSuffices
PROOF
  <1>1. ComposedInv => BudgetSuffices
    BY BudgetImplies DEF ComposedInv
  <1> QED
    BY <1>1, ComposedHolds, PTL

(* The thresholds of sensitivity searches are boundaries, and the least    *)
(* ones where the metric keeps satisfying, whatever the problem, the       *)
(* field and the metric, and whether the caller still waits or not.        *)
THEOREM AnalysesFindThresholds == Spec => [](ThresholdIsBoundary /\ ThresholdIsLeast)
PROOF
  <1>1. ComposedInv => ThresholdIsBoundary /\ ThresholdIsLeast
    BY InvImpliesBoundary, InvImpliesLeast DEF ComposedInv, BudgetInv
  <1> QED
    BY <1>1, ComposedHolds, PTL

(* So it is with the measurements that run beside the other handlers: what *)
(* they report is their own but for the work beside them and for the calls *)
(* they met.  Which figures a benchmark puts in its entries is not said.   *)
THEOREM MeasurementsAreOwn == Spec => []PeakIsOwn
PROOF
  <1>1. ComposedInv => PeakIsOwn
    BY DEF ComposedInv, MeterInv, OwnMemory, OwnBut, Alone, PeakIsOwn, NothingBeside, Beside
  <1> QED
    BY <1>1, ComposedHolds, PTL

(* Whatever the model ranks, every strategy of the type is recommended     *)
(* once, the ranked ones first and in their order, the others in the order *)
(* of the registry.                                                        *)
THEOREM RecommendationsAreWhole == Spec => []RankingIsWhole
PROOF
  <1>1. ComposedInv => RankingIsWhole
    BY RecommendingImplies DEF ComposedInv
  <1> QED
    BY <1>1, ComposedHolds, PTL

(* However many strategies are measured, in a benchmark that is rated by   *)
(* positive figures exactly the valid entries with a figure have a ratio,  *)
(* to the one best figure among them.                                      *)
THEOREM BenchmarksRank == Spec => []RatiosRank
PROOF
  <1>1. ComposedInv => RatiosRank
    BY BenchmarkingImplies DEF ComposedInv
  <1> QED
    BY <1>1, ComposedHolds, PTL

(* Whatever the model says and whatever the catalogue holds, the problem   *)
(* that is answered keeps the base problem's type and catalogue, changes   *)
(* only the fields the model gave, and refers only to known elements.      *)
THEOREM StructuredProblemsAreGrounded == Spec => []StructuredIsGrounded
PROOF
  <1>1. ComposedInv => StructuredIsGrounded
    BY ListeningImplies DEF ComposedInv
  <1> QED
    BY <1>1, ComposedHolds, PTL

(* Whatever the scenarios and however many, each one's patch is merged as  *)
(* RFC 7386 says (but for nulls in what replaces a value), its result is   *)
(* that of the base changed by it alone, computed by the algorithm of the  *)
(* base; one is called invalid only if it is; and one that changes nothing *)
(* has the base's own result.                                              *)
THEOREM ScenariosCompare == Spec => []ScenariosAreComparable
PROOF
  <1>1. ASSUME ComposedInv PROVE ScenariosAreComparable
    <2>1. request \in Received
      BY <1>1 DEF ComposedInv, Routed
    <2>2. ASSUME request.kind = "simulate", NEW i \in DOMAIN request.scenarios
          PROVE  ScenarioIsMerged(request.problem, request.scenarios[i])
      <3>1. ThreeDeep(request.problem) /\ request.scenarios[i].kind = "object"
        BY <2>1, <2>2, ReceivedAssumption DEF Range
      <3>2. IsMergePatch(request.problem, request.scenarios[i],
                         DeepMerge(request.problem, request.scenarios[i]))
        BY <3>1, DeepMergeIsMergePatch, Zenon
      <3> QED
        BY <3>2 DEF ScenarioIsMerged
    <2>3. ScenariosAreAlone
      BY <1>1 DEF ComposedInv, Comparing, ScenariosAreAlone
    <2> QED
      BY <2>2, <2>3 DEF ScenariosAreComparable
  <1> QED
    BY <1>1, ComposedHolds, PTL
=============================================================================
