----------------------------- MODULE Measurement -----------------------------
(***************************************************************************)
(* measure_call (app/services/measurement.py), which runs a computation    *)
(* several times and reports the peak of its memory, as tracemalloc saw    *)
(* it: the tracing is one switch, and one peak, for a whole process.       *)
(*                                                                         *)
(* Each meter is one such call.  In the mode "process" of SOLVE_ISOLATION  *)
(* it has a process of its own, in the mode "thread" all share that of the *)
(* API, which also does work that nobody measures: its event loop, other   *)
(* solves, everything else that runs in its threads.  A peak is the set of *)
(* what may count in it, and a computation takes memory early and late.    *)
(***************************************************************************)
EXTENDS Naturals, FiniteSets

CONSTANTS Meters,      \* the calls of measure_call
          MeterRuns    \* how often each runs its computation

VARIABLES meterMode,   \* SOLVE_ISOLATION, "off" when nothing is measured
          meterAt,     \* [Meters -> where the call is]
          runsLeft,    \* [Meters -> runs still to do]
          tracing,     \* the processes that trace
          traced,      \* [process -> the memory in its peak]
          peak,        \* [Meters -> the memory in the peak it reports]
          met,         \* history: [Meters -> the calls its runs may have met]
          beside       \* history: the calls beside whose runs the API did other work

meterVars == <<meterMode, meterAt, runsLeft, tracing, traced, peak, met, beside>>

Api == "api"

ASSUME MeasurementAssumption == Api \notin Meters

ProcessOf(m) == IF meterMode = "thread" THEN Api ELSE m
Memory(m) == {<<m, "early">>, <<m, "late">>}
Unmeasured == <<Api, "work">>
AtWork == {"early", "late", "read", "stop"}

MeterInit(mode) ==
    /\ meterMode = mode
    /\ meterAt = [m \in Meters |-> "start"]
    /\ runsLeft = [m \in Meters |-> MeterRuns]
    /\ tracing = {}
    /\ traced = [q \in Meters \cup {Api} |-> {}]
    /\ peak = [m \in Meters |-> {}]
    /\ met = [m \in Meters |-> {}]
    /\ beside = {}

MeterGoes(m, from, to) ==
    /\ meterAt[m] = from
    /\ meterAt' = [meterAt EXCEPT ![m] = to]
    /\ UNCHANGED meterMode

(* History: a call meets those that are at work in its process, and those  *)
(* that failed there before it.                                            *)
Meets(m) ==
    LET others == {o \in Meters \ {m} : ProcessOf(o) = ProcessOf(m)}
    IN  met' = [o \in Meters |->
                   IF o = m THEN met[m] \cup {x \in others : meterAt[x] \in AtWork \cup {"failed"}}
                   ELSE IF o \in others /\ meterAt[o] \in AtWork
                        THEN met[o] \cup {m} ELSE met[o]]

(* tracemalloc.start(), which does nothing if tracing is on.               *)
TraceStart(m) ==
    LET q == ProcessOf(m)
    IN  /\ meterMode # "off"
        /\ MeterGoes(m, "start", "early")
        /\ tracing' = tracing \cup {q}
        /\ traced' = [traced EXCEPT ![q] = IF q \in tracing THEN @ ELSE {}]
        /\ Meets(m)
        /\ UNCHANGED <<runsLeft, peak, beside>>

(* fn() takes memory, which counts if tracing is on when it does.          *)
Allocate(m, part, next) ==
    LET q == ProcessOf(m)
    IN  /\ MeterGoes(m, part, next)
        /\ traced' = [traced EXCEPT ![q] = IF q \in tracing THEN @ \cup {<<m, part>>} ELSE @]
        /\ UNCHANGED <<runsLeft, tracing, peak, met, beside>>

(* Work of the API that is not measured takes memory, in whatever thread:  *)
(* the trace is one for the whole process.                                 *)
WorkBeside ==
    /\ traced' = [traced EXCEPT ![Api] = IF Api \in tracing THEN @ \cup {Unmeasured} ELSE @]
    /\ beside' = beside \cup
                    {m \in Meters : ProcessOf(m) = Api /\ meterAt[m] \in AtWork \ {"stop"}}
    /\ UNCHANGED <<meterMode, meterAt, runsLeft, tracing, peak, met>>

(* fn() raises, and nothing stops the tracing; or its process is killed.   *)
MeterFails(m) ==
    /\ MeterGoes(m, "late", "failed")
    /\ UNCHANGED <<runsLeft, tracing, traced, peak, met, beside>>

(* get_traced_memory(), which is 0 when tracing is off; the largest peak   *)
(* of all runs is reported.                                                *)
ReadPeak(m) ==
    /\ MeterGoes(m, "read", "stop")
    /\ peak' = [peak EXCEPT ![m] = @ \cup IF ProcessOf(m) \in tracing THEN traced[ProcessOf(m)] ELSE {}]
    /\ UNCHANGED <<runsLeft, tracing, traced, met, beside>>

(* Mutant: tracing stays on between the runs, and after the last of them.  *)
TraceGoesOn(m) ==
    /\ MeterGoes(m, "stop", IF runsLeft[m] = 1 THEN "reported" ELSE "start")
    /\ runsLeft' = [runsLeft EXCEPT ![m] = @ - 1]
    /\ UNCHANGED <<tracing, traced, peak, met, beside>>

(* tracemalloc.stop(), which also forgets what was traced.                 *)
TraceStop(m) ==
    /\ MeterGoes(m, "stop", IF runsLeft[m] = 1 THEN "reported" ELSE "start")
    /\ runsLeft' = [runsLeft EXCEPT ![m] = @ - 1]
    /\ tracing' = tracing \ {ProcessOf(m)}
    /\ traced' = [traced EXCEPT ![ProcessOf(m)] = {}]
    /\ UNCHANGED <<peak, met, beside>>

MeasurementNext ==
    \/ WorkBeside
    \/ \E m \in Meters :
        \/ TraceStart(m)
        \/ Allocate(m, "early", "late") \/ Allocate(m, "late", "read")
        \/ MeterFails(m)
        \/ ReadPeak(m)
        \/ TraceStop(m)

-----------------------------------------------------------------------------
(* The whole of a computation, and nothing else but what is beside it.     *)
Beside(m) == {w \in {Unmeasured} : m \in beside}
OwnBut(memory, own, m) == own \subseteq memory /\ memory \subseteq own \cup Beside(m)

(* A peak that is reported holds the whole memory of its computation, in   *)
(* every run.  Where each measurement has a process of its own it holds    *)
(* nothing else.  In the process of the API other work comes in, if there  *)
(* was any while the call was at work, and the memory of other calls, or   *)
(* of work that was over before, only if the call met one that was being   *)
(* measured too or that had failed there.                                  *)
PeakIsOwn ==
    \A m \in Meters :
        meterAt[m] = "reported" =>
            /\ meterMode = "process" => peak[m] = Memory(m)
            /\ met[m] = {} => OwnBut(peak[m], Memory(m), m)
=============================================================================
