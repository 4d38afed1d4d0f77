------------------------------- MODULE GuestRun -------------------------------
(***************************************************************************)
(* A full-system run of fs_hotskew.py: the guest's script, the m5 exits it  *)
(* hands the simulator, the switch from the atomic to the timing processor, *)
(* and the requests on their way through the instrumented controllers and,  *)
(* with --big-mem, the CXL bridge.  A refused request is sent again.  What  *)
(* a probe does with a request it counts is module Probe's.                 *)
(***************************************************************************)
EXTENDS Integers, Sequences, FiniteSets

CONSTANTS
  MaxTrials,     \* bound: how often the benchmark enters its timed kernel
  MaxRequests,   \* bound: requests made
  Room           \* requests a controller or the bridge can hold

VARIABLES
  args,      \* the command line
  guest,     \* what the guest executes
  trials,    \* timed kernels entered
  exits,     \* Phase.exits
  switched,  \* Phase.switched: the timing processor has taken over
  over,      \* how the simulation ended
  died,      \* history: the benchmark ended before its time
  made,      \* history: the requests, with the processor and what was executed
  refused,   \* the request that was refused and is to be sent again
  bridge,    \* the requests in the bridge
  queue,     \* the number of requests in each controller
  counted    \* what each probe has counted

vars == <<args, guest, trials, exits, switched, over, died, made, refused, bridge, queue,
          counted>>

\* atRoi: --switch-at-roi; stop: --max-exits; big: --big-mem; bounded: a dd of
\* --validation-bytes in the place of the benchmark.
Arguments == [atRoi : BOOLEAN, stop : {3, 4}, big : BOOLEAN, bounded : BOOLEAN]

Activities == {"boot", "setup", "kernel", "after", "idle"}

\* "device": what passes the bridge outside of the memory range it is probed for.
Targets == IF args.big THEN {"low", "high", "device"} ELSE {"low"}

Init ==
  /\ args \in Arguments
  /\ guest = "boot" /\ trials = 0 /\ exits = 0 /\ switched = FALSE
  /\ over = "no" /\ died = FALSE
  /\ made = <<>> /\ refused = "none" /\ bridge = <<>>
  /\ queue = [c \in {"low", "high"} |-> 0]
  /\ counted = [p \in {"low", "high", "bridge"} |-> 0]

--------------------------------------------------------------------------------
(* The script and the exits.                                                  *)

Switches(n) == ~switched /\ IF args.atRoi THEN n >= 2 ELSE n = 1
Stops(n) == switched /\ n >= args.stop

\* on_exit(): the switch comes first, and an exit that switches never stops.
OnExit(next) ==
  /\ over = "no"
  /\ exits' = exits + 1
  /\ switched' = (switched \/ Switches(exits + 1))
  /\ over' = IF Stops(exits + 1) THEN "stopped" ELSE "no"
  /\ guest' = next
  /\ UNCHANGED <<args, made, refused, bridge, queue, counted>>

HandBack == guest = "boot" /\ OnExit("setup") /\ UNCHANGED <<trials, died>>

\* hotskew_roi_begin(), once per trial; the bounded workload has one.
RoiBegin ==
  /\ \/ guest = "setup"
     \/ guest = "after" /\ trials < MaxTrials
  /\ OnExit("kernel")
  /\ trials' = trials + 1
  /\ UNCHANGED died

\* hotskew_roi_end(), or the last exit of the bounded script.
RoiEnd ==
  /\ guest = "kernel"
  /\ OnExit(IF args.bounded THEN "idle" ELSE "after")
  /\ UNCHANGED <<trials, died>>

\* The script's own exit, after the benchmark or in its place when it dies: the
\* script does not look at how the benchmark ended.
ScriptEnd ==
  /\ ~args.bounded /\ guest \in {"setup", "kernel", "after"}
  /\ OnExit("idle")
  /\ died' = (guest # "after")
  /\ UNCHANGED trials

\* --max-ticks are used up: the run ends without saying that it stops.
OutOfTicks ==
  /\ over = "no" /\ over' = "ticks"
  /\ UNCHANGED <<args, guest, trials, exits, switched, died, made, refused, bridge, queue, counted>>

--------------------------------------------------------------------------------
(* The requests.                                                              *)

ProbeOf(t) == IF t = "low" THEN "low" ELSE "bridge"
Accepts(t) == IF t = "low" THEN queue["low"] < Room ELSE Len(bridge) < Room

\* Mutant: a request is counted whenever it is sent.
SeenOnEntry(t, accepted) ==
  IF t # "device" THEN [counted EXCEPT ![ProbeOf(t)] = @ + 1] ELSE counted

\* A probe counts what is accepted, the bridge only what goes to its memory.
Seen(t, accepted) ==
  IF accepted /\ t # "device" THEN [counted EXCEPT ![ProbeOf(t)] = @ + 1] ELSE counted

\* recvTimingReq() of the low controller and of the bridge.
Arrive(t) ==
  /\ counted' = Seen(t, Accepts(t))
  /\ refused' = IF Accepts(t) THEN "none" ELSE t
  /\ queue' = IF Accepts(t) /\ t = "low" THEN [queue EXCEPT !["low"] = @ + 1] ELSE queue
  /\ bridge' = IF Accepts(t) /\ t # "low" THEN Append(bridge, t) ELSE bridge

\* The atomic processor is served at once and passes no probe.
Make(t) ==
  /\ over = "no" /\ refused = "none" /\ Len(made) < MaxRequests
  /\ made' = Append(made, [target |-> t, during |-> guest,
                           processor |-> IF switched THEN "timing" ELSE "atomic"])
  /\ IF switched THEN Arrive(t) ELSE UNCHANGED <<refused, bridge, queue, counted>>
  /\ UNCHANGED <<args, guest, trials, exits, switched, over, died>>

SendAgain ==
  /\ over = "no" /\ refused # "none" /\ Accepts(refused) /\ Arrive(refused)
  /\ UNCHANGED <<args, guest, trials, exits, switched, over, died, made>>

\* The bridge sends its first request on, to the high controller if it is for it.
Forward ==
  /\ over = "no" /\ bridge # <<>>
  /\ bridge' = Tail(bridge)
  /\ IF Head(bridge) = "device" THEN UNCHANGED <<queue, counted>>
     ELSE /\ queue["high"] < Room
          /\ queue' = [queue EXCEPT !["high"] = @ + 1]
          /\ counted' = [counted EXCEPT !["high"] = @ + 1]
  /\ UNCHANGED <<args, guest, trials, exits, switched, over, died, made, refused>>

Serve(c) ==
  /\ over = "no" /\ queue[c] > 0
  /\ queue' = [queue EXCEPT ![c] = @ - 1]
  /\ UNCHANGED <<args, guest, trials, exits, switched, over, died, made, refused, bridge, counted>>

Next ==
  \/ HandBack \/ RoiBegin \/ RoiEnd \/ ScriptEnd \/ OutOfTicks
  \/ \E t \in Targets : Make(t)
  \/ SendAgain \/ Forward
  \/ \E c \in {"low", "high"} : Serve(c)

Spec == Init /\ [][Next]_vars

--------------------------------------------------------------------------------
MadeFor(t) == {i \in DOMAIN made : made[i].target = t /\ made[i].processor = "timing"}
Waiting(t) == IF refused = t THEN 1 ELSE 0

\* What a lane asks of the log: "exit #3" and "-- stopping, summary follows".
Evidence == over = "stopped" /\ exits >= 3

(***************************************************************************)
(* The low controller and the bridge have counted each data request that    *)
(* the timing processor made once, however often it was refused, and the    *)
(* high controller those that have passed the bridge.  A run that is taken  *)
(* for one that reached the end of its region, and whose benchmark did not  *)
(* die, has left no request of a timed kernel to the atomic processor; with *)
(* --switch-at-roi and --max-exits 3 it has measured nothing else.          *)
(***************************************************************************)
RoiMeasured ==
  /\ counted["low"] + Waiting("low") = Cardinality(MadeFor("low"))
  /\ counted["bridge"] + Waiting("high") = Cardinality(MadeFor("high"))
  /\ counted["bridge"] = counted["high"] + Cardinality({i \in DOMAIN bridge : bridge[i] = "high"})
  /\ Evidence /\ ~died =>
       \A i \in DOMAIN made :
         IF made[i].processor = "atomic" THEN made[i].during # "kernel"
         ELSE args.atRoi /\ args.stop = 3 => made[i].during = "kernel"
=============================================================================
