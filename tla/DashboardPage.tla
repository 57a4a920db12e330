--------------------------- MODULE DashboardPage ---------------------------
(***************************************************************************)
(* public/app.js: the page that shows the reports.  It runs to completion  *)
(* on one thread: a socket event, a click or a timer at a time.            *)
(*                                                                         *)
(* Timers are counted, not timed: one that is running may fire at any      *)
(* moment, and those with the same delay fire in the order they were       *)
(* started.  Kept are the state that several handlers share and the timers *)
(* that undo what a handler did.  Left out are the simulated loads, the    *)
(* wires and boxes that blink like the lock, the charts' other points and  *)
(* the lines of the terminal.                                              *)
(***************************************************************************)
EXTENDS Integers, Sequences

CONSTANTS
    MaxTimers,              \* bound: highlights under way at once
    MaxCount                \* bound: messages between two throughput points

ASSUME PageAssumption == MaxTimers \in Nat \ {0} /\ MaxCount \in Nat \ {0}

Tabs   == {"v1", "v2", "v3"}
Faulty == {"front", "rear"}         \* the keys of activeFaults
Versions == Tabs \cup {"other"}      \* what a report may say of itself
Senders == {"lidar", "radar", "camera", "ultrasonic"}   \* sensor ids 1 to 4 of v2
None   == 0                         \* no priority is shown

VARIABLES
    activeVersion,
    v3Interval,             \* is the interval v3Interval names running?
    strays,                 \* running v3 intervals that no variable names
    activeFaults,
    triggered,              \* "STATUS: FAULT DETECTED" is shown
    pulseRate,              \* of v3-pulse-rate
    currentMsgCount,
    received,               \* history: v2 messages, modulo MaxCount + 1
    plotted,                \* history: those the points show, likewise
    locked,                 \* the mutex is shown locked
    unlocks,                \* timers that will unlock it
    envelopes,              \* timers that will show a priority, in order
    elevated,               \* the priority piLabel shows
    snapbacks               \* timers that will take it back

tabVars       == <<activeVersion, v3Interval, strays>>
faultVars     == <<activeFaults, triggered>>
countVars     == <<currentMsgCount, received, plotted>>
lockVars      == <<locked, unlocks>>
priorityVars  == <<envelopes, elevated, snapbacks>>
pageVars == <<tabVars, faultVars, pulseRate, countVars, lockVars, priorityVars>>

Priorities == {10, 20, 24}

PageTypeOK ==
    /\ activeVersion \in Versions
    /\ v3Interval \in BOOLEAN /\ strays \in Nat
    /\ activeFaults \subseteq Faulty /\ triggered \in BOOLEAN
    /\ pulseRate \in {"--", "alive", "0"}
    /\ currentMsgCount \in 0 .. MaxCount
    /\ received \in 0 .. MaxCount /\ plotted \in 0 .. MaxCount
    /\ locked \in BOOLEAN /\ unlocks \in Nat
    /\ envelopes \in Seq(Priorities) /\ snapbacks \in Nat
    /\ elevated \in Priorities \cup {None}

\* A page that has just been loaded.
PageInit ==
    /\ activeVersion = "v1" /\ v3Interval = FALSE /\ strays = 0
    /\ activeFaults = {} /\ triggered = FALSE
    /\ pulseRate = "--"
    /\ currentMsgCount = 0 /\ received = 0 /\ plotted = 0
    /\ locked = FALSE /\ unlocks = 0
    /\ envelopes = << >> /\ elevated = None /\ snapbacks = 0

-----------------------------------------------------------------------------
(* Tabs and the v3 interval.                                               *)

\* Slips that the properties notice, one mutation each.
ResetAnyTab ==
    /\ plotted' = (IF activeVersion = "v2"
                    THEN (plotted + currentMsgCount) % (MaxCount + 1) ELSE plotted)
    /\ currentMsgCount' = 0
    /\ UNCHANGED <<tabVars, faultVars, pulseRate, received, lockVars, priorityVars>>
StillRunning  == v3Interval
FrontOnly     == "front" \in activeFaults
NeverUnlocked == UNCHANGED unlocks

\* What clearInterval(v3Interval) leaves of the interval it names.
ClearedInterval == FALSE

\* The old interval is cleared, if it runs, before there is a new one.
initVersion3 ==
    /\ v3Interval' = TRUE
    /\ strays' = IF ClearedInterval THEN strays + 1 ELSE strays

\* A version that has no tab leaves the page without one.
switchVersion(version) ==
    /\ activeVersion' = version
    /\ IF version = "v3" /\ activeVersion # "v3"
       THEN initVersion3
       ELSE UNCHANGED <<v3Interval, strays>>

\* "If both injected faults are active, no pulses."
HeartbeatFailed == activeFaults = Faulty

\* An interval of v3 fires, every 200 ms: on another tab it clears the one
\* that v3Interval names, here it shows the pulse.
V3Fires ==
    /\ v3Interval \/ strays > 0
    /\ IF activeVersion = "v3"
       THEN pulseRate' = (IF HeartbeatFailed THEN "0" ELSE "alive") /\ UNCHANGED v3Interval
       ELSE v3Interval' = FALSE /\ UNCHANGED pulseRate
    /\ UNCHANGED <<activeVersion, strays, faultVars, countVars, lockVars, priorityVars>>

\* A click on a tab.
Click(version) ==
    /\ switchVersion(version)
    /\ UNCHANGED <<faultVars, pulseRate, countVars, lockVars, priorityVars>>

triggerFault(zone) ==
    /\ activeFaults' = activeFaults \cup {zone}
    /\ triggered' = TRUE
    /\ UNCHANGED <<tabVars, pulseRate, countVars, lockVars, priorityVars>>

resetFaults ==
    /\ activeFaults' = {}
    /\ triggered' = FALSE
    /\ UNCHANGED <<tabVars, pulseRate, countVars, lockVars, priorityVars>>

-----------------------------------------------------------------------------
(* Reports.                                                                *)

\* Another highlight is within the bound.
Room == unlocks + Len(envelopes) + snapbacks < MaxTimers

\* The timer that unlocks the picture again is started.
UnlockLater == unlocks' = unlocks + 1

\* A v1 report of a push or a pop: the mutex is shown locked for a while.
animateMutexLock ==
    /\ Room
    /\ locked' = TRUE
    /\ UnlockLater

Unlock ==
    /\ unlocks > 0
    /\ unlocks' = unlocks - 1
    /\ locked' = FALSE
    /\ UNCHANGED <<tabVars, faultVars, pulseRate, countVars, priorityVars>>

\* The priority shown for a sensor.
PriorityLevel(sensor) ==
    CASE sensor = "lidar" -> 24 [] sensor = "camera" -> 20 [] OTHER -> 10

\* A v2 report of a received message is counted, whether or not the id of its
\* sensor can be read.
CountMessage ==
    /\ currentMsgCount < MaxCount
    /\ currentMsgCount' = currentMsgCount + 1
    /\ received' = (received + 1) % (MaxCount + 1)

\* Its envelope is sent if the id can be read.
SendEnvelope(sensor) ==
    /\ Room
    /\ envelopes' = Append(envelopes, PriorityLevel(sensor))

\* The envelope arrives: the server is shown at the sender's priority.
Arrive ==
    /\ envelopes # << >>
    /\ elevated' = Head(envelopes)
    /\ envelopes' = Tail(envelopes)
    /\ snapbacks' = snapbacks + 1
    /\ UNCHANGED <<tabVars, faultVars, pulseRate, countVars, lockVars>>

SnapBack ==
    /\ snapbacks > 0
    /\ snapbacks' = snapbacks - 1
    /\ elevated' = None
    /\ UNCHANGED <<tabVars, faultVars, pulseRate, countVars, lockVars, envelopes>>

\* The handler of 'qnx_data': a report without a version counts as v1.
OnData(version, shows) ==
    /\ switchVersion(version)
    /\ CASE version = "v1" /\ shows = "lock" ->
              animateMutexLock /\ UNCHANGED <<countVars, priorityVars>>
         [] version = "v2" /\ shows = "anonymous" ->
              CountMessage /\ UNCHANGED <<plotted, lockVars, priorityVars>>
         [] version = "v2" /\ shows \in Senders ->
              /\ CountMessage /\ SendEnvelope(shows)
              /\ UNCHANGED <<plotted, lockVars, elevated, snapbacks>>
         [] OTHER -> UNCHANGED <<countVars, lockVars, priorityVars>>
    /\ UNCHANGED <<faultVars, pulseRate>>

\* Every 500 ms, if the tab with the chart is shown: the count becomes a point
\* and starts again.
PlotFires ==
    /\ activeVersion = "v2"
    /\ plotted' = (plotted + currentMsgCount) % (MaxCount + 1)
    /\ currentMsgCount' = 0
    /\ UNCHANGED <<tabVars, faultVars, pulseRate, received, lockVars, priorityVars>>

\* The user loads the page again: what it held and its timers are gone.
Reload ==
    /\ activeVersion' = "v1" /\ v3Interval' = FALSE /\ strays' = 0
    /\ activeFaults' = {} /\ triggered' = FALSE
    /\ pulseRate' = "--"
    /\ currentMsgCount' = 0 /\ received' = 0 /\ plotted' = 0
    /\ locked' = FALSE /\ unlocks' = 0
    /\ envelopes' = << >> /\ elevated' = None /\ snapbacks' = 0

-----------------------------------------------------------------------------
\* Whatever the programs and the user do: a program may send any version.
PageNext ==
    \/ \E t \in Tabs : Click(t)
    \/ \E z \in Faulty : triggerFault(z)
    \/ resetFaults
    \/ \E v \in Versions, s \in {"lock", "anonymous", "other"} \cup Senders : OnData(v, s)
    \/ V3Fires \/ PlotFires \/ Unlock \/ Arrive \/ SnapBack
    \/ Reload

\* Timers that run fire.
PageFairness ==
    /\ WF_pageVars(V3Fires)
    /\ WF_pageVars(PlotFires)
    /\ WF_pageVars(Unlock)
    /\ WF_pageVars(Arrive)
    /\ WF_pageVars(SnapBack)

PageSafety == PageInit /\ [][PageNext]_pageVars
PageSpec == PageSafety /\ PageFairness

-----------------------------------------------------------------------------
(* Properties.                                                             *)

\* However fast the tabs change, by clicks or by reports of other programs,
\* no v3 interval is left running without a name to clear it by (each would
\* draw pulses of its own), and the v3 tab is never without one
\* (app.js:220-253).
OneInterval == strays = 0 /\ (activeVersion = "v3" => v3Interval)

\* The heartbeat shown on the v3 tab follows the injected faults, also when
\* they came or went on another tab: flat with both zones down, alive
\* otherwise (app.js:171-187, 250-252, 290-297).
PulseFollowsFaults ==
    /\ <>[](activeVersion = "v3" /\ activeFaults = Faulty) => <>[](pulseRate = "0")
    /\ <>[](activeVersion = "v3" /\ activeFaults # Faulty) => <>[](pulseRate = "alive")

\* A point may show messages of an earlier stay on the v2 tab, but none is
\* lost or shown twice between the tabs (app.js:190-198, 407).
NothingUncounted == (plotted + currentMsgCount) % (MaxCount + 1) = received

\* A picture does not stay locked, nor a priority elevated, however the
\* timers of several reports overlap and whatever tab is shown: "Simulate
\* quick CPU unlock", "Snap back to 10" (app.js:302-312, 447-472).
HighlightsEnd ==
    /\ locked ~> ~locked
    /\ elevated # None ~> elevated = None
=============================================================================
