----------------------------- MODULE PageProofs -----------------------------
(***************************************************************************)
(* The page of the dashboard, for any number of timers under way and of    *)
(* messages between two points.                                            *)
(***************************************************************************)
EXTENDS DashboardPage, TLAPS

\* The safety half of HighlightsEnd: what is highlighted has a timer running
\* that ends it, although no timer knows what it was started for.
TimersLeft ==
    /\ locked => unlocks > 0
    /\ elevated # None => snapbacks > 0

PageInv == PageTypeOK /\ OneInterval /\ NothingUncounted /\ TimersLeft

-----------------------------------------------------------------------------
(* Counting modulo N.                                                      *)

N == MaxCount + 1

\* A number below 2 * N is taken back by a turn at most.
LEMMA ModN ==
    ASSUME NEW x \in 0 .. 2 * N - 1
    PROVE  x % N = IF x < N THEN x ELSE x - N
  <1>1. N \in Nat \ {0}
    BY PageAssumption DEF N
  <1>2. CASE x < N
    BY <1>1, <1>2
  <1>3. CASE x >= N
    <2>1. x = N * 1 + (x - N) /\ x - N \in 0 .. N - 1
      BY <1>1, <1>3
    <2> QED
      BY <1>1, <1>3, <2>1
  <1> QED
    BY <1>2, <1>3, <1>1

\* One message more.
LEMMA CountOn ==
    ASSUME NEW p \in 0 .. MaxCount, NEW c \in 0 .. MaxCount - 1
    PROVE  (p + (c + 1)) % N = (((p + c) % N) + 1) % N
  <1>1. MaxCount \in Nat /\ N \in Nat \ {0} /\ MaxCount = N - 1
    BY PageAssumption DEF N
  <1>2. p + c \in 0 .. 2 * N - 1 /\ p + (c + 1) \in 0 .. 2 * N - 1
    BY <1>1
  <1>3. CASE p + c < N
    <2>1. (p + c) % N = p + c
      BY <1>1, <1>2, <1>3, ModN
    <2> QED
      BY <2>1
  <1>4. CASE p + c >= N
    <2>1. (p + c) % N = p + c - N /\ (p + (c + 1)) % N = p + (c + 1) - N
      BY <1>1, <1>2, <1>4, ModN
    <2>2. p + c - N + 1 \in 0 .. N - 1
      BY <1>1, <1>4
    <2>3. (p + c - N + 1) % N = p + c - N + 1
      BY <1>1, <2>2, ModN
    <2> QED
      BY <1>1, <2>1, <2>3
  <1> QED
    BY <1>1, <1>3, <1>4

\* A point takes the count over.
LEMMA CountPlotted ==
    ASSUME NEW p \in 0 .. MaxCount, NEW c \in 0 .. MaxCount
    PROVE  (p + c) % N \in 0 .. MaxCount /\ (((p + c) % N) + 0) % N = (p + c) % N
  <1>1. MaxCount \in Nat
    BY PageAssumption
  <1>2. p + c \in 0 .. 2 * N - 1
    BY <1>1 DEF N
  <1>3. (p + c) % N \in 0 .. N - 1
    BY <1>1, <1>2, ModN DEF N
  <1>4. ((p + c) % N) + 0 = (p + c) % N
    BY <1>3 DEF N
  <1>5. (p + c) % N \in 0 .. 2 * N - 1
    BY <1>1, <1>3 DEF N
  <1> QED
    BY <1>1, <1>3, <1>4, <1>5, ModN DEF N

-----------------------------------------------------------------------------
\* Every step of the page keeps its invariant.
LEMMA PageStep == PageInv /\ [PageNext]_pageVars => PageInv'
  <1> SUFFICES ASSUME PageInv, [PageNext]_pageVars PROVE PageInv'
    OBVIOUS
  <1> USE PageAssumption
      DEF PageInv, PageTypeOK, OneInterval, NothingUncounted, TimersLeft, tabVars,
          faultVars, countVars, lockVars, priorityVars
  <1>0. Tabs \subseteq Versions
    BY DEF Versions
  <1>1. ASSUME NEW v \in Versions, switchVersion(v)
        PROVE  /\ activeVersion' \in Versions /\ v3Interval' \in BOOLEAN /\ strays' = 0
               /\ activeVersion' = "v3" => v3Interval'
    BY <1>1 DEF switchVersion, initVersion3, ClearedInterval, Versions, Tabs
  <1>2. ASSUME NEW v \in Tabs, Click(v) PROVE PageInv'
    BY <1>0, <1>1, <1>2 DEF Click
  <1>3. ASSUME NEW z \in Faulty, triggerFault(z) PROVE PageInv'
    BY <1>3 DEF triggerFault
  <1>4. CASE resetFaults
    BY <1>4 DEF resetFaults
  <1>5. ASSUME NEW v \in Versions,
               NEW s \in {"lock", "anonymous", "other"} \cup Senders, OnData(v, s)
        PROVE  PageInv'
    <2>1. UNCHANGED <<faultVars, pulseRate>> /\ switchVersion(v)
      BY <1>5 DEF OnData
    <2>2. CASE animateMutexLock /\ UNCHANGED <<countVars, priorityVars>>
      BY <1>1, <2>1, <2>2 DEF animateMutexLock, UnlockLater
    <2>3. ASSUME CountMessage, UNCHANGED plotted
          PROVE  /\ currentMsgCount' \in 0 .. MaxCount /\ received' \in 0 .. MaxCount
                 /\ plotted' \in 0 .. MaxCount /\ NothingUncounted'
      <3>1. currentMsgCount \in 0 .. MaxCount - 1
        BY <2>3 DEF CountMessage
      <3>2. (plotted + (currentMsgCount + 1)) % N = (received + 1) % N
        BY <3>1, CountOn DEF N
      <3>3. received + 1 \in 0 .. 2 * N - 1
        BY DEF N
      <3> QED
        BY <2>3, <3>1, <3>2, <3>3, ModN DEF CountMessage, N
    <2>4. CASE CountMessage /\ UNCHANGED <<plotted, lockVars, priorityVars>>
      BY <1>1, <2>1, <2>3, <2>4
    <2>5. CASE /\ s \in Senders /\ CountMessage /\ SendEnvelope(s)
               /\ UNCHANGED <<plotted, lockVars, elevated, snapbacks>>
      <3>1. PriorityLevel(s) \in Priorities
        BY DEF PriorityLevel, Priorities
      <3>2. envelopes' \in Seq(Priorities)
        BY <2>5, <3>1 DEF SendEnvelope
      <3> QED
        BY <1>1, <2>1, <2>3, <2>5, <3>2
    <2>6. CASE UNCHANGED <<countVars, lockVars, priorityVars>>
      BY <1>1, <2>1, <2>6
    <2> QED
      BY <1>5, <2>2, <2>4, <2>5, <2>6 DEF OnData
  <1>6. CASE V3Fires
    BY <1>6 DEF V3Fires
  <1>7. CASE PlotFires
    <2>1. plotted' \in 0 .. MaxCount /\ NothingUncounted'
      BY <1>7, CountPlotted DEF PlotFires, N
    <2> QED
      BY <1>7, <2>1 DEF PlotFires
  <1>8. CASE Unlock
    <2>1. locked' \in BOOLEAN /\ ~locked' /\ unlocks' = unlocks - 1 /\ unlocks > 0
      BY <1>8, Zenon DEF Unlock
    <2> QED
      BY <1>8, <2>1 DEF Unlock
  <1>9. CASE Arrive
    <2>1. Head(envelopes) \in Priorities /\ Tail(envelopes) \in Seq(Priorities)
      BY <1>9 DEF Arrive
    <2> QED
      BY <1>9, <2>1 DEF Arrive
  <1>10. CASE SnapBack
    BY <1>10 DEF SnapBack
  <1>11. CASE Reload
    <2>1. (0 + 0) % (MaxCount + 1) = 0 /\ << >> \in Seq(Priorities)
      BY ModN DEF N
    <2>2. /\ locked' \in BOOLEAN /\ ~locked' /\ v3Interval' \in BOOLEAN
          /\ triggered' \in BOOLEAN
      BY <1>11, Zenon DEF Reload
    <2>3. /\ strays' = 0 /\ activeVersion' = "v1" /\ elevated' = None
          /\ currentMsgCount' = 0 /\ received' = 0 /\ plotted' = 0
      BY <1>11, Zenon DEF Reload
    <2>4. NothingUncounted'
      BY <2>1, <2>3, Zenon
    <2>5. PageTypeOK'
      BY <1>11, <2>1, <2>2, <2>3 DEF Reload, Versions, Tabs
    <2> QED
      BY <2>2, <2>3, <2>4, <2>5
  <1>12. CASE UNCHANGED pageVars
    BY <1>12 DEF pageVars
  <1> QED
    BY <1>2, <1>3, <1>4, <1>5, <1>6, <1>7, <1>8, <1>9, <1>10, <1>11, <1>12 DEF PageNext

\* What is highlighted on the page always has a timer that ends it, no
\* message is lost between the tabs, and no interval runs unnamed.
THEOREM PageInductive == PageSafety => []PageInv
  <1>1. PageInit => PageInv
    <2> SUFFICES ASSUME PageInit PROVE PageInv
      OBVIOUS
    <2>1. (0 + 0) % (MaxCount + 1) = 0 /\ << >> \in Seq(Priorities)
      BY PageAssumption, ModN DEF N
    <2>2. /\ locked \in BOOLEAN /\ ~locked /\ v3Interval \in BOOLEAN
          /\ triggered \in BOOLEAN
      BY Zenon DEF PageInit
    <2>3. /\ strays = 0 /\ activeVersion = "v1" /\ elevated = None
          /\ currentMsgCount = 0 /\ received = 0 /\ plotted = 0
      BY Zenon DEF PageInit
    <2>4. NothingUncounted
      BY <2>1, <2>3, Zenon DEF NothingUncounted
    <2>5. PageTypeOK
      BY <2>1, <2>2, <2>3, PageAssumption DEF PageInit, PageTypeOK, Versions, Tabs
    <2> QED
      BY <2>2, <2>3, <2>4, <2>5 DEF PageInv, OneInterval, TimersLeft
  <1> QED
    BY <1>1, PageStep, PTL DEF PageSafety

\* The v3 tab has its one interval and no other is left running.
THEOREM IntervalCorrect == PageSafety => []OneInterval
  <1>1. PageInv => OneInterval
    BY DEF PageInv
  <1> QED
    BY <1>1, PageInductive, PTL

\* Every v2 message is in a point or in the running count, once.
THEOREM CountCorrect == PageSafety => []NothingUncounted
  <1>1. PageInv => NothingUncounted
    BY DEF PageInv
  <1> QED
    BY <1>1, PageInductive, PTL

\* Whatever is highlighted has a timer under way that ends it, although the
\* timers of several reports overlap and none knows what it was started for
\* (app.js:302-312, 447-472): the safety half of HighlightsEnd.
THEOREM HighlightsTimed == PageSafety => []TimersLeft
  <1>1. PageInv => TimersLeft
    BY DEF PageInv
  <1> QED
    BY <1>1, PageInductive, PTL
=============================================================================
