--------------------------- MODULE GarenneLinkProofs ---------------------------
(***************************************************************************)
(* Proofs about the watchdog of the radio link. The clock's bound is the   *)
(* hypothesis of them all: a machine that has been up for less than half a *)
(* turn of time_ms. What is proved is arithmetic on the time since boot,   *)
(* so the proof first puts each look of the watchdog in those terms        *)
(* (Looks), and gives the two products that the invariants hold, of scans  *)
(* and of whole reassociations, names of their own.                        *)
(***************************************************************************)
EXTENDS GarenneLink, TLAPS

\* time_ms has not wrapped, and does not before the next look. The code does
\* not ensure it: a rabbit may stay up for longer.
NoWrap == LastMs + LINK_CHECK_MS < HalfClock

--------------------------------------------------------------------------------
(* The invariant.                                                          *)

\* When the last frame came.
LastFrame == uptime - silence

\* What a reassociation costs at most, from one to the next.
Cycle == LINK_REASSOC_GRACE_MS + LINK_CHECK_MS + ScanMax

Scans(n) == n * ScanMax
Cycles(n) == n * Cycle

\* After n failures: what the reassociations that the watchdog may still make
\* cost at most, and the scans of those that were made.
Toll(n) == Cycles(IF n < LINK_REBOOT_AFTER THEN LINK_REBOOT_AFTER - n ELSE 0)
Spent(n) == Scans(IF n < LINK_REBOOT_AFTER THEN n ELSE LINK_REBOOT_AFTER)

Typed ==
    /\ uptime \in Nat /\ nextRun \in Nat
    /\ lastRx \in Nat /\ probeMs \in Nat /\ reassocMs \in Nat /\ silence \in Nat
    /\ fails \in Nat /\ reassocTasks \in Nat
    /\ uptime <= LastMs /\ nextRun <= uptime + LINK_CHECK_MS
    /\ lastRx <= uptime /\ probeMs <= uptime /\ reassocMs <= uptime /\ silence <= uptime
    /\ reassocTasks <= MaxFails
    /\ heard \/ nextRun >= LINK_CHECK_MS

\* A frame came since the last look: the next one is near, but for the scans
\* that commands asked for.
Awaiting ==
    heard =>
        /\ silence + Scans(reassocTasks) <= LINK_CHECK_MS + Scans(MaxFails)
        /\ silence + (nextRun - uptime) + Scans(reassocTasks) <= LINK_CHECK_MS + Scans(MaxFails)
        /\ nextRun > 0

\* No frame came since the last look: the look that heard the last one noted
\* it, and every failure counted is of an attempt made after it.
Looked ==
    ~heard =>
        /\ 0 < lastRx /\ LastFrame <= lastRx
        /\ fails > 0 => reassocMs >= lastRx

\* The time the ladder has left: wherever the next look falls, the rungs that
\* remain fit before the worst silence.
Budget ==
    ~heard =>
        /\ lastRx + 2 * LINK_RX_DEAD_MS + LINK_CHECK_MS + Toll(fails) <= LastFrame + WorstSilence
        /\ reassocMs + LINK_REASSOC_GRACE_MS + LINK_CHECK_MS + Toll(fails)
              <= LastFrame + WorstSilence
        /\ uptime + Toll(fails) <= LastFrame + WorstSilence
        /\ reboot = "no" =>
              \/ nextRun <= lastRx + 2 * LINK_RX_DEAD_MS + LINK_CHECK_MS
              \/ nextRun <= reassocMs + LINK_REASSOC_GRACE_MS + LINK_CHECK_MS
        /\ reassocTasks > 0 =>
              silence + Scans(reassocTasks)
                 <= LINK_CHECK_MS + Scans(MaxFails) + Spent(fails)

\* The rung before the last: on a steady link that was not probed, the next
\* look falls before the silence of a dead radio.
Rungs ==
    /\ steady => netState = "connected"
    /\ probed \/ probeMs <= LastFrame
    /\ ~heard /\ steady /\ ~probed /\ fails < LINK_REBOOT_AFTER =>
        /\ nextRun - lastRx <= LINK_RX_DEAD_MS
        /\ uptime <= nextRun \/ uptime - lastRx <= Scans(fails)
        /\ reassocTasks > 0 => uptime - lastRx <= Scans(fails)
        /\ reassocMs <= lastRx \/ (fails > 0 /\ reassocMs - lastRx <= Scans(fails - 1))

--------------------------------------------------------------------------------
(* Numbers.                                                                *)

LEMMA Times ==
    /\ {LINK_CHECK_MS, LINK_RX_PROBE_MS, LINK_RX_DEAD_MS, LINK_PROBE_EVERY_MS,
        LINK_REASSOC_GRACE_MS, LINK_REBOOT_AFTER, HalfClock} \subseteq Nat \ {0}
    /\ LINK_CHECK_MS \in Nat \ {0} /\ LINK_RX_PROBE_MS \in Nat /\ LINK_RX_DEAD_MS \in Nat
    /\ LINK_PROBE_EVERY_MS \in Nat /\ LINK_REASSOC_GRACE_MS \in Nat
    /\ LINK_REBOOT_AFTER \in Nat \ {0} /\ HalfClock \in Nat \ {0}
    /\ ScanMax \in Nat /\ LastMs \in Nat /\ MaxFails \in Nat
    /\ LINK_PROBE_EVERY_MS < LINK_RX_PROBE_MS
    /\ LINK_RX_PROBE_MS < LINK_RX_DEAD_MS
    /\ LINK_REASSOC_GRACE_MS <= 2 * LINK_RX_DEAD_MS
    /\ LINK_REBOOT_AFTER <= MaxFails
    /\ Cycle \in Nat
BY TimesAssumption DEF Cycle

\* Multiples of a duration, as the invariants use them.
LEMMA Multiples ==
    ASSUME NEW b \in Nat
    PROVE  /\ 0 * b = 0
           /\ \A n \in Nat : n * b \in Nat /\ (n + 1) * b = n * b + b
           /\ \A m, n \in Nat : m <= n => m * b <= n * b
<1>1. \A n \in Nat : n * b \in Nat /\ (n + 1) * b = n * b + b
  OBVIOUS
<1>2. ASSUME NEW m \in Nat, NEW n \in Nat, m <= n
      PROVE  m * b <= n * b
  <2>1. PICK k \in Nat : n = m + k
    BY <1>2
  <2>2. n * b = m * b + k * b
    BY <2>1
  <2>3. m * b \in Nat /\ k * b \in Nat
    BY <1>1
  <2> QED BY <2>2, <2>3
<1>3. 0 * b = 0
  OBVIOUS
<1> QED BY <1>1, <1>2, <1>3

LEMMA ScanTimes ==
    /\ Scans(0) = 0
    /\ \A n \in Nat : Scans(n) \in Nat /\ Scans(n + 1) = Scans(n) + ScanMax
    /\ \A m, n \in Nat : m <= n => Scans(m) <= Scans(n)
BY Multiples, Times DEF Scans

LEMMA CycleTimes ==
    /\ Cycles(0) = 0
    /\ \A n \in Nat : Cycles(n) \in Nat /\ Cycles(n + 1) = Cycles(n) + Cycle
    /\ \A m, n \in Nat : m <= n => Cycles(m) <= Cycles(n)
BY Multiples, Times DEF Cycles

LEMMA ScansInCycles == \A n \in Nat : Scans(n) <= Cycles(n)
<1> TAKE n \in Nat
<1> DEFINE rest == LINK_REASSOC_GRACE_MS + LINK_CHECK_MS
<1>1. rest \in Nat /\ Cycle = rest + ScanMax
  BY Times DEF Cycle
<1>2. n * (rest + ScanMax) = n * rest + n * ScanMax
  BY <1>1, Times
<1>3. n * rest \in Nat /\ n * ScanMax \in Nat
  BY <1>1, Times, Multiples
<1> QED BY <1>1, <1>2, <1>3 DEF Scans, Cycles

LEMMA Tolls ==
    /\ Toll(0) = Cycles(LINK_REBOOT_AFTER) /\ Spent(0) = 0
    /\ \A n \in Nat :
          /\ Toll(n) \in Nat /\ Spent(n) \in Nat
          /\ n < LINK_REBOOT_AFTER =>
                Toll(n) = Toll(n + 1) + Cycle /\ Spent(n + 1) = Spent(n) + ScanMax
          /\ n >= LINK_REBOOT_AFTER =>
                /\ Toll(n) = 0 /\ Toll(n + 1) = 0
                /\ Spent(n) = Scans(LINK_REBOOT_AFTER) /\ Spent(n + 1) = Spent(n)
<1>1. ASSUME NEW n \in Nat
      PROVE  /\ n < LINK_REBOOT_AFTER =>
                   Toll(n) = Cycles(LINK_REBOOT_AFTER - n) /\ Spent(n) = Scans(n)
             /\ n >= LINK_REBOOT_AFTER => Toll(n) = Cycles(0) /\ Spent(n) = Scans(LINK_REBOOT_AFTER)
  <2>1. CASE n < LINK_REBOOT_AFTER
    <3>1. (IF n < LINK_REBOOT_AFTER THEN LINK_REBOOT_AFTER - n ELSE 0) = LINK_REBOOT_AFTER - n
      BY <2>1
    <3>2. (IF n < LINK_REBOOT_AFTER THEN n ELSE LINK_REBOOT_AFTER) = n
      BY <2>1
    <3>3. ~(n >= LINK_REBOOT_AFTER)
      BY <2>1, Times
    <3> QED BY <3>1, <3>2, <3>3 DEF Toll, Spent
  <2>2. CASE n >= LINK_REBOOT_AFTER
    <3>1. ~(n < LINK_REBOOT_AFTER)
      BY <2>2, Times
    <3>2. (IF n < LINK_REBOOT_AFTER THEN LINK_REBOOT_AFTER - n ELSE 0) = 0
      BY <3>1
    <3>3. (IF n < LINK_REBOOT_AFTER THEN n ELSE LINK_REBOOT_AFTER) = LINK_REBOOT_AFTER
      BY <3>1
    <3> QED BY <3>1, <3>2, <3>3 DEF Toll, Spent
  <2> QED BY <2>1, <2>2, Times
<1>2. Toll(0) = Cycles(LINK_REBOOT_AFTER) /\ Spent(0) = 0
  <2>1. 0 \in Nat /\ 0 < LINK_REBOOT_AFTER /\ LINK_REBOOT_AFTER - 0 = LINK_REBOOT_AFTER
    BY Times
  <2> QED BY <2>1, <1>1, ScanTimes
<1>3. ASSUME NEW n \in Nat
      PROVE  Toll(n) \in Nat /\ Spent(n) \in Nat
  <2>1. CASE n < LINK_REBOOT_AFTER
    <3>1. LINK_REBOOT_AFTER - n \in Nat
      BY <2>1, Times
    <3> QED BY <2>1, <3>1, <1>1, ScanTimes, CycleTimes
  <2>2. CASE n >= LINK_REBOOT_AFTER
    <3>1. Scans(LINK_REBOOT_AFTER) \in Nat /\ Cycles(0) = 0
      BY ScanTimes, CycleTimes, Times
    <3> QED BY <2>2, <3>1, <1>1
  <2> QED BY <2>1, <2>2, Times
<1>4. ASSUME NEW n \in Nat, n < LINK_REBOOT_AFTER
      PROVE  Toll(n) = Toll(n + 1) + Cycle /\ Spent(n + 1) = Spent(n) + ScanMax
  <2> DEFINE k == LINK_REBOOT_AFTER - (n + 1)
  <2>1. k \in Nat /\ LINK_REBOOT_AFTER - n = k + 1 /\ n + 1 \in Nat
    BY <1>4, Times
  <2>2. Toll(n) = Cycles(k + 1) /\ Spent(n) = Scans(n)
    BY <1>4, <2>1, <1>1
  <2>3. Toll(n + 1) = Cycles(k) /\ Spent(n + 1) = Scans(n + 1)
    <3>1. CASE n + 1 < LINK_REBOOT_AFTER
      BY <3>1, <2>1, <1>1
    <3>2. CASE n + 1 >= LINK_REBOOT_AFTER
      <4>1. k = 0 /\ n + 1 = LINK_REBOOT_AFTER
        BY <3>2, <1>4, Times
      <4> HIDE DEF k
      <4> QED BY <3>2, <4>1, <2>1, <1>1
    <3> QED BY <3>1, <3>2, Times
  <2> HIDE DEF k
  <2> QED BY <2>1, <2>2, <2>3, ScanTimes, CycleTimes
<1>5. ASSUME NEW n \in Nat, n >= LINK_REBOOT_AFTER
      PROVE  /\ Toll(n) = 0 /\ Toll(n + 1) = 0
             /\ Spent(n) = Scans(LINK_REBOOT_AFTER) /\ Spent(n + 1) = Spent(n)
  <2>1. n + 1 \in Nat /\ n + 1 >= LINK_REBOOT_AFTER
    BY <1>5, Times
  <2> QED BY <2>1, <1>1, <1>5, CycleTimes
<1> QED BY <1>2, <1>3, <1>4, <1>5

LEMMA Worst ==
    /\ WorstSilence =
         2 * LINK_CHECK_MS + Scans(MaxFails) + 2 * LINK_RX_DEAD_MS + Cycles(LINK_REBOOT_AFTER)
    /\ WorstSilence \in Nat
<1>1. WorstSilence =
         2 * LINK_CHECK_MS + Scans(MaxFails) + 2 * LINK_RX_DEAD_MS + Cycles(LINK_REBOOT_AFTER)
  BY Zenon DEF WorstSilence, Scans, Cycles, Cycle
<1>2. Scans(MaxFails) \in Nat /\ Cycles(LINK_REBOOT_AFTER) \in Nat
  BY ScanTimes, CycleTimes, Times
<1> QED BY <1>1, <1>2, Times

LEMMA SignedSmall ==
    ASSUME NEW x \in Int, -HalfClock <= x, x < HalfClock
    PROVE  Signed(x) = x
BY Times DEF Signed

--------------------------------------------------------------------------------
(* The watchdog's look, in the time since boot.                            *)

Quiet == IF heard THEN 0 ELSE uptime - lastRx
Chance == reassocMs # 0 /\ uptime - reassocMs < LINK_REASSOC_GRACE_MS

Scanned ==
    \E d \in 0 .. ScanMax :
        /\ uptime + d <= LastMs
        /\ uptime' = uptime + d /\ silence' = silence + d

Probes ==
    /\ uptime - probeMs > LINK_PROBE_EVERY_MS
    /\ probed' = TRUE /\ probeMs' = uptime /\ fails' = Attempts
    /\ reassocMs' = reassocMs /\ reboot' = reboot /\ uptime' = uptime /\ silence' = silence
    /\ netState = "connected" /\ ~Chance
    /\ Attempts < LINK_REBOOT_AFTER
    /\ LINK_RX_PROBE_MS < Quiet /\ Quiet <= LINK_RX_DEAD_MS

Reassociates ==
    /\ Scanned
    /\ reassocMs' = uptime /\ fails' = Attempts + 1
    /\ probeMs' = probeMs /\ reboot' = reboot /\ probed' = probed
    /\ ~Chance /\ ~Trying(netState) /\ Attempts < LINK_REBOOT_AFTER
    /\ netState # "connected" \/ Quiet > LINK_RX_DEAD_MS

GivesUp ==
    /\ reboot' # "no" /\ fails' = Attempts
    /\ probeMs' = probeMs /\ reassocMs' = reassocMs /\ probed' = probed
    /\ uptime' = uptime /\ silence' = silence
    /\ ~Chance
    /\ \/ Trying(netState) /\ Quiet > 2 * LINK_RX_DEAD_MS
       \/ ~Trying(netState) /\ Attempts >= LINK_REBOOT_AFTER

Rests ==
    /\ fails' = Attempts
    /\ probeMs' = probeMs /\ reassocMs' = reassocMs /\ reboot' = reboot /\ probed' = probed
    /\ uptime' = uptime /\ silence' = silence
    /\ \/ Chance
       \/ Trying(netState) /\ Quiet <= 2 * LINK_RX_DEAD_MS
       \/ /\ netState = "connected" /\ Quiet <= LINK_RX_DEAD_MS
          /\ Quiet <= LINK_RX_PROBE_MS \/ uptime - probeMs <= LINK_PROBE_EVERY_MS

Looks ==
    /\ nextRun <= uptime /\ nextRun' = uptime + LINK_CHECK_MS
    /\ heard' = FALSE /\ lastRx' = IF heard THEN uptime ELSE lastRx
    /\ netState' = netState /\ reassocTasks' = reassocTasks /\ steady' = steady
    /\ Probes \/ Reassociates \/ GivesUp \/ Rests

LEMMA Clock ==
    ASSUME NoWrap, Typed
    PROVE  /\ time_ms = uptime
           /\ \A t \in 0 .. uptime : Age(t) = uptime - t
           /\ Signed(time_ms + LINK_CHECK_MS) = uptime + LINK_CHECK_MS
           /\ Due <=> nextRun <= uptime
<1>1. uptime \in Nat /\ uptime + LINK_CHECK_MS < HalfClock /\ nextRun \in Nat
      /\ nextRun <= uptime + LINK_CHECK_MS
  BY Times DEF Typed, NoWrap
<1>2. time_ms = uptime
  BY <1>1, Times, SignedSmall DEF time_ms
<1>3. \A t \in 0 .. uptime : Age(t) = uptime - t
  BY <1>1, <1>2, Times, SignedSmall DEF Age
<1>4. Signed(time_ms + LINK_CHECK_MS) = uptime + LINK_CHECK_MS
  BY <1>1, <1>2, Times, SignedSmall
<1>5. Signed(nextRun - time_ms) = nextRun - uptime
  BY <1>1, <1>2, Times, SignedSmall
<1>6. Due <=> nextRun <= uptime
  BY <1>1, <1>5 DEF Due
<1> QED BY <1>2, <1>3, <1>4, <1>6

LEMMA Scanning ==
    ASSUME NoWrap, Typed, NEW n, link_reassoc(n)
    PROVE  Scanned /\ reassocMs' = uptime /\ fails' = n + 1
<1>1. \E d \in 0 .. ScanMax : Elapse(d)
  BY Times DEF link_reassoc
<1> QED BY <1>1, Clock DEF link_reassoc, Elapse, Scanned

LEMMA Look ==
    ASSUME NoWrap, Typed, Watch
    PROVE  Looks /\ (Act = "reassoc" => Reassociates)
<1> DEFINE age == Signed(time_ms - LastRx)
<1>1. uptime \in Nat /\ lastRx \in 0 .. uptime /\ probeMs \in 0 .. uptime
      /\ reassocMs \in 0 .. uptime /\ uptime < HalfClock /\ fails \in Nat
  BY Times DEF Typed, NoWrap
<1>2. time_ms = uptime
  BY Clock
<1>3. LastRx = IF heard THEN uptime ELSE lastRx
  BY <1>2 DEF LastRx
<1>4. age = Quiet
  BY <1>1, <1>2, <1>3, SignedSmall, Times DEF Quiet
<1>5. InGrace <=> Chance
  BY <1>1, Clock DEF InGrace, Chance
<1>6. Attempts \in Nat
  BY <1>1 DEF Attempts
<1>7. Act = link_decide(netState, Quiet, InGrace, Attempts)
  BY <1>4 DEF Act
<1>8. Quiet \in Nat
  BY <1>1 DEF Quiet
<1> HIDE DEF age
<1>9. /\ InGrace => Act = "none"
      /\ ~InGrace /\ Trying(netState) =>
            Act = IF Quiet > 2 * LINK_RX_DEAD_MS THEN "reboot" ELSE "none"
      /\ ~InGrace /\ ~Trying(netState) /\ Attempts >= LINK_REBOOT_AFTER => Act = "reboot"
      /\ ~InGrace /\ ~Trying(netState) /\ Attempts < LINK_REBOOT_AFTER =>
            Act = IF netState # "connected" \/ Quiet > LINK_RX_DEAD_MS THEN "reassoc"
                  ELSE IF Quiet > LINK_RX_PROBE_MS THEN "probe" ELSE "none"
  <2>1. ASSUME InGrace PROVE Act = "none"
    BY <2>1, <1>7 DEF link_decide
  <2>2. ASSUME ~InGrace, Trying(netState)
        PROVE  Act = IF Quiet > 2 * LINK_RX_DEAD_MS THEN "reboot" ELSE "none"
    BY <2>2, <1>7 DEF link_decide
  <2>3. ASSUME ~InGrace, ~Trying(netState), Attempts >= LINK_REBOOT_AFTER
        PROVE  Act = "reboot"
    <3>1. ~(Attempts < LINK_REBOOT_AFTER)
      BY <2>3, <1>6, Times
    <3> QED BY <2>3, <3>1, <1>6, <1>7, Times DEF link_decide
  <2>4. ASSUME ~InGrace, ~Trying(netState), Attempts < LINK_REBOOT_AFTER
        PROVE  Act = IF netState # "connected" \/ Quiet > LINK_RX_DEAD_MS THEN "reassoc"
                     ELSE IF Quiet > LINK_RX_PROBE_MS THEN "probe" ELSE "none"
    <3>1. ~(Attempts >= LINK_REBOOT_AFTER)
      BY <2>4, <1>6, Times
    <3>2. Gone(netState, Quiet) <=> netState # "connected" \/ Quiet > LINK_RX_DEAD_MS
      BY DEF Gone
    <3> QED BY <2>4, <3>1, <3>2, <1>7 DEF link_decide
  <2> QED BY <2>1, <2>2, <2>3, <2>4
<1>10. Probing <=> Act = "probe" /\ uptime - probeMs > LINK_PROBE_EVERY_MS
  BY <1>1, Clock DEF Probing
<1>11. nextRun <= uptime /\ nextRun' = uptime + LINK_CHECK_MS /\ heard' = FALSE
       /\ lastRx' = (IF heard THEN uptime ELSE lastRx)
       /\ netState' = netState /\ reassocTasks' = reassocTasks /\ steady' = steady
  BY Clock, <1>3 DEF Watch
<1>12. CASE Probe
  <2>1. Probes
    BY <1>12, <1>2, <1>5, <1>6, <1>8, <1>9, <1>10, Times DEF Probe, Probes
  <2>2. Act # "reassoc"
    BY <1>12, <1>10 DEF Probe
  <2> QED BY <2>1, <2>2, <1>11 DEF Looks
<1>13. CASE Reassociate
  <2>1. Scanned /\ reassocMs' = uptime /\ fails' = Attempts + 1
    BY <1>13, Scanning DEF Reassociate
  <2>2. Reassociates
    BY <2>1, <1>13, <1>5, <1>6, <1>8, <1>9, Times DEF Reassociate, Reassociates
  <2> QED BY <2>2, <1>11 DEF Looks
<1>14. CASE GiveUp
  <2>1. reboot' # "no" /\ fails' = Attempts /\ probeMs' = probeMs /\ reassocMs' = reassocMs
        /\ probed' = probed /\ uptime' = uptime /\ silence' = silence
    BY <1>14 DEF GiveUp
  <2>2. GivesUp
    BY <2>1, <1>14, <1>5, <1>6, <1>8, <1>9, Times DEF GiveUp, GivesUp
  <2>3. Act # "reassoc"
    BY <1>14 DEF GiveUp
  <2> QED BY <2>2, <2>3, <1>11 DEF Looks
<1>15. CASE Rest
  <2>1. fails' = Attempts /\ probeMs' = probeMs /\ reassocMs' = reassocMs /\ reboot' = reboot
        /\ probed' = probed /\ uptime' = uptime /\ silence' = silence
    BY <1>15 DEF Rest
  <2>2. Act \in {"none", "probe"} /\ ~(Act = "probe" /\ uptime - probeMs > LINK_PROBE_EVERY_MS)
    BY <1>15, <1>10 DEF Rest
  <2>3. Rests
    <3>1. CASE InGrace
      BY <3>1, <2>1, <1>5 DEF Rests
    <3>2. CASE ~InGrace /\ Trying(netState)
      <4>1. Quiet <= 2 * LINK_RX_DEAD_MS
        BY <3>2, <2>2, <1>9, <1>8, Times
      <4> QED BY <4>1, <3>2, <2>1 DEF Rests
    <3>3. CASE ~InGrace /\ ~Trying(netState)
      <4>1. netState = "connected" /\ Quiet <= LINK_RX_DEAD_MS
        BY <3>3, <2>2, <1>9, <1>8, <1>6, Times
      <4>2. Quiet <= LINK_RX_PROBE_MS \/ uptime - probeMs <= LINK_PROBE_EVERY_MS
        BY <3>3, <4>1, <2>2, <1>9, <1>8, <1>6, <1>1, Times
      <4> QED BY <4>1, <4>2, <2>1 DEF Rests
    <3> QED BY <3>1, <3>2, <3>3
  <2> QED BY <2>2, <2>3, <1>11 DEF Looks
<1> QED BY <1>12, <1>13, <1>14, <1>15 DEF Watch
--------------------------------------------------------------------------------
(* What each step keeps.                                                   *)

\* The other actions, reduced to what the invariants read of them.
LEMMA TaskStep ==
    ASSUME NoWrap, Typed, CtlReassocTask
    PROVE  /\ Scanned /\ reassocMs' = uptime /\ fails' = fails + 1
           /\ reassocTasks > 0 /\ reassocTasks' = reassocTasks - 1
           /\ UNCHANGED <<netState, nextRun, heard, lastRx, probeMs, reboot, steady, probed>>
<1>1. link_reassoc(fails)
  BY DEF CtlReassocTask
<1> QED BY <1>1, Scanning DEF CtlReassocTask

LEMMA PassStep ==
    ASSUME NoWrap, Typed, Pass
    PROVE  /\ uptime < nextRun /\ reassocTasks = 0 /\ reboot = "no"
           /\ uptime + 1 <= LastMs /\ uptime' = uptime + 1 /\ silence' = silence + 1
           /\ UNCHANGED <<netState, nextRun, heard, lastRx, probeMs, reassocMs, fails,
                          reassocTasks, reboot, steady, probed>>
<1>1. uptime \in Nat /\ nextRun \in Nat
  BY Times DEF Typed
<1> QED BY <1>1, Clock DEF Pass, Elapse

FrameStep ==
    /\ heard' = TRUE /\ silence' = 0 /\ probed' = FALSE /\ steady' = (netState = "connected")
    /\ UNCHANGED <<netState, uptime, nextRun, lastRx, probeMs, reassocMs, fails>>
    /\ \/ reassocTasks' = reassocTasks
       \/ fails + reassocTasks < MaxFails /\ reassocTasks' = reassocTasks + 1

LEMMA FrameSteps ==
    ASSUME Hear \/ CtlReassoc \/ CtlReboot
    PROVE  FrameStep
<1>1. CASE Hear
  BY <1>1 DEF Hear, Frame, FrameStep
<1>2. CASE CtlReassoc
  BY <1>2 DEF CtlReassoc, Frame, FrameStep
<1>3. CASE CtlReboot
  BY <1>3 DEF CtlReboot, Frame, FrameStep
<1> QED BY <1>1, <1>2, <1>3

\* The steps outside the ladder that no clock and no rung sees.
Aside ==
    /\ UNCHANGED <<uptime, nextRun, heard, lastRx, probeMs, reassocMs, fails, reassocTasks,
                   silence, probed>>
    /\ reboot' = reboot \/ reboot' # "no"
    /\ \/ UNCHANGED <<netState, steady>>
       \/ steady' = (steady /\ netState' = "connected")

LEMMA AsideSteps ==
    ASSUME ButtonReboot \/ (\E s \in NetStates : Drive(s)) \/ UNCHANGED vars
    PROVE  Aside
<1>1. CASE ButtonReboot
  BY <1>1 DEF ButtonReboot, Aside, history
<1>2. CASE \E s \in NetStates : Drive(s)
  BY <1>2 DEF Drive, Aside
<1>3. CASE UNCHANGED vars
  BY <1>3 DEF vars, Aside
<1> QED BY <1>1, <1>2, <1>3

\* Every step is one of these.
Step ==
    \/ FrameStep \/ Aside \/ Pass \/ CtlReassocTask \/ Watch \/ Reboot

LEMMA Steps ==
    ASSUME [Next]_vars
    PROVE  Step
<1>1. CASE Hear \/ CtlReassoc \/ CtlReboot
  BY <1>1, FrameSteps DEF Step
<1>2. CASE ButtonReboot \/ (\E s \in NetStates : Drive(s)) \/ UNCHANGED vars
  BY <1>2, AsideSteps DEF Step
<1>3. CASE Pass \/ CtlReassocTask \/ Watch \/ Reboot
  BY <1>3 DEF Step
<1> QED BY <1>1, <1>2, <1>3 DEF Next

LEMMA TypedStep ==
    ASSUME NoWrap, Typed, [Next]_vars
    PROVE  Typed'
<1>1. CASE FrameStep
  BY <1>1, Times DEF FrameStep, Typed
<1>2. CASE Aside
  BY <1>2 DEF Aside, Typed
<1>3. CASE Pass
  BY <1>3, PassStep, Times DEF Typed
<1>4. CASE CtlReassocTask
  BY <1>4, TaskStep, Times DEF Typed, Scanned
<1>5. CASE Watch
  <2>1. Looks
    BY <1>5, Look
  <2>2. Attempts \in Nat
    BY DEF Attempts, Typed
  <2>3. CASE Probes
    BY <2>1, <2>2, <2>3, Times DEF Typed, Looks, Probes
  <2>4. CASE Reassociates
    BY <2>1, <2>2, <2>4, Times DEF Typed, Looks, Reassociates, Scanned
  <2>5. CASE GivesUp
    BY <2>1, <2>2, <2>5, Times DEF Typed, Looks, GivesUp
  <2>6. CASE Rests
    BY <2>1, <2>2, <2>6, Times DEF Typed, Looks, Rests
  <2> QED BY <2>1, <2>3, <2>4, <2>5, <2>6 DEF Looks
<1>6. CASE Reboot
  BY <1>6, Times DEF Reboot, Typed
<1> QED BY <1>1, <1>2, <1>3, <1>4, <1>5, <1>6, Steps DEF Step

LEMMA AwaitingStep ==
    ASSUME NoWrap, Typed, Awaiting, [Next]_vars
    PROVE  Awaiting'
<1>1. CASE FrameStep
  <2>1. nextRun > 0 /\ nextRun - uptime <= LINK_CHECK_MS /\ nextRun \in Nat /\ uptime \in Nat
    BY Times DEF Typed, Awaiting
  <2>2. reassocTasks' \in Nat /\ reassocTasks' <= MaxFails
    BY <1>1, Times DEF Typed, FrameStep
  <2>3. Scans(reassocTasks') <= Scans(MaxFails) /\ Scans(reassocTasks') \in Nat
        /\ Scans(MaxFails) \in Nat
    BY <2>2, ScanTimes, Times
  <2>4. silence' = 0 /\ nextRun' = nextRun /\ uptime' = uptime
    BY <1>1 DEF FrameStep
  <2> QED BY <2>1, <2>3, <2>4, Times DEF Awaiting, Scans
<1>2. CASE Aside
  BY <1>2 DEF Aside, Awaiting, Scans
<1>3. CASE Pass
  <2>1. Scans(reassocTasks) \in Nat /\ Scans(MaxFails) \in Nat
    BY ScanTimes, Times DEF Typed
  <2>2. Scans(reassocTasks)' = Scans(reassocTasks) /\ Scans(MaxFails)' = Scans(MaxFails)
    BY <1>3, PassStep DEF Scans
  <2>3. /\ uptime < nextRun /\ uptime' = uptime + 1 /\ silence' = silence + 1
        /\ nextRun' = nextRun /\ heard' = heard
    BY <1>3, PassStep
  <2> QED BY <2>1, <2>2, <2>3, Times DEF Typed, Awaiting
<1>4. CASE CtlReassocTask
  <2>1. reassocTasks' \in Nat /\ reassocTasks = reassocTasks' + 1
    BY <1>4, TaskStep, Times DEF Typed
  <2>2. /\ Scans(reassocTasks') \in Nat /\ Scans(MaxFails) \in Nat
        /\ Scans(reassocTasks) = Scans(reassocTasks') + ScanMax
    BY <2>1, ScanTimes, Times
  <2>3. PICK d \in 0 .. ScanMax : uptime' = uptime + d /\ silence' = silence + d
    BY <1>4, TaskStep DEF Scanned
  <2>4. heard' = heard /\ nextRun' = nextRun
    BY <1>4, TaskStep
  <2>5. Scans(reassocTasks)' = Scans(reassocTasks') /\ Scans(MaxFails)' = Scans(MaxFails)
    BY DEF Scans
  <2> QED BY <2>2, <2>3, <2>4, <2>5, Times DEF Typed, Awaiting
<1>5. CASE Watch
  BY <1>5 DEF Watch, Awaiting
<1>6. CASE Reboot
  <2>1. Scans(0) = 0 /\ Scans(MaxFails) \in Nat
    BY ScanTimes, Times
  <2>2. Scans(reassocTasks)' = Scans(0) /\ Scans(MaxFails)' = Scans(MaxFails)
    BY <1>6 DEF Reboot, Scans
  <2> QED BY <1>6, <2>1, <2>2, Times DEF Reboot, Awaiting
<1> QED BY <1>1, <1>2, <1>3, <1>4, <1>5, <1>6, Steps DEF Step

LEMMA LookedStep ==
    ASSUME NoWrap, Typed, Awaiting, Looked, [Next]_vars
    PROVE  Looked'
<1>1. CASE FrameStep
  BY <1>1 DEF FrameStep, Looked
<1>2. CASE Aside
  BY <1>2 DEF Aside, Looked, LastFrame
<1>3. CASE Pass
  BY <1>3, PassStep, Times DEF Typed, Looked, LastFrame
<1>4. CASE CtlReassocTask
  BY <1>4, TaskStep, Times DEF Typed, Looked, LastFrame, Scanned
<1>5. CASE Watch
  <2>1. Looks
    BY <1>5, Look
  <2>2. LastFrame' = LastFrame
    BY <2>1, Times DEF Typed, Looks, Probes, Reassociates, Scanned, GivesUp, Rests, LastFrame
  <2>3. 0 < lastRx' /\ LastFrame <= lastRx'
    BY <2>1, Times DEF Typed, Awaiting, Looked, Looks, LastFrame
  <2>4. fails' > 0 => reassocMs' >= lastRx'
    BY <2>1, Times DEF Typed, Looked, Looks, Probes, Reassociates, GivesUp, Rests, Attempts
  <2> QED BY <2>2, <2>3, <2>4 DEF Looked
<1>6. CASE Reboot
  BY <1>6 DEF Reboot, Looked
<1> QED BY <1>1, <1>2, <1>3, <1>4, <1>5, <1>6, Steps DEF Step
\* The time that is left never goes below what the next steps may take.
LEMMA BudgetStep ==
    ASSUME NoWrap, Typed, Awaiting, Looked, Budget, [Next]_vars
    PROVE  Budget'
<1> DEFINE W == WorstSilence
           most == Scans(MaxFails)
           c == LINK_CHECK_MS
           dead == 2 * LINK_RX_DEAD_MS
           grace == LINK_REASSOC_GRACE_MS
<1>1. /\ W = 2 * c + most + dead + Toll(0) /\ Scans(LINK_REBOOT_AFTER) <= Toll(0)
      /\ W \in Nat /\ most \in Nat /\ Toll(0) \in Nat /\ Spent(0) = 0
      /\ Scans(LINK_REBOOT_AFTER) \in Nat /\ Cycle = grace + c + ScanMax
  BY Worst, Tolls, ScanTimes, ScansInCycles, Times DEF Cycle
<1>2. ASSUME ~heard
      PROVE  /\ lastRx + dead + c + Toll(fails) <= uptime - silence + W
             /\ reassocMs + grace + c + Toll(fails) <= uptime - silence + W
             /\ uptime + Toll(fails) <= uptime - silence + W
             /\ reboot = "no" => nextRun <= lastRx + dead + c \/ nextRun <= reassocMs + grace + c
             /\ reassocTasks > 0 => silence + Scans(reassocTasks) <= c + most + Spent(fails)
  BY <1>2 DEF Budget, LastFrame
<1>3. ASSUME /\ lastRx' + dead + c + Toll(fails') <= uptime' - silence' + W
             /\ reassocMs' + grace + c + Toll(fails') <= uptime' - silence' + W
             /\ uptime' + Toll(fails') <= uptime' - silence' + W
             /\ reboot' = "no" =>
                   nextRun' <= lastRx' + dead + c \/ nextRun' <= reassocMs' + grace + c
             /\ reassocTasks' > 0 => silence' + Scans(reassocTasks') <= c + most + Spent(fails')
      PROVE  Budget'
  <2>1. WorstSilence' = W /\ Scans(MaxFails)' = most /\ Toll(fails)' = Toll(fails')
        /\ Spent(fails)' = Spent(fails') /\ Scans(reassocTasks)' = Scans(reassocTasks')
        /\ LastFrame' = uptime' - silence'
    BY DEF WorstSilence, Scans, Toll, Spent, Cycles, Cycle, LastFrame
  <2> HIDE DEF W, most
  <2> QED BY <1>3, <2>1 DEF Budget
<1>4. c \in Nat /\ dead \in Nat /\ grace \in Nat /\ ScanMax \in Nat /\ grace <= dead
  BY Times
<1>5. /\ uptime \in Nat /\ nextRun \in Nat /\ lastRx \in Nat /\ reassocMs \in Nat /\ silence \in Nat
      /\ fails \in Nat /\ reassocTasks \in Nat
      /\ lastRx <= uptime /\ reassocMs <= uptime /\ silence <= uptime
  BY DEF Typed
<1>6. /\ Toll(fails) \in Nat /\ Spent(fails) \in Nat /\ Scans(reassocTasks) \in Nat
      /\ fails < LINK_REBOOT_AFTER =>
            Toll(fails) = Toll(fails + 1) + Cycle /\ Spent(fails + 1) = Spent(fails) + ScanMax
      /\ fails >= LINK_REBOOT_AFTER =>
            /\ Toll(fails) = 0 /\ Toll(fails + 1) = 0
            /\ Spent(fails) = Scans(LINK_REBOOT_AFTER) /\ Spent(fails + 1) = Spent(fails)
      /\ Toll(fails + 1) \in Nat /\ Spent(fails + 1) \in Nat
  <2>1. fails + 1 \in Nat
    BY <1>5
  <2> QED BY <2>1, <1>5, Tolls, ScanTimes
<1> HIDE DEF W, most, c, dead, grace
<1>7. CASE FrameStep
  BY <1>7 DEF FrameStep, Budget
<1>8. CASE Reboot
  BY <1>8 DEF Reboot, Budget
<1>9. CASE Aside /\ ~heard
  <2>1. UNCHANGED <<uptime, nextRun, lastRx, reassocMs, fails, reassocTasks, silence>>
        /\ (reboot' = "no" => reboot = "no")
    BY <1>9 DEF Aside
  <2> QED BY <2>1, <1>2, <1>3, <1>9
<1>10. CASE Pass /\ ~heard
  <2>1. /\ uptime < nextRun /\ reassocTasks' = 0 /\ reboot = "no" /\ reboot' = "no"
        /\ uptime' = uptime + 1 /\ silence' = silence + 1
        /\ nextRun' = nextRun /\ lastRx' = lastRx /\ reassocMs' = reassocMs /\ fails' = fails
    BY <1>10, PassStep
  <2>2. uptime' + Toll(fails) <= uptime - silence + W
    BY <2>1, <1>1, <1>2, <1>4, <1>5, <1>6, <1>10
  <2>3. uptime' - silence' = uptime - silence
    BY <2>1, <1>5
  <2> QED BY <2>1, <2>2, <2>3, <1>2, <1>3, <1>10
<1>11. CASE CtlReassocTask /\ ~heard
  <2>1. PICK d \in 0 .. ScanMax : uptime' = uptime + d /\ silence' = silence + d
    BY <1>11, TaskStep DEF Scanned
  <2>2. /\ reassocMs' = uptime /\ fails' = fails + 1
        /\ reassocTasks > 0 /\ reassocTasks' = reassocTasks - 1
        /\ nextRun' = nextRun /\ lastRx' = lastRx /\ reboot' = reboot
    BY <1>11, TaskStep
  <2>3. uptime' - silence' = uptime - silence
    BY <2>1, <1>5
  <2>4. Scans(reassocTasks) = Scans(reassocTasks') + ScanMax /\ Scans(reassocTasks') \in Nat
    <3>1. reassocTasks' \in Nat /\ reassocTasks = reassocTasks' + 1
      BY <2>2, <1>5
    <3> QED BY <3>1, ScanTimes
  <2>5. silence + Scans(reassocTasks) <= c + most + Spent(fails)
    BY <2>2, <1>2, <1>11
  <2>6. CASE fails < LINK_REBOOT_AFTER
    <3>1. Toll(fails) = Toll(fails + 1) + Cycle /\ Spent(fails + 1) = Spent(fails) + ScanMax
      BY <2>6, <1>6
    <3>2. /\ lastRx' + dead + c + Toll(fails') <= uptime' - silence' + W
          /\ reassocMs' + grace + c + Toll(fails') <= uptime' - silence' + W
          /\ uptime' + Toll(fails') <= uptime' - silence' + W
      BY <3>1, <2>1, <2>2, <2>3, <1>1, <1>2, <1>4, <1>5, <1>6, <1>11
    <3>3. reboot' = "no" => nextRun' <= lastRx' + dead + c \/ nextRun' <= reassocMs' + grace + c
      BY <2>2, <1>2, <1>4, <1>5, <1>11
    <3>4. silence' + Scans(reassocTasks') <= c + most + Spent(fails')
      BY <3>1, <2>1, <2>2, <2>4, <2>5, <1>1, <1>4, <1>5, <1>6
    <3> QED BY <3>2, <3>3, <3>4, <1>3
  <2>7. CASE fails >= LINK_REBOOT_AFTER
    <3>1. /\ Toll(fails) = 0 /\ Toll(fails + 1) = 0
          /\ Spent(fails) = Scans(LINK_REBOOT_AFTER) /\ Spent(fails + 1) = Spent(fails)
      BY <2>7, <1>6
    <3>2. silence + Scans(reassocTasks') + ScanMax <= c + most + Scans(LINK_REBOOT_AFTER)
      BY <3>1, <2>4, <2>5, <1>1, <1>4, <1>5
    <3>3. uptime + grace + c <= uptime - silence + W
      BY <3>2, <2>4, <1>1, <1>4, <1>5
    <3>4. uptime' <= uptime - silence + W
      BY <3>2, <2>1, <2>4, <1>1, <1>4, <1>5
    <3>5. /\ lastRx' + dead + c + Toll(fails') <= uptime' - silence' + W
          /\ reassocMs' + grace + c + Toll(fails') <= uptime' - silence' + W
          /\ uptime' + Toll(fails') <= uptime' - silence' + W
      BY <3>1, <3>3, <3>4, <2>1, <2>2, <2>3, <1>1, <1>2, <1>4, <1>5, <1>11
    <3>6. reboot' = "no" => nextRun' <= lastRx' + dead + c \/ nextRun' <= reassocMs' + grace + c
      BY <2>2, <1>2, <1>4, <1>5, <1>11
    <3>7. silence' + Scans(reassocTasks') <= c + most + Spent(fails')
      BY <3>1, <3>2, <2>1, <2>2, <2>4, <1>1, <1>4, <1>5
    <3> QED BY <3>5, <3>6, <3>7, <1>3
  <2> QED BY <2>6, <2>7, <1>5, Times
<1>12. CASE Watch
  <2>1. Looks
    BY <1>12, Look
  <2>2. nextRun <= uptime /\ nextRun' = uptime + c /\ reassocTasks' = reassocTasks
        /\ lastRx' = IF heard THEN uptime ELSE lastRx
    BY <2>1 DEF Looks, c
  <2>3. Attempts \in Nat
    BY <1>5 DEF Attempts
  <2>4. heard => silence <= c + most /\ silence + Scans(reassocTasks) <= c + most
    BY <1>1, <1>4, <1>5, <1>6 DEF Awaiting, c, most
  \* The account before the look, with the last frame noted.
  <2>5. /\ lastRx' + dead + c + Toll(Attempts) <= uptime - silence + W
        /\ reassocMs + grace + c + Toll(Attempts) <= uptime - silence + W
        /\ uptime + Toll(Attempts) <= uptime - silence + W
        /\ reassocTasks > 0 => silence + Scans(reassocTasks) <= c + most + Spent(Attempts)
    <3>1. CASE heard
      <4>1. Attempts = 0 /\ lastRx' = uptime
        BY <3>1, <2>2 DEF Attempts
      <4> QED BY <3>1, <4>1, <2>4, <1>1, <1>4, <1>5, <1>6
    <3>2. CASE ~heard
      <4>1. Attempts = fails /\ lastRx' = lastRx
        BY <3>2, <2>2 DEF Attempts
      <4> QED BY <3>2, <4>1, <1>2
    <3> QED BY <3>1, <3>2
  <2>6. lastRx' \in Nat /\ Quiet = uptime - lastRx'
    BY <2>2, <1>5 DEF Quiet
  <2>7. CASE Reassociates
    <3>1. PICK d \in 0 .. ScanMax : uptime' = uptime + d /\ silence' = silence + d
      BY <2>7 DEF Reassociates, Scanned
    <3>2. reassocMs' = uptime /\ fails' = Attempts + 1 /\ Attempts < LINK_REBOOT_AFTER
      BY <2>7 DEF Reassociates
    <3>3. /\ Toll(Attempts) = Toll(Attempts + 1) + Cycle
          /\ Spent(Attempts + 1) = Spent(Attempts) + ScanMax
          /\ Toll(Attempts + 1) \in Nat /\ Spent(Attempts) \in Nat
      <4>1. Attempts + 1 \in Nat
        BY <2>3
      <4> QED BY <4>1, <3>2, <2>3, Tolls
    <3>4. uptime' - silence' = uptime - silence
      BY <3>1, <1>5
    <3>5. /\ lastRx' + dead + c + Toll(fails') <= uptime' - silence' + W
          /\ reassocMs' + grace + c + Toll(fails') <= uptime' - silence' + W
          /\ uptime' + Toll(fails') <= uptime' - silence' + W
      BY <3>1, <3>2, <3>3, <3>4, <2>5, <2>6, <1>1, <1>4, <1>5
    <3>6. nextRun' <= reassocMs' + grace + c
      BY <3>2, <2>2, <1>4, <1>5
    <3>7. reassocTasks' > 0 => silence' + Scans(reassocTasks') <= c + most + Spent(fails')
      BY <3>1, <3>2, <3>3, <2>2, <2>5, <1>1, <1>4, <1>5, <1>6
    <3> QED BY <3>5, <3>6, <3>7, <1>3
  <2>8. CASE Probes \/ GivesUp \/ Rests
    <3>1. uptime' = uptime /\ silence' = silence /\ reassocMs' = reassocMs /\ fails' = Attempts
      BY <2>8 DEF Probes, GivesUp, Rests
    <3>2. reboot' = "no" => nextRun' <= lastRx' + dead + c \/ nextRun' <= reassocMs' + grace + c
      <4>1. CASE Probes
        <5>1. Quiet <= LINK_RX_DEAD_MS
          BY <4>1 DEF Probes
        <5> QED BY <5>1, <2>2, <2>6, <1>4, <1>5, Times DEF dead
      <4>2. CASE GivesUp
        BY <4>2 DEF GivesUp
      <4>3. CASE Rests
        <5>1. \/ uptime - reassocMs < grace
              \/ Quiet <= dead
              \/ Quiet <= LINK_RX_DEAD_MS
          BY <4>3 DEF Rests, Chance, grace, dead
        <5>2. reassocMs' = reassocMs /\ reassocMs \in Nat /\ nextRun' = uptime + c
          BY <3>1, <2>2, <1>5
        <5>3. CASE uptime - reassocMs < grace
          <6>1. nextRun' <= reassocMs' + grace + c
            BY <5>2, <5>3, <1>4, <1>5
          <6> QED BY <6>1
        <5>4. CASE Quiet <= dead
          <6>1. nextRun' <= lastRx' + dead + c
            BY <2>2, <5>4, <2>6, <1>4, <1>5, Times DEF dead
          <6> QED BY <6>1
        <5>5. CASE Quiet <= LINK_RX_DEAD_MS
          <6>1. nextRun' <= lastRx' + dead + c
            BY <2>2, <5>5, <2>6, <1>4, <1>5, Times DEF dead
          <6> QED BY <6>1
        <5> QED BY <5>1, <5>3, <5>4, <5>5
      <4> QED BY <2>8, <4>1, <4>2, <4>3
    <3> QED BY <3>1, <3>2, <2>2, <2>5, <1>3
  <2> QED BY <2>1, <2>7, <2>8 DEF Looks
<1>13. CASE heard' = heard /\ heard
  BY <1>13 DEF Budget
<1> QED BY <1>7, <1>8, <1>9, <1>10, <1>11, <1>12, <1>13, Steps, TaskStep, PassStep DEF Step, Aside
\* The scans asked for by hand delay a look by less than the margin.
LEMMA ScansFit ==
    ASSUME NEW n \in Nat, n < LINK_REBOOT_AFTER
    PROVE  LINK_REASSOC_GRACE_MS + LINK_CHECK_MS + Scans(n) <= LINK_RX_DEAD_MS + 1
<1>1. LINK_REBOOT_AFTER - 1 \in Nat /\ n <= LINK_REBOOT_AFTER - 1
  BY Times
<1>2. Scans(n) <= Scans(LINK_REBOOT_AFTER - 1) /\ Scans(n) \in Nat
      /\ Scans(LINK_REBOOT_AFTER - 1) \in Nat
  BY <1>1, ScanTimes
<1>3. LINK_REASSOC_GRACE_MS + LINK_CHECK_MS + Scans(LINK_REBOOT_AFTER - 1) <= LINK_RX_DEAD_MS + 1
  BY MarginsAssumption DEF Scans
<1> QED BY <1>2, <1>3, Times

\* A look at a steady link that was not probed comes before the radio is dead.
LEMMA InTime ==
    ASSUME Typed, Rungs, ~heard, steady, ~probed, fails < LINK_REBOOT_AFTER,
           nextRun <= uptime
    PROVE  uptime - lastRx <= LINK_RX_DEAD_MS
<1>1. /\ nextRun - lastRx <= LINK_RX_DEAD_MS
      /\ uptime <= nextRun \/ uptime - lastRx <= Scans(fails)
  BY DEF Rungs
<1>2. /\ LINK_REASSOC_GRACE_MS + LINK_CHECK_MS + Scans(fails) <= LINK_RX_DEAD_MS + 1
      /\ Scans(fails) \in Nat /\ LINK_REASSOC_GRACE_MS > 0
  <2>1. fails \in Nat
    BY DEF Typed
  <2>2. LINK_REASSOC_GRACE_MS + LINK_CHECK_MS + Scans(fails) <= LINK_RX_DEAD_MS + 1
    BY <2>1, ScansFit
  <2>3. Scans(fails) \in Nat
    BY <2>1, ScanTimes
  <2> QED BY <2>2, <2>3, Times
<1> QED BY <1>1, <1>2, Times DEF Typed

\* The margins keep the next look before the silence of a dead radio.
LEMMA RungsStep ==
    ASSUME NoWrap, Typed, Looked, Rungs, [Next]_vars
    PROVE  Rungs'
<1> DEFINE late == Scans(fails)
<1>1. /\ uptime \in Nat /\ nextRun \in Nat /\ lastRx \in Nat /\ reassocMs \in Nat /\ silence \in Nat
      /\ fails \in Nat /\ reassocTasks \in Nat /\ probeMs \in Nat
      /\ lastRx <= uptime /\ reassocMs <= uptime /\ silence <= uptime /\ probeMs <= uptime
      /\ nextRun <= uptime + LINK_CHECK_MS
  BY DEF Typed
<1>2. /\ LINK_CHECK_MS \in Nat /\ LINK_RX_PROBE_MS \in Nat /\ LINK_RX_DEAD_MS \in Nat
      /\ LINK_PROBE_EVERY_MS \in Nat /\ LINK_REASSOC_GRACE_MS \in Nat /\ ScanMax \in Nat
      /\ LINK_REASSOC_GRACE_MS > 0 /\ LINK_PROBE_EVERY_MS < LINK_RX_PROBE_MS
      /\ LINK_RX_PROBE_MS + LINK_CHECK_MS <= LINK_RX_DEAD_MS
      /\ LINK_REBOOT_AFTER \in Nat \ {0}
  BY Times, MarginsAssumption
<1>3. \A n \in Nat : n < LINK_REBOOT_AFTER =>
        LINK_REASSOC_GRACE_MS + LINK_CHECK_MS + Scans(n) <= LINK_RX_DEAD_MS + 1
  BY ScansFit
<1>4. steady' => netState' = "connected"
  <2>1. CASE FrameStep
    BY <2>1 DEF FrameStep
  <2>2. CASE Aside
    BY <2>2 DEF Aside, Rungs
  <2>3. CASE Pass
    BY <2>3 DEF Pass, Rungs
  <2>4. CASE CtlReassocTask
    BY <2>4 DEF CtlReassocTask, Rungs
  <2>5. CASE Watch
    BY <2>5 DEF Watch, Rungs
  <2>6. CASE Reboot
    BY <2>6 DEF Reboot
  <2> QED BY <2>1, <2>2, <2>3, <2>4, <2>5, <2>6, Steps DEF Step
<1>5. probed' \/ probeMs' <= uptime' - silence'
  <2>1. probed \/ probeMs <= uptime - silence
    BY DEF Rungs, LastFrame
  <2>2. CASE FrameStep
    BY <2>2, <1>1 DEF FrameStep
  <2>3. CASE Aside
    BY <2>1, <2>3 DEF Aside
  <2>4. CASE Pass
    BY <2>1, <2>4, <1>1, PassStep
  <2>5. CASE CtlReassocTask
    BY <2>1, <2>5, <1>1, <1>2, TaskStep DEF Scanned
  <2>6. CASE Watch
    <3>1. Looks
      BY <2>6, Look
    <3>2. CASE Probes
      BY <3>2 DEF Probes
    <3>3. CASE Reassociates
      BY <3>3, <2>1, <1>1, <1>2 DEF Reassociates, Scanned
    <3>4. CASE GivesUp
      BY <3>4, <2>1 DEF GivesUp
    <3>5. CASE Rests
      BY <3>5, <2>1 DEF Rests
    <3> QED BY <3>1, <3>2, <3>3, <3>4, <3>5 DEF Looks
  <2>7. CASE Reboot
    BY <2>7 DEF Reboot
  <2> QED BY <2>2, <2>3, <2>4, <2>5, <2>6, <2>7, Steps DEF Step
<1>6. ASSUME ~heard', steady', ~probed', fails' < LINK_REBOOT_AFTER
      PROVE  /\ nextRun' - lastRx' <= LINK_RX_DEAD_MS
             /\ uptime' <= nextRun' \/ uptime' - lastRx' <= Scans(fails')
             /\ reassocTasks' > 0 => uptime' - lastRx' <= Scans(fails')
             /\ \/ reassocMs' <= lastRx'
                \/ fails' > 0 /\ reassocMs' - lastRx' <= Scans(fails' - 1)
  <2>1. ASSUME ~heard, steady, ~probed, fails < LINK_REBOOT_AFTER
        PROVE  /\ nextRun - lastRx <= LINK_RX_DEAD_MS
               /\ uptime <= nextRun \/ uptime - lastRx <= Scans(fails)
               /\ reassocTasks > 0 => uptime - lastRx <= Scans(fails)
               /\ \/ reassocMs <= lastRx
                  \/ fails > 0 /\ reassocMs - lastRx <= Scans(fails - 1)
    BY <2>1 DEF Rungs
  <2>2. CASE FrameStep
    BY <2>2, <1>6 DEF FrameStep
  <2>3. CASE Aside
    <3>1. /\ ~heard /\ steady /\ ~probed /\ fails < LINK_REBOOT_AFTER
          /\ UNCHANGED <<uptime, nextRun, lastRx, reassocMs, fails, reassocTasks>>
      BY <2>3, <1>6 DEF Aside
    <3> QED BY <3>1, <2>1
  <2>4. CASE Pass
    <3>1. /\ ~heard /\ steady /\ ~probed /\ fails < LINK_REBOOT_AFTER
          /\ uptime < nextRun /\ uptime' = uptime + 1 /\ reassocTasks' = 0
          /\ UNCHANGED <<nextRun, lastRx, reassocMs, fails>>
      <4>1. /\ uptime < nextRun /\ uptime' = uptime + 1 /\ reassocTasks = 0
            /\ reassocTasks' = reassocTasks
            /\ UNCHANGED <<nextRun, lastRx, reassocMs, fails>>
        BY <2>4, PassStep
      <4>2. heard' = heard /\ steady' = steady /\ probed' = probed
        BY <2>4, PassStep
      <4>3. ~heard /\ steady /\ ~probed
        BY <4>2, <1>6, Zenon
      <4> QED BY <4>1, <4>3, <1>6
    <3> QED BY <3>1, <2>1, <1>1
  <2>5. CASE CtlReassocTask
    <3>1. /\ ~heard /\ steady /\ ~probed /\ fails + 1 < LINK_REBOOT_AFTER
          /\ reassocTasks > 0 /\ reassocMs' = uptime /\ fails' = fails + 1
          /\ UNCHANGED <<nextRun, lastRx>>
      <4>1. /\ reassocTasks > 0 /\ reassocMs' = uptime /\ fails' = fails + 1
            /\ UNCHANGED <<nextRun, lastRx>>
        BY <2>5, TaskStep
      <4>2. heard' = heard /\ steady' = steady /\ probed' = probed
        BY <2>5, TaskStep
      <4>3. ~heard /\ steady /\ ~probed
        BY <4>2, <1>6, Zenon
      <4> QED BY <4>1, <4>3, <1>6
    <3>2. PICK d \in 0 .. ScanMax : uptime' = uptime + d
      BY <2>5, TaskStep DEF Scanned
    <3>3. /\ nextRun - lastRx <= LINK_RX_DEAD_MS
          /\ uptime - lastRx <= Scans(fails)
      BY <3>1, <2>1, <1>1, <1>2
    <3>4. Scans(fails + 1) = Scans(fails) + ScanMax /\ Scans(fails) \in Nat
      BY <1>1, ScanTimes
    <3>5. fails' - 1 = fails /\ fails' > 0
      BY <3>1, <1>1
    <3>6. uptime' - lastRx' <= Scans(fails')
      BY <3>1, <3>2, <3>3, <3>4, <1>1, <1>2
    <3>7. reassocMs' - lastRx' <= Scans(fails' - 1)
      BY <3>1, <3>3, <3>5
    <3> QED BY <3>1, <3>3, <3>5, <3>6, <3>7
  <2>6. CASE Watch
    <3>1. Looks
      BY <2>6, Look
    <3>2. netState = "connected" /\ steady /\ ~Trying(netState)
      BY <3>1, <1>6 DEF Looks, Rungs, Trying
    <3>3. CASE heard
      <4>1. /\ Attempts = 0 /\ Quiet = 0 /\ lastRx' = uptime /\ nextRun' = uptime + LINK_CHECK_MS
            /\ reassocTasks' = reassocTasks
        BY <3>1, <3>3 DEF Attempts, Quiet, Looks
      <4>2. ~Probes
        BY <1>6 DEF Probes
      <4>3. ~Reassociates
        BY <3>2, <4>1, <1>2 DEF Reassociates
      <4>4. ~GivesUp
        BY <3>2, <4>1, <1>2 DEF GivesUp
      <4>5. uptime' = uptime /\ fails' = 0 /\ reassocMs' = reassocMs
        BY <3>1, <4>1, <4>2, <4>3, <4>4 DEF Looks, Rests
      <4>6. Scans(fails') = 0
        BY <4>5, ScanTimes
      <4> QED BY <4>1, <4>5, <4>6, <1>1, <1>2
    <3>4. CASE ~heard
      <4>1. /\ Attempts = fails /\ Quiet = uptime - lastRx /\ lastRx' = lastRx
            /\ nextRun' = uptime + LINK_CHECK_MS /\ nextRun <= uptime
            /\ reassocTasks' = reassocTasks
        BY <3>1, <3>4 DEF Attempts, Quiet, Looks
      <4>2. ~probed /\ fails < LINK_REBOOT_AFTER
        <5>1. CASE Probes
          BY <5>1, <1>6 DEF Probes
        <5>2. CASE Reassociates
          BY <5>2, <4>1, <1>6 DEF Reassociates
        <5>3. CASE GivesUp
          BY <5>3, <4>1, <1>6 DEF GivesUp
        <5>4. CASE Rests
          BY <5>4, <4>1, <1>6 DEF Rests
        <5> QED BY <3>1, <5>1, <5>2, <5>3, <5>4 DEF Looks
      <4>3. /\ nextRun - lastRx <= LINK_RX_DEAD_MS
            /\ uptime <= nextRun \/ uptime - lastRx <= Scans(fails)
            /\ reassocTasks > 0 => uptime - lastRx <= Scans(fails)
            /\ \/ reassocMs <= lastRx
               \/ fails > 0 /\ reassocMs - lastRx <= Scans(fails - 1)
        BY <2>1, <3>2, <3>4, <4>2
      <4>4. LINK_REASSOC_GRACE_MS + LINK_CHECK_MS + Scans(fails) <= LINK_RX_DEAD_MS + 1
            /\ Scans(fails) \in Nat
        BY <4>2, <1>1, <1>3, ScanTimes
      <4>5. uptime - lastRx <= LINK_RX_DEAD_MS
        BY <3>2, <3>4, <4>1, <4>2, InTime
      <4>6. ~Probes
        BY <1>6 DEF Probes
      <4>7. ~Reassociates
        BY <3>2, <4>1, <4>5, <1>1, <1>2 DEF Reassociates
      <4>8. ~GivesUp
        BY <3>2, <4>1, <4>2, <1>1, <1>2 DEF GivesUp
      <4>9. Rests
        BY <3>1, <4>6, <4>7, <4>8 DEF Looks
      <4>10. uptime' = uptime /\ fails' = fails /\ reassocMs' = reassocMs
        BY <4>1, <4>9 DEF Rests
      <4>11. nextRun' - lastRx' <= LINK_RX_DEAD_MS
        <5>1. CASE Chance
          <6>1. uptime - reassocMs < LINK_REASSOC_GRACE_MS
            BY <5>1 DEF Chance
          <6>2. CASE reassocMs <= lastRx
            BY <6>1, <6>2, <4>1, <4>4, <1>1, <1>2
          <6>3. CASE fails > 0 /\ reassocMs - lastRx <= Scans(fails - 1)
            <7>1. fails - 1 \in Nat /\ fails - 1 < LINK_REBOOT_AFTER
              BY <6>3, <4>2, <1>1, <1>2
            <7>2. /\ LINK_REASSOC_GRACE_MS + LINK_CHECK_MS + Scans(fails - 1) <= LINK_RX_DEAD_MS + 1
                  /\ Scans(fails - 1) \in Nat
              BY <7>1, <1>3, ScanTimes
            <7> QED BY <6>1, <6>3, <7>2, <4>1, <1>1, <1>2
          <6> QED BY <6>2, <6>3, <4>3
        <5>2. CASE ~Chance
          <6>1. Quiet <= LINK_RX_PROBE_MS \/ uptime - probeMs <= LINK_PROBE_EVERY_MS
            BY <5>2, <4>9, <3>2 DEF Rests
          <6>2. probeMs <= lastRx
            BY <4>2, <3>4, <1>1 DEF Rungs, Looked, LastFrame
          <6> QED BY <6>1, <6>2, <4>1, <1>1, <1>2
        <5> QED BY <5>1, <5>2
      <4> QED BY <4>1, <4>3, <4>10, <4>11, <1>1, <1>2
    <3> QED BY <3>3, <3>4
  <2>7. CASE Reboot
    BY <2>7, <1>6 DEF Reboot
  <2> QED BY <2>2, <2>3, <2>4, <2>5, <2>6, <2>7, Steps DEF Step
<1>7. LastFrame' = uptime' - silence' /\ Scans(fails)' = Scans(fails')
      /\ Scans(fails - 1)' = Scans(fails' - 1)
  BY DEF LastFrame, Scans
<1> QED BY <1>4, <1>5, <1>6, <1>7 DEF Rungs
--------------------------------------------------------------------------------
(* The theorems.                                                           *)

IInv == Typed /\ Awaiting /\ Looked /\ Budget

LEMMA Start ==
    ASSUME Init
    PROVE  IInv /\ Rungs
<1>1. Typed
  BY Times DEF Init, Typed
<1>2. Awaiting
  <2>1. Scans(0) = 0 /\ Scans(MaxFails) \in Nat
    BY ScanTimes, Times
  <2>2. Scans(reassocTasks) = 0 /\ silence = 0 /\ nextRun - uptime = LINK_CHECK_MS
    BY <2>1, Times DEF Init
  <2> QED BY <2>1, <2>2, Times DEF Init, Awaiting
<1>3. Looked /\ Budget
  BY DEF Init, Looked, Budget
<1>4. Rungs
  <2>1. steady => netState = "connected"
    BY DEF Init
  <2>2. heard /\ (probed \/ probeMs <= uptime - silence)
    BY DEF Init
  <2> QED BY <2>1, <2>2 DEF Rungs, LastFrame
<1> QED BY <1>1, <1>2, <1>3, <1>4 DEF IInv

LEMMA Kept ==
    ASSUME NoWrap, IInv, [Next]_vars
    PROVE  IInv'
BY TypedStep, AwaitingStep, LookedStep, BudgetStep DEF IInv

LEMMA Held == ASSUME NoWrap PROVE Spec => []IInv
<1>1. Init => IInv
  BY Start
<1>2. IInv /\ [Next]_vars => IInv'
  BY Kept
<1> QED BY <1>1, <1>2, PTL DEF Spec

\* Whatever the driver claims and whatever is asked for by hand, a deaf rabbit
\* reboots before its silence exceeds WorstSilence (link_check and its ladder).
THEOREM SilenceBoundedHolds == ASSUME NoWrap PROVE Spec => []SilenceBounded
<1>1. IInv => SilenceBounded
  <2> SUFFICES ASSUME IInv PROVE silence <= WorstSilence
    BY DEF SilenceBounded
  <2>1. /\ WorstSilence =
             2 * LINK_CHECK_MS + Scans(MaxFails) + 2 * LINK_RX_DEAD_MS + Cycles(LINK_REBOOT_AFTER)
        /\ WorstSilence \in Nat
    BY Worst
  <2>2. /\ Scans(MaxFails) \in Nat /\ Cycles(LINK_REBOOT_AFTER) \in Nat
        /\ Scans(reassocTasks) \in Nat /\ Toll(fails) \in Nat
    BY ScanTimes, CycleTimes, Tolls, Times DEF IInv, Typed
  <2>3. CASE heard
    BY <2>1, <2>2, <2>3, Times DEF IInv, Typed, Awaiting
  <2>4. CASE ~heard
    <3>1. uptime + Toll(fails) <= uptime - silence + WorstSilence
      BY <2>4 DEF IInv, Budget, LastFrame
    <3> QED BY <3>1, <2>1, <2>2 DEF IInv, Typed
  <2> QED BY <2>3, <2>4
<1> QED BY <1>1, Held, PTL

\* The watchdog reboots only a rabbit that it has not heard since it last
\* looked, nor for the whole grace of a reassociation, though reassociations
\* asked for by hand count as failures (link_check, ctl's reassoc command).
THEOREM NoRashRebootHolds == ASSUME NoWrap PROVE Spec => NoRashReboot
<1>1. ASSUME IInv, [Next]_vars, reboot = "no", reboot' = "watchdog"
      PROVE  ~heard /\ silence >= LINK_REASSOC_GRACE_MS
  <2>1. /\ uptime \in Nat /\ lastRx \in Nat /\ reassocMs \in Nat /\ silence \in Nat
        /\ fails \in Nat
    BY <1>1 DEF IInv, Typed
  <2>2. Watch
    <3>1. CASE Pass \/ Hear \/ CtlReassoc \/ CtlReassocTask \/ (\E s \in NetStates : Drive(s))
          \/ UNCHANGED vars
      BY <3>1, <1>1 DEF Pass, Hear, CtlReassoc, CtlReassocTask, Drive, vars
    <3>2. CASE CtlReboot \/ ButtonReboot \/ Reboot
      BY <3>2, <1>1 DEF CtlReboot, ButtonReboot, Reboot
    <3> QED BY <3>1, <3>2, <1>1 DEF Next
  <2>3. GivesUp
    <3>1. Looks
      BY <2>2, <1>1, Look DEF IInv
    <3> QED BY <3>1, <1>1 DEF Looks, Probes, Reassociates, Rests
  <2>4. ~heard
    <3>1. SUFFICES ASSUME heard PROVE FALSE
      OBVIOUS
    <3>2. Quiet = 0 /\ Attempts = 0
      BY <3>1 DEF Quiet, Attempts
    <3> QED BY <2>3, <3>2, Times DEF GivesUp
  <2>5. /\ Quiet = uptime - lastRx /\ Attempts = fails
        /\ 0 < lastRx /\ uptime - silence <= lastRx
        /\ fails > 0 => reassocMs >= lastRx
    BY <2>4, <1>1 DEF Quiet, Attempts, IInv, Looked, LastFrame
  <2>6. CASE Quiet > 2 * LINK_RX_DEAD_MS
    BY <2>4, <2>5, <2>6, <2>1, Times
  <2>7. CASE Attempts >= LINK_REBOOT_AFTER
    <3>1. reassocMs >= lastRx
      BY <2>5, <2>7, <2>1, Times
    <3>2. uptime - reassocMs >= LINK_REASSOC_GRACE_MS
      BY <3>1, <2>1, <2>3, <2>5, Times DEF GivesUp, Chance
    <3> QED BY <3>1, <3>2, <2>4, <2>5, <2>1, Times
  <2> QED BY <2>3, <2>6, <2>7 DEF GivesUp
<1>2. IInv /\ [Next]_vars =>
        [reboot = "no" /\ reboot' = "watchdog" => ~heard /\ silence >= LINK_REASSOC_GRACE_MS]_vars
  BY <1>1
<1> QED BY <1>2, Held, PTL DEF Spec, NoRashReboot

\* With the margins of the code, a radio whose driver calls the link connected
\* is declared dead only after the gateway was probed (link_check).
THEOREM LadderInOrderHolds == ASSUME NoWrap PROVE Spec => LadderInOrder
<1>1. Init => Rungs
  BY Start
<1>2. IInv /\ Rungs /\ [Next]_vars => Rungs'
  BY RungsStep DEF IInv
<1>3. ASSUME IInv, Rungs, Watch, Act = "reassoc", steady
      PROVE  probed
  <2>1. /\ uptime \in Nat /\ lastRx \in Nat /\ nextRun \in Nat /\ fails \in Nat
    BY <1>3 DEF IInv, Typed
  <2>2. Looks
    BY <1>3, Look DEF IInv
  <2>3. Reassociates
    BY <1>3, Look DEF IInv
  <2>4. SUFFICES ASSUME ~probed PROVE FALSE
    OBVIOUS
  <2>5. Attempts < LINK_REBOOT_AFTER /\ Quiet > LINK_RX_DEAD_MS
    BY <2>3, <1>3 DEF Reassociates, Rungs
  <2>6. CASE heard
    BY <2>5, <2>6, Times DEF Quiet
  <2>7. CASE ~heard
    <3>1. fails < LINK_REBOOT_AFTER /\ Quiet = uptime - lastRx
      BY <2>5, <2>7 DEF Attempts, Quiet
    <3>2. uptime - lastRx <= LINK_RX_DEAD_MS
      BY <3>1, <2>2, <2>4, <2>7, <1>3, InTime DEF IInv, Looks
    <3> QED BY <3>1, <3>2, <2>1, <2>5, Times
  <2> QED BY <2>6, <2>7
<1>4. IInv /\ Rungs /\ [Next]_vars => [Watch /\ Act = "reassoc" /\ steady => probed]_vars
  BY <1>3
<1> QED BY <1>1, <1>2, <1>4, Held, PTL DEF Spec, LadderInOrder
================================================================================
