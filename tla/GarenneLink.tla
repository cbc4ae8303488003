------------------------------ MODULE GarenneLink ------------------------------
(***************************************************************************)
(* The watchdog of the radio link (garenne/net/link.mtl). A task looks,    *)
(* every LINK_CHECK_MS, at whether a frame that parsed came in since it    *)
(* last looked, and climbs a ladder: probe the gateway, declare the radio  *)
(* dead and reassociate, and after repeated failures reboot. The driver    *)
(* changes netState as it likes; frames, some of them control commands,    *)
(* come and go as they like.                                               *)
(*                                                                         *)
(* Time is counted in a unit the configuration chooses. The rabbit reads   *)
(* it through time_ms, a signed word of the virtual machine that wraps.    *)
(***************************************************************************)
EXTENDS Integers

CONSTANTS LINK_CHECK_MS, LINK_RX_PROBE_MS, LINK_RX_DEAD_MS, LINK_PROBE_EVERY_MS,
          LINK_REASSOC_GRACE_MS, LINK_REBOOT_AFTER,
          ScanMax,       \* the longest netScan blocks the machine
          HalfClock,     \* time_ms runs from -HalfClock to HalfClock - 1
          LastMs,        \* bound: the time since boot the model follows
          MaxFails,      \* bound: reassociations asked for between two looks
          NetStates      \* the states the driver reports

ASSUME TimesAssumption ==
    /\ {LINK_CHECK_MS, LINK_RX_PROBE_MS, LINK_RX_DEAD_MS, LINK_PROBE_EVERY_MS,
        LINK_REASSOC_GRACE_MS, LINK_REBOOT_AFTER, HalfClock} \subseteq Nat \ {0}
    /\ {ScanMax, LastMs, MaxFails} \subseteq Nat
    /\ LINK_PROBE_EVERY_MS < LINK_RX_PROBE_MS
    /\ LINK_RX_PROBE_MS < LINK_RX_DEAD_MS
    /\ LINK_REASSOC_GRACE_MS <= 2 * LINK_RX_DEAD_MS
    /\ LINK_REBOOT_AFTER <= MaxFails
    /\ NetStates \subseteq {"broken", "scanning", "connecting", "connected"}

\* A look falls between the silence that asks for a probe and the one that calls
\* the radio dead, even when scans asked for by hand hold the machine: 32 s are
\* less than 90, and 22 too unless a scan takes 68.
ASSUME MarginsAssumption ==
    /\ LINK_RX_PROBE_MS + LINK_CHECK_MS <= LINK_RX_DEAD_MS
    /\ LINK_REASSOC_GRACE_MS + LINK_CHECK_MS + (LINK_REBOOT_AFTER - 1) * ScanMax
          <= LINK_RX_DEAD_MS + 1

VARIABLES
    netState,          \* what the driver claims
    uptime,            \* the time since boot, that no variable of the code holds
    nextRun,           \* task_next_run_ms of the watch task
    heard,             \* stat_rx_valid # _link_last_rx_frames
    lastRx,            \* _link_last_rx_ms
    probeMs,           \* _link_probe_ms
    reassocMs,         \* _link_reassoc_ms, 0 for never
    fails,             \* _link_reassoc_fails
    reassocTasks,      \* reassociations asked for over the control port
    reboot,            \* who asked for the reboot that is scheduled
    scannable,         \* the config sector has a network we can join
    silence, steady, probed
        \* seen from outside: the time without a frame, whether the driver
        \* claimed a connection all along, and whether a probe was sent in it

config == <<scannable>>
history == <<silence, steady, probed>>
vars == <<netState, uptime, nextRun, heard, lastRx, probeMs, reassocMs, fails,
          reassocTasks, reboot, scannable, silence, steady, probed>>

--------------------------------------------------------------------------------
\* The machine's words hold integers of one bit less than the processor's.
Signed(x) == ((x + HalfClock) % (2 * HalfClock)) - HalfClock

time_ms == Signed(uptime)
Age(t) == Signed(time_ms - t)

\* Mutant: an attempt is judged as soon as it was made.
InGraceNever == reassocMs # 0 /\ Age(reassocMs) < 0

InGrace == reassocMs # 0 /\ Age(reassocMs) < LINK_REASSOC_GRACE_MS

Trying(state) == state \in {"scanning", "connecting"}
Gone(state, rxAge) == state # "connected" \/ rxAge > LINK_RX_DEAD_MS

\* Mutant: a driver that says it is trying is trusted for ever.
link_decideTrusting(state, rxAge, grace, attempts) ==
    CASE grace \/ Trying(state) -> "none"
      [] ~grace /\ ~Trying(state) /\ attempts >= LINK_REBOOT_AFTER -> "reboot"
      [] ~grace /\ ~Trying(state) /\ attempts < LINK_REBOOT_AFTER
            /\ Gone(state, rxAge) -> "reassoc"
      [] OTHER -> IF rxAge > LINK_RX_PROBE_MS THEN "probe" ELSE "none"

\* The pure decision; grace tells that a reassociation is recent enough to
\* deserve its chance.
link_decide(state, rxAge, grace, attempts) ==
    CASE grace -> "none"
      [] ~grace /\ Trying(state) ->
            IF rxAge > 2 * LINK_RX_DEAD_MS THEN "reboot" ELSE "none"
      [] ~grace /\ ~Trying(state) /\ attempts >= LINK_REBOOT_AFTER -> "reboot"
      [] ~grace /\ ~Trying(state) /\ attempts < LINK_REBOOT_AFTER
            /\ Gone(state, rxAge) -> "reassoc"
      [] OTHER -> IF rxAge > LINK_RX_PROBE_MS THEN "probe" ELSE "none"

\* The count of frames already seen starts at -1: the first look hears one.
Init ==
    /\ uptime = 0 /\ nextRun = LINK_CHECK_MS /\ heard = TRUE
    /\ lastRx = 0 /\ probeMs = 0 /\ reassocMs = 0 /\ fails = 0
    /\ reassocTasks = 0 /\ reboot = "no"
    /\ silence = 0 /\ probed = FALSE
    /\ netState \in NetStates /\ steady = (netState = "connected")
    /\ scannable \in BOOLEAN

--------------------------------------------------------------------------------
(* What happens around the watchdog.                                       *)

Due == Signed(nextRun - time_ms) <= 0

Elapse(d) ==
    /\ uptime + d <= LastMs
    /\ uptime' = uptime + d /\ silence' = silence + d

\* The scheduler goes round far faster than the unit of time: nothing that is
\* due waits while the clock runs.
Pass ==
    /\ ~Due /\ reassocTasks = 0 /\ reboot = "no"
    /\ Elapse(1)
    /\ UNCHANGED <<netState, nextRun, heard, lastRx, probeMs, reassocMs, fails,
                   reassocTasks, reboot, config, steady, probed>>

Drive(s) ==
    /\ netState' = s
    /\ steady' = (steady /\ s = "connected")
    /\ UNCHANGED <<uptime, nextRun, heard, lastRx, probeMs, reassocMs, fails,
                   reassocTasks, reboot, config, silence, probed>>

\* A frame that parses; a command travels in one.
Frame ==
    /\ heard' = TRUE
    /\ silence' = 0 /\ probed' = FALSE /\ steady' = (netState = "connected")
    /\ UNCHANGED <<netState, uptime, nextRun, lastRx, probeMs, reassocMs, fails, config>>

Hear == Frame /\ UNCHANGED <<reassocTasks, reboot>>

CtlReassoc ==
    /\ fails + reassocTasks < MaxFails
    /\ Frame
    /\ reassocTasks' = reassocTasks + 1
    /\ UNCHANGED reboot

CtlReboot == Frame /\ reboot' = "asked" /\ UNCHANGED reassocTasks

ButtonReboot ==
    /\ reboot = "no" /\ reboot' = "asked"
    /\ UNCHANGED <<netState, uptime, nextRun, heard, lastRx, probeMs, reassocMs, fails,
                   reassocTasks, config, history>>

--------------------------------------------------------------------------------
(* The watchdog.                                                           *)

\* Blocks the machine while it scans, when the config sector names a network.
link_reassoc(attempts) ==
    /\ reassocMs' = time_ms
    /\ fails' = attempts + 1
    /\ \E d \in IF scannable THEN 0 .. ScanMax ELSE {0} : Elapse(d)

CtlReassocTask ==
    /\ reassocTasks > 0 /\ reassocTasks' = reassocTasks - 1
    /\ link_reassoc(fails)
    /\ UNCHANGED <<netState, nextRun, heard, lastRx, probeMs, reboot, config, steady, probed>>

LastRx == IF heard THEN time_ms ELSE lastRx
Attempts == IF heard THEN 0 ELSE fails
Act == link_decide(netState, Signed(time_ms - LastRx), InGrace, Attempts)

\* Mutant: the spacing of the probes, compared the wrong way round.
ProbingBackwards == Act = "probe" /\ Age(probeMs) < LINK_PROBE_EVERY_MS

Probing == Act = "probe" /\ Age(probeMs) > LINK_PROBE_EVERY_MS

Probe ==
    /\ Probing
    /\ probeMs' = time_ms /\ probed' = TRUE
    /\ fails' = Attempts
    /\ UNCHANGED <<reassocMs, reboot, uptime, silence>>

Reassociate ==
    /\ Act = "reassoc"
    /\ link_reassoc(Attempts)
    /\ UNCHANGED <<probeMs, reboot, probed>>

GiveUp ==
    /\ Act = "reboot"
    /\ reboot' = IF reboot = "no" THEN "watchdog" ELSE reboot
    /\ fails' = Attempts
    /\ UNCHANGED <<probeMs, reassocMs, uptime, silence, probed>>

Rest ==
    /\ Act \in {"none", "probe"} /\ ~Probing
    /\ fails' = Attempts
    /\ UNCHANGED <<probeMs, reassocMs, reboot, uptime, silence, probed>>

Watch ==
    /\ Due
    /\ nextRun' = Signed(time_ms + LINK_CHECK_MS)
    /\ heard' = FALSE /\ lastRx' = LastRx
    /\ Probe \/ Reassociate \/ GiveUp \/ Rest
    /\ UNCHANGED <<netState, reassocTasks, config, steady>>

\* The hardware resets: the boot program fetches garenne again over an
\* association of its own, and every variable starts over.
Reboot ==
    /\ reboot # "no"
    /\ uptime' = 0 /\ nextRun' = LINK_CHECK_MS /\ heard' = TRUE
    /\ lastRx' = 0 /\ probeMs' = 0 /\ reassocMs' = 0 /\ fails' = 0
    /\ reassocTasks' = 0 /\ reboot' = "no"
    /\ silence' = 0 /\ probed' = FALSE
    /\ netState' \in NetStates /\ steady' = (netState' = "connected")
    /\ UNCHANGED config

Next ==
    \/ Pass \/ Hear \/ CtlReassoc \/ CtlReboot \/ ButtonReboot
    \/ \E s \in NetStates : Drive(s)
    \/ CtlReassocTask \/ Watch \/ Reboot

Spec == Init /\ [][Next]_vars

--------------------------------------------------------------------------------
\* The rabbit never stays deaf for long: whatever the driver claims, whatever
\* was asked for by hand, the ladder ends in a reboot. The worst is a frame that
\* came with commands just after a look, a driver that says it is connecting
\* until just past the look before twice the silence of a dead radio, and then
\* all the reassociations.
WorstSilence ==
    2 * LINK_CHECK_MS + MaxFails * ScanMax + 2 * LINK_RX_DEAD_MS
      + LINK_REBOOT_AFTER * (LINK_REASSOC_GRACE_MS + LINK_CHECK_MS + ScanMax)
SilenceBounded == silence <= WorstSilence

\* The watchdog never reboots a rabbit that was heard within the grace of a
\* reassociation, though reassociations asked for by hand count as failures.
NoRashReboot ==
    [][reboot = "no" /\ reboot' = "watchdog" => ~heard /\ silence >= LINK_REASSOC_GRACE_MS]_vars

\* On a link the driver calls connected the radio is never declared dead
\* before the gateway was probed: a quiet network is not a dead one.
LadderInOrder ==
    [][Watch /\ Act = "reassoc" /\ steady => probed]_vars

================================================================================
