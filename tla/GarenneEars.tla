------------------------------ MODULE GarenneEars ------------------------------
(***************************************************************************)
(* An ear of the rabbit (garenne/ears.mtl): a motor that only runs forward *)
(* and a sensor that counts holes. One gap between two holes is as wide as *)
(* two: an ear that does not know where it is turns, times the holes, and  *)
(* takes the hole behind the wide gap for its zero.                        *)
(*                                                                         *)
(* The two ears share nothing; one is modelled. Its motor runs exactly     *)
(* while it calibrates or moves. A pass that finds an ear at rest and      *)
(* untouched changes nothing and is left out. The ear itself, the hands    *)
(* that turn it and what jams it are external.                             *)
(***************************************************************************)
EXTENDS Integers, FiniteSets

CONSTANTS EARS_HOLES, EARS_TICK_MS, EARS_STALL_MS, EARS_CAL_MIN_GAPS,
          GAP,           \* what a driven ear takes from a hole to the next, in ms
          Targets,       \* where commands send it
          Moments,       \* after a pass, when a command may come
          Rests,         \* short of the next hole, where a hand may leave it
          Delays,        \* by how much a pass may be late
          MaxEvents      \* bound: commands, hands, jams and late passes together

ASSUME EarsAssumption ==
    /\ {EARS_HOLES, EARS_TICK_MS, EARS_STALL_MS, EARS_CAL_MIN_GAPS, GAP} \subseteq Nat \ {0}
    /\ Targets \subseteq Int /\ Moments \subseteq 0 .. EARS_TICK_MS
    /\ Rests \subseteq 1 .. GAP /\ Delays \subseteq Nat \ {0} /\ MaxEvents \in Nat

\* From one hole to the next an ear that turns takes less than the stall, over the
\* wide gap too: with a slower one a healthy ear would be given up.
GapsInTime == 2 * GAP <= EARS_STALL_MS

\* A gap takes some four periods of the task and a third: three of them, timed to a
\* period, then leave an average that no narrow gap exceeds by the three quarters that
\* the wide one does. With a faster ear a narrow gap could pass for the zero.
GapsTell == EARS_CAL_MIN_GAPS >= 3 /\ 142 * EARS_TICK_MS + 152 <= 33 * GAP

VARIABLES
    ear_state, ear_pos, ear_target, ear_dirty,
    ear_avg_ms, ear_gaps,
    delta,         \* holes the sensor has counted beyond ear_count
    since,         \* time since ear_hole_ms, as of the last pass
    next,          \* time to the next pass
    hole, ahead,   \* the ear itself: the last hole it passed, and how far the next is
    jammed,
    trusted,       \* history: its zero was found, and kept, by the rules
    events

place == <<ear_state, ear_pos, ear_target, ear_dirty>>
rhythm == <<ear_avg_ms, ear_gaps>>
ear == <<hole, ahead, jammed>>
ear_vars == <<place, rhythm, delta, since, next, ear, trusted, events>>

EarHoles == 0 .. EARS_HOLES - 1
None == -1
Driven == ear_state \in {"CAL", "MOVE"}

ear_mod(v) == v % EARS_HOLES

EarInit ==
    /\ ear_state = "IDLE" /\ ear_pos = None /\ ear_target = None /\ ear_dirty = FALSE
    /\ ear_avg_ms = None /\ ear_gaps = 0
    /\ delta = 0 /\ since = 0 /\ next = EARS_TICK_MS
    /\ hole \in EarHoles /\ ahead \in Rests /\ jammed = FALSE
    /\ trusted = FALSE /\ events = 0

--------------------------------------------------------------------------------
(* The ear turns.                                                          *)

\* How long it takes to the k-th hole from here.
Way(k) == IF k = 0 THEN 0
          ELSE ahead + GAP * (k - 1 + Cardinality({j \in 1 .. k - 1 :
                                                      ear_mod(hole + j) = EARS_HOLES - 1}))

\* The holes that pass in dt.
Passed(dt) == IF ~Driven \/ jammed THEN 0
              ELSE CHOOSE k \in 0 .. dt : Way(k) <= dt /\ dt < Way(k + 1)

Turn(dt) ==
    /\ hole' = ear_mod(hole + Passed(dt))
    /\ ahead' = IF ~Driven \/ jammed THEN ahead ELSE Way(Passed(dt) + 1) - dt
    /\ UNCHANGED jammed

--------------------------------------------------------------------------------
(* _ear_tick.                                                              *)

Arrive == ear_state' = "IDLE" /\ ear_target' = None

\* Mutant: the first long gap is the wide one.
NotchEager(gap) == ear_avg_ms # None /\ gap > (ear_avg_ms * 7) \div 4

\* A gap close to twice the average, once there are enough for one.
Notch(gap) == /\ ear_avg_ms # None /\ ear_gaps >= EARS_CAL_MIN_GAPS
              /\ gap > (ear_avg_ms * 7) \div 4

CalHole(gap) ==
    \/ /\ Notch(gap)
       /\ ear_pos' = 0 /\ ear_dirty' = FALSE
       /\ IF ear_target \in {None, 0} THEN Arrive
          ELSE ear_state' = "MOVE" /\ UNCHANGED ear_target
       /\ UNCHANGED rhythm
    \/ /\ ~Notch(gap)
       /\ ear_avg_ms' = IF ear_avg_ms = None THEN gap ELSE (ear_avg_ms * 3 + gap) \div 4
       /\ ear_gaps' = IF ear_gaps < EARS_CAL_MIN_GAPS THEN ear_gaps + 1 ELSE ear_gaps
       /\ UNCHANGED place

MoveHoles(n) ==
    /\ ear_pos' = ear_mod(ear_pos + n)
    /\ IF ear_pos' = ear_target THEN Arrive ELSE UNCHANGED <<ear_state, ear_target>>
    /\ UNCHANGED <<ear_dirty, rhythm>>

\* No hole for so long that the ear must be jammed.
Stalled(waited) == waited > EARS_STALL_MS

\* Mutant: holes that come too late do not count.
HeardInTime(n, waited) == n > 0 /\ ~Stalled(waited)

\* Holes have passed since the last tick, however long ago that was.
Heard(n, waited) == n > 0

ear_tick(n, waited) ==
    \/ /\ Driven /\ Heard(n, waited) /\ since' = 0
       /\ IF ear_state = "CAL" THEN CalHole(waited) ELSE MoveHoles(n)
    \/ /\ Driven /\ ~Heard(n, waited) /\ Stalled(waited) /\ since' = 0
       /\ ear_state' = "BROKEN" /\ UNCHANGED <<ear_pos, ear_target, ear_dirty, rhythm>>
    \/ /\ Driven /\ ~Heard(n, waited) /\ ~Stalled(waited) /\ since' = waited
       /\ UNCHANGED <<place, rhythm>>
    \/ /\ ~Driven /\ n > 0 /\ ear_dirty' = TRUE
       /\ UNCHANGED <<ear_state, ear_pos, ear_target, rhythm, since>>

\* One pass of _ears_task.
Pass(late) ==
    LET dt == next + late IN
    /\ Driven \/ delta > 0
    /\ Turn(dt) /\ ear_tick(delta + Passed(dt), since + dt)
    /\ delta' = 0 /\ next' = EARS_TICK_MS
    /\ events' = IF late = 0 THEN events ELSE events + 1
    /\ trusted' = (trusted /\ (late = 0 \/ ear_state # "CAL"))

--------------------------------------------------------------------------------
(* ears_goto.                                                              *)

\* The zero of a calibration can be trusted if the ear did not set out close
\* before a hole: the first gap it times is the rest of one.
StartCal ==
    /\ ear_state' = "CAL" /\ ear_gaps' = 0 /\ ear_avg_ms' = None
    /\ trusted' = (delta' = 0 /\ 2 * ahead' >= GAP)

\* An ear that does not know where it is.
Lost == ear_pos = None \/ ear_dirty

\* Mutant: a target is taken as it is.
TargetAsGiven(target) == target

\* A target wraps around the ear.
Destination(target) == ear_mod(target)

ears_goto(target) ==
    /\ events < MaxEvents /\ events' = events + 1
    /\ ear_state # "BROKEN" /\ since' = 0
    /\ ear_target' = IF ~Lost /\ ear_pos = Destination(target) THEN None ELSE Destination(target)
    /\ IF Lost THEN StartCal
       ELSE /\ ear_state' = IF ear_pos = Destination(target) THEN "IDLE" ELSE "MOVE"
            /\ trusted' = (trusted /\ (Driven \/ delta = 0))
            /\ UNCHANGED rhythm
    /\ UNCHANGED <<ear_pos, ear_dirty>>

\* A command comes some time after a pass, and the ear turns meanwhile.
Goto(target, moment) ==
    /\ moment <= next
    /\ Turn(moment) /\ delta' = delta + Passed(moment) /\ next' = next - moment
    /\ ears_goto(target)

--------------------------------------------------------------------------------
(* Hands.                                                                  *)

\* A hand turns the ear by a hole, either way: the sensor counts up.
Hand(way, rest) ==
    /\ events < MaxEvents /\ events' = events + 1
    /\ hole' = ear_mod(hole + way) /\ ahead' = rest /\ delta' = delta + 1
    /\ trusted' = (trusted /\ ~Driven)
    /\ UNCHANGED <<place, rhythm, since, next, jammed>>

Jam ==
    /\ events < MaxEvents /\ events' = events + 1
    /\ ~jammed /\ jammed' = TRUE
    /\ UNCHANGED <<place, rhythm, delta, since, next, hole, ahead, trusted>>

Late == \E late \in Delays : events < MaxEvents /\ Pass(late)

EarNext == \/ Pass(0) \/ Late \/ Jam
           \/ \E target \in Targets, moment \in Moments : Goto(target, moment)
           \/ \E way \in {1, -1}, rest \in Rests : Hand(way, rest)

EarSpec == EarInit /\ [][EarNext]_ear_vars

\* ears_init starts the task and nothing stops it.
FairEarSpec == EarSpec /\ WF_ear_vars(Pass(0) \/ Late)

--------------------------------------------------------------------------------
\* An ear that believes to know where it is is there, at rest or on its way:
\* through commands that change its mind, turns across the wide gap, hands that
\* touch it at rest, passes that come late on its way. Excepted are a pass late in a
\* calibration or one that began close before a hole, a hand that holds a driven
\* ear, and a touch that no pass had seen when a command came.
KnowsItsPlace ==
    (/\ trusted /\ ear_pos # None /\ ~ear_dirty /\ ear_state \in {"IDLE", "MOVE"}
     /\ Driven \/ delta = 0)
        => ear_mod(ear_pos + delta) = hole

\* Only an ear that is jammed is given up, however late a pass and whatever the
\* commands that set it off again.
OnlyJammedBreaks == ear_state = "BROKEN" => jammed

\* Every move ends: the ear arrives or is given up.
EveryMoveEnds == []<>~Driven
================================================================================
