----------------------------- MODULE GarenneDance -----------------------------
(***************************************************************************)
(* From the text of a choreography to what the rabbit does: the encoder of *)
(* clapier, the parser of garenne, and its player (garenne/choreo.mtl), a  *)
(* task that fires every step whose time has come.                         *)
(*                                                                         *)
(* Time is counted from the start of the running score. A pass of the task *)
(* in which nothing is due changes nothing and is left out; one that fires *)
(* something may come late, by what the task's period and a busy           *)
(* interpreter make of it. The breathing itself, and the commands that set *)
(* a led or an ear by hand, are left out.                                  *)
(***************************************************************************)
EXTENDS ClapierChor, GarenneChor, FiniteSets

CONSTANTS Texts,         \* the choreographies a form may send
          Files,         \* other .chor files of the library
          Lateness,      \* by how much a pass may be late, in ms
          Encores        \* bound: which of the texts may follow another score

ASSUME DanceAssumption ==
    /\ Lateness \subseteq Nat /\ Encores \subseteq Texts
    /\ \A file \in Files : file \in Seq(0 .. 255)
    /\ \A t \in Texts : t \in Seq({t[k] : k \in DOMAIN t})

\* The size of a file fits in its first four bytes: no form sends four gigabytes.
FilesFit == \A t \in Texts :
    encode_cdl(t) # Rejected => (Len(encode_cdl(t)) - 8) \div 256 ^ 3 < 256

VARIABLES
    cho_steps,     \* what remains of the score
    elapsed,       \* time since it was started
    leds, ears,    \* the colour of each led, the hole each ear was sent to
    breathing,     \* leds_breathing
    text,          \* history: the text the score came from, or NoText
    played,        \* history: the steps it has fired
    plays          \* how many scores were started, two at most

vars == <<cho_steps, elapsed, leds, ears, breathing, text, played, plays>>

LedNames == 0 .. 4
Ears == {0, 1}
Colours == 0 .. Rgb(255, 255, 255)
Holes == 0 .. 16
BASE == 4
NoText == <<>>

Init ==
    /\ cho_steps = <<>> /\ elapsed = 0 /\ breathing = TRUE
    /\ leds = [l \in LedNames |-> 0] /\ ears = [e \in Ears |-> 0]
    /\ text = NoText /\ played = <<>> /\ plays = 0

--------------------------------------------------------------------------------
(* The player.                                                             *)

\* A new score replaces the running one, and opens on the look that one left.
choreo_play(source, steps) ==
    /\ plays' = plays + 1
    /\ cho_steps' = steps /\ elapsed' = 0 /\ breathing' = FALSE
    /\ text' = source /\ played' = <<>>
    /\ UNCHANGED <<leds, ears>>

\* How many steps are due: those before the first one that is not.
Due(steps, now) ==
    CHOOSE n \in 0 .. Len(steps) : /\ \A k \in 1 .. n : steps[k].t <= now
                                   /\ n < Len(steps) => steps[n + 1].t > now

Ends(due) == \E k \in DOMAIN due : due[k].kind = "end"
\* The last step among those due that sets this led, or this ear.
LastSet(due, kind, a) == LET S == {k \in DOMAIN due : due[k].kind = kind /\ due[k].a = a}
                      IN {due[k].b : k \in {k \in S : \A j \in S : j <= k}}

\* Mutant: the leds keep the colours the dance left them.
RestoredLit(l, colour) == colour

\* The colour of a led when a score has ended.
Restored(l, colour) == IF l = BASE THEN colour ELSE 0

\* All that is due is fired, in order. The end of a score drops what would
\* remain of it and restores the look of an idle rabbit.
cho_advance(now) ==
    LET n == Due(cho_steps, now)
        due == SubSeq(cho_steps, 1, n)
        Set(old, kind, a) == LET new == LastSet(due, kind, a)
                             IN IF new = {} THEN old ELSE CHOOSE b \in new : TRUE
    IN /\ elapsed' = now
       /\ cho_steps' = IF Ends(due) THEN <<>> ELSE SubSeq(cho_steps, n + 1, Len(cho_steps))
       /\ breathing' = (breathing \/ Ends(due))
       /\ leds' = [l \in LedNames |-> LET lit == Set(leds[l], "led", l)
                                      IN IF Ends(due) THEN Restored(l, lit) ELSE lit]
       /\ ears' = [e \in Ears |-> Set(ears[e], "ear", e)]
       /\ played' = played \o due

--------------------------------------------------------------------------------
(* What the control port and the 50 ms task do with it.                    *)

Chor(source, data) ==
    /\ chor_parse(data) # <<>>
    /\ choreo_play(source, chor_parse(data))

Dance(t) == encode_cdl(t) # Rejected /\ Chor(t, encode_cdl(t))

PlayFile(file) == Chor(NoText, file)

Salute ==
    choreo_play(NoText,
        <<LedStep(0, 0, 8400912), Step(0, "ear", 0, 8), Step(0, "ear", 1, 8),
          LedStep(700, 1, 8150271), LedStep(1000, 2, 8150271), LedStep(1300, 3, 8150271),
          LedStep(1900, 1, 0), LedStep(2200, 2, 0), LedStep(2500, 3, 0),
          Step(2600, "ear", 0, 0), Step(2600, "ear", 1, 0), EndStep(4800)>>)

cho_task ==
    /\ cho_steps # <<>>
    /\ \E late \in Lateness : cho_advance(Head(cho_steps).t + late)
    /\ UNCHANGED <<text, plays>>

Next == \/ \E t \in IF plays = 0 THEN Texts ELSE IF plays = 1 THEN Encores ELSE {} : Dance(t)
        \/ \E file \in IF plays = 0 THEN Files ELSE {} : PlayFile(file)
        \/ plays < 2 /\ Salute
        \/ cho_task

Spec == Init /\ [][Next]_vars

\* choreo_init starts the task and nothing stops it.
FairSpec == Spec /\ WF_vars(cho_task)

--------------------------------------------------------------------------------
(* What a text asks for, read without the bytes.                           *)

Asked(t) == Actions(t)
\* Where an action comes in the dance: by frame, then as the text has it.
Rank(actions, i) ==
    1 + Cardinality({j \in DOMAIN actions : \/ actions[j].frame < actions[i].frame
                                            \/ actions[j].frame = actions[i].frame /\ j < i})
InOrder(actions) == [k \in DOMAIN actions |->
                        actions[CHOOSE i \in DOMAIN actions : Rank(actions, i) = k]]

Within(x, y, d) == x - y <= d /\ y - x <= d

\* A step is at the moment of its frame, to half a unit of the delays.
OnTime(step, action, fps) ==
    Within(step.t * fps, 1000 * action.frame, 5 * frame_dur_10ms(fps) * fps)

\* An ear goes within a hole and a half of its angle, around the turn.
TurnedTo(hole, angle) ==
    \E turn \in {0, 1} : Within(2 * 17 * angle, 2 * 360 * (hole + 17 * turn), 3 * 360)

DoneAs(step, action) ==
    LET a == action.args
    IN CASE action.word = Led -> /\ step.kind = "led" /\ step.a = 4 - a[1]
                                 /\ step.b = Rgb(a[2], a[3], a[4])
         [] action.word = Motor -> /\ step.kind = "ear" /\ step.a = a[1]
                                   /\ TurnedTo(step.b, a[2])
         [] action.word = Palette -> /\ step.kind = "led" /\ step.a = 4 - a[1]
                                     /\ step.b = Palettes[a[2] + 1]

--------------------------------------------------------------------------------
\* Every variable keeps its type: whatever a file holds, the ears are sent to
\* one of their holes and the leds to a colour.
TypeOK ==
    /\ \A k \in DOMAIN cho_steps : cho_steps[k].t \in Nat
    /\ elapsed \in Nat /\ plays \in 0 .. 2 /\ breathing \in BOOLEAN
    /\ leds \in [LedNames -> Colours] /\ ears \in [Ears -> Holes]

\* What the rabbit plays of a text is what the text asks for, action by action:
\* in the order of the frames, then of the text; each on time, whatever was
\* rounded before it; the right led in its colour, the right ear to its angle.
\* It is all of it, or as much as the parser takes.
PlayedAsAsked ==
    text # NoText =>
        LET asked == InOrder(Asked(text))
        IN \A k \in DOMAIN played :
              \/ /\ k \in DOMAIN asked
                 /\ OnTime(played[k], asked[k], text[1]) /\ DoneAs(played[k], asked[k])
              \/ /\ played[k].kind = "end" /\ k = Len(played)
                 /\ k - 1 \in {Len(asked), CHOR_MAX_STEPS}

\* A rabbit that plays nothing breathes, its nose and body dark, whatever scores
\* replaced one another, and one that plays does not breathe over its dance.
IdleLooksIdle ==
    /\ breathing <=> cho_steps = <<>>
    /\ breathing => \A l \in LedNames \ {BASE} : leds[l] = 0

\* Every dance ends: the rabbit comes back to breathing, late passes or not.
EveryDanceEnds == []<>breathing
================================================================================
