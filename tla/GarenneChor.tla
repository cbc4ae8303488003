------------------------------ MODULE GarenneChor ------------------------------
(***************************************************************************)
(* chor_parse (garenne/chor.mtl): the bytes of a .chor file to the steps   *)
(* of a score. Lenient: what is unknown or cut short ends the parse, and   *)
(* what was understood until then plays.                                   *)
(***************************************************************************)
EXTENDS Integers, Sequences, SequencesExt

CONSTANT CHOR_MAX_STEPS

ASSUME ChorAssumption == CHOR_MAX_STEPS \in Nat \ {0}

Palettes == <<8150271, 16711680, 52224, 255, 16763904, 65535, 16711935, 0>>

Rgb(r, g, b) == r * 65536 + g * 256 + b
\* Chor led byte to hardware led, clamped.
chor_led(b) == IF b > 4 THEN 0 ELSE 4 - b

\* Mutant: the position is rounded up.
chor_posUp(p) == (p * 17 + 19) \div 20

\* Twentieths of a turn to the seventeen holes, rounded.
chor_pos(p) == (p * 17 + 10) \div 20

\* A step: its moment in ms, LED or EAR or END, which one, and its colour or hole.
Step(t, kind, a, b) == [t |-> t, kind |-> kind, a |-> a, b |-> b]
LedStep(t, led, rgb) == Step(t, "led", led, rgb)
EarStep(t, ear, p) == Step(t, "ear", ear % 2, chor_pos(p))
EndStep(t) == Step(t, "end", 0, 0)

\* The arguments a command has, wherever the file ends.
Arity(code) == CASE code = 1 -> 1
                 [] code = 7 -> 6
                 [] code \in {8, 9, 18} -> 3
                 [] code = 10 -> 1
                 [] code \in {14, 17, 20} -> 2
                 [] OTHER -> 0
\* Those it needs to be understood.
Needed(code) == IF code = 7 THEN 4 ELSE IF code = 8 THEN 2 ELSE Arity(code)

Known == {1, 7, 8, 9, 10, 14, 16, 17, 18, 19, 20}

\* Where a command leaves the ears: in twentieths, for the relative moves.
MovedEars(code, x, ears) ==
    IF code \notin {8, 17} THEN ears
    ELSE [ears EXCEPT ![IF x[1] = 0 THEN 0 ELSE 1] =
             IF code = 8 THEN x[2] % 20 ELSE (@ + x[2]) % 20]

\* The steps of one command.
Steps(code, x, t, ears) ==
    CASE code = 7 -> <<LedStep(t, chor_led(x[1]), Rgb(x[2], x[3], x[4]))>>
      [] code \in {8, 17} -> <<EarStep(t, x[1], ears[IF x[1] = 0 THEN 0 ELSE 1])>>
      [] code = 9 -> [l \in 1 .. 5 |-> LedStep(t, l - 1, Rgb(x[1], x[2], x[3]))]
      [] code = 10 -> <<LedStep(t, chor_led(x[1]), 0)>>
      [] code = 14 -> <<LedStep(t, chor_led(x[1]), Palettes[(x[2] % 8) + 1])>>
      [] OTHER -> <<>>

\* The command at a position, with what its arguments do if they are all there,
\* and the delay behind it.
Command(data, s) ==
    LET code == data[s.i]
        x == SubSeq(data, s.i + 1, Len(data))
        there == Len(x) >= Needed(code)
        ears == IF there THEN MovedEars(code, x, s.ears) ELSE s.ears
        scale == IF code = 1 /\ there THEN 10 * x[1] ELSE s.scale
        next == s.i + 1 + Arity(code)
    IN [s EXCEPT !.stop = code \notin Known,
                 !.ears = ears,
                 !.scale = scale,
                 !.steps = IF there THEN @ \o Steps(code, x, s.t, ears) ELSE @,
                 !.t = IF code \in Known /\ next <= Len(data) THEN @ + data[next] * scale ELSE @,
                 !.i = IF code \in Known /\ next <= Len(data) THEN next + 1 ELSE next]

Start == [i |-> 6, t |-> 0, scale |-> 0, ears |-> [e \in {0, 1} |-> 0],
          steps |-> <<>>, stop |-> FALSE]

\* Mutant: nothing closes the score.
ClosedNever(s) == s.steps

\* A score ends 400 ms after what was parsed.
Closed(s) == Append(s.steps, EndStep(s.t + 400))

\* The score, closed by its end, or the empty one if there is nothing to play.
\* Every pass of the loop takes a byte at least.
chor_parse(data) ==
    LET pass[k \in 0 .. Len(data)] ==
            IF k = 0 THEN Start
            ELSE LET s == pass[k - 1]
                 IN IF s.stop \/ s.i > Len(data) \/ Len(s.steps) >= CHOR_MAX_STEPS
                    THEN s ELSE Command(data, s)
        done == pass[Len(data)]
    IN IF Len(data) < 7 \/ done.steps = <<>> THEN <<>>
       ELSE Closed(done)
================================================================================
