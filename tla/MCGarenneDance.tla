---------------------------- MODULE MCGarenneDance ----------------------------
(* Choreographies for TLC: one action of every kind at every rate, two and  *)
(* three of them on frames that meet, follow and lie too far apart, texts   *)
(* that are not choreographies, and every file of a few bytes.              *)
EXTENDS GarenneDance

CONSTANT Other

Rates == {1, 3, 8, 10, 30, 60, 100}
Frames == {0, 1, 2, 7, 255, 300}

LedText(l) == <<Led, l, 255, 1, 2>>
MotorText(m, angle) == <<Motor, m, angle, 9, 0>>
PaletteText(i) == <<Palette, 2, i>>
One == {LedText(l) : l \in 0 .. 4} \cup {PaletteText(i) : i \in {0, 3, 7}}
       \cup {MotorText(m, angle) : m \in {0, 1}, angle \in {0, 17, 89, 180, 359, 360}}
Few == {LedText(1), MotorText(1, 90), PaletteText(3)}

Wrong == {<<>>, <<10>>, <<0, 0>> \o LedText(0), <<101, 0>> \o LedText(0),
          <<Other, 0>> \o LedText(0), <<10, 0, Other, 1>>, <<10, 0, Led, 5, 1, 1, 1>>,
          <<10, 0, Led, 0, 1, 1>>, <<10, 0, Motor, 0, 361, 0, 0>>, <<10, 0, Palette, 0, 8>>}

MCTexts ==
    {<<fps, f>> \o a : fps \in Rates, f \in Frames, a \in One}
    \cup {<<fps, f>> \o a \o <<g>> \o b : fps \in Rates, f, g \in Frames, a, b \in Few}
    \cup {<<fps, f>> \o a \o <<g>> \o b \o <<h>> \o LedText(0) :
             fps \in {10, 60}, f, g, h \in {0, 1, 2}, a, b \in Few}
    \cup {<<10, 0>> \o LedText(0) \o <<1>> \o LedText(1) \o <<2>> \o LedText(2)
             \o <<3>> \o LedText(3)}
    \cup Wrong

MCEncores == {<<10, 0>> \o LedText(1) \o <<2>> \o MotorText(1, 90)}

Codes == {0, 1, 3, 7, 8, 9, 10, 14, 16, 17, 18, 20}
MCFiles == {<<0, 0, 0, 0, 0, 1, 2, 3>> \o <<a, b, c, d, e>> :
               a \in Codes, b, c, d \in {0, 3, 10, 17}, e \in {0, 25}}

\* The size of their files fits, as the theorems ask.
ASSUME MCFilesFit == FilesFit
================================================================================
