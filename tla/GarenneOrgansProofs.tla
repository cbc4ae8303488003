------------------------- MODULE GarenneOrgansProofs --------------------------
(***************************************************************************)
(* Proofs about the organs: the text of a choreography and its file, the   *)
(* score the rabbit makes of it, the player that runs it, and an ear.      *)
(*                                                                         *)
(* What chor_parse makes of a file is proved for every file, though the    *)
(* parser is a recursive function of the number of its passes. There is no *)
(* induction theorem to cite for it; what serves instead is the least      *)
(* number of passes that would go wrong (LeastIn). It shows that the       *)
(* function has the values its definition says (LoopRuns, ParseLoops), and *)
(* then that every pass keeps what the parser has gathered well formed     *)
(* (LoopsKeep). The player's invariant rests on that: what is left of a    *)
(* score is moves and its end, so that it goes idle with the end alone.    *)
(*                                                                         *)
(* The file of a text is followed through the encoder in the same way: the *)
(* tokens it reads (CanRead), the actions it puts in order (CanOrder), the *)
(* bytes it lays one behind the other (FlattenIs, DanceIsLaid). Of such a  *)
(* file, every pass of the parser takes one action, at its moment          *)
(* (ActionPass, DancePasses), so that the score is what the text asks for  *)
(* (ReadAsAsked); and what is fired of it and what is left are the score.  *)
(*                                                                         *)
(* That only a jammed ear is given up rests on the time to its next hole:  *)
(* counted from the last, never more than the widest gap. A wait beyond    *)
(* the stall is then one of an ear that is jammed. That an ear is where it *)
(* believes to be rests on the account of its calibration: how far a pass  *)
(* lags behind the hole it sees (Lag), and what the gaps timed so far      *)
(* leave of the average at the least (Paced).                              *)
(***************************************************************************)
EXTENDS GarenneDance, GarenneEars, TLAPS, SequenceTheorems, FiniteSetTheorems, WellFoundedInduction

Byte == 0 .. 255
LedMove == [t : Nat, kind : {"led"}, a : LedNames, b : Colours]
EarMove == [t : Nat, kind : {"ear"}, a : Ears, b : Holes]
Move == LedMove \cup EarMove
Ending == [t : Nat, kind : {"end"}, a : {0}, b : {0}]

\* The moments of a score never go back.
Forward(score) == \A j, k \in DOMAIN score : j <= k => score[j].t <= score[k].t

\* What the parser has gathered, wherever it is in the file.
Parsing(s) ==
    /\ s \in [i : Nat \ {0}, t : Nat, scale : Nat, ears : [{0, 1} -> 0 .. 19],
              steps : Seq(Move), stop : BOOLEAN]
    /\ Len(s.steps) <= CHOR_MAX_STEPS + 4
    /\ Forward(s.steps) /\ \A k \in DOMAIN s.steps : s.steps[k].t <= s.t

--------------------------------------------------------------------------------
\* A set of numbers that is not empty has a least one.
LEMMA LeastIn ==
    ASSUME NEW S \in SUBSET Nat, S # {}
    PROVE  \E i \in S : \A j \in S : i <= j
<1>. DEFINE Less == {p \in Nat \X Nat : p[1] < p[2]}
<1>1. IsWellFoundedOn(Less, Nat)
  BY NatLessThanWellFounded DEF OpToRel
<1>2. PICK i \in S : \A j \in S : <<j, i>> \notin Less
  <2>. HIDE DEF Less
  <2>. QED  BY <1>1, WFMin
<1>3. ASSUME NEW j \in S PROVE i <= j
  <2>1. ~(j < i)
    BY <1>2
  <2>. QED  BY <2>1
<1>. QED  BY <1>2, <1>3

--------------------------------------------------------------------------------
(* The parser's loop.                                                      *)

\* A pass of the loop.
Once(data, s) ==
    IF s.stop \/ s.i > Len(data) \/ Len(s.steps) >= CHOR_MAX_STEPS THEN s ELSE Command(data, s)

\* The passes of the loop, and what each leaves to the next.
Loops(data, n, g) == g = [k \in 0 .. n |-> IF k = 0 THEN Start ELSE Once(data, g[k - 1])]

\* However many passes, there is what each leaves to the next.
LEMMA LoopRuns ==
    ASSUME NEW data, NEW n \in Nat
    PROVE  \E g : Loops(data, n, g)
<1>. DEFINE Bad == {m \in Nat : \A g : ~Loops(data, m, g)}
<1>1. SUFFICES ASSUME Bad # {} PROVE FALSE
  OBVIOUS
<1>2. PICK m \in Bad : \A j \in Bad : m <= j
  <2>1. Bad \in SUBSET Nat
    OBVIOUS
  <2>. HIDE DEF Bad
  <2>. QED  BY <1>1, <2>1, LeastIn
<1>3. CASE m = 0
  <2>. DEFINE h == [k \in 0 .. 0 |-> Start]
  <2>1. h = [k \in 0 .. 0 |-> IF k = 0 THEN Start ELSE Once(data, h[k - 1])]
    OBVIOUS
  <2>. HIDE DEF h
  <2>2. Loops(data, 0, h)
    BY <2>1 DEF Loops
  <2>. QED  BY <1>3, <2>2
<1>4. CASE m # 0
  <2>1. m \in Nat /\ m - 1 \in Nat /\ m - 1 \notin Bad
    BY <1>2, <1>4
  <2>2. PICK g : Loops(data, m - 1, g)
    BY <2>1
  <2>3. \A k \in 0 .. m - 1 : g[k] = IF k = 0 THEN Start ELSE Once(data, g[k - 1])
    BY <2>2 DEF Loops
  <2>. DEFINE h == [k \in 0 .. m |-> IF k = m THEN Once(data, g[m - 1]) ELSE g[k]]
  <2>4. ASSUME NEW k \in 0 .. m
        PROVE  h[k] = IF k = 0 THEN Start ELSE Once(data, h[k - 1])
    <3>1. CASE k = 0
      BY <1>4, <2>1, <2>3, <3>1
    <3>2. CASE k = m
      <4>1. h[m] = Once(data, g[m - 1]) /\ h[m - 1] = g[m - 1]
        BY <2>1
      <4>. QED  BY <1>4, <3>2, <4>1
    <3>3. CASE k # 0 /\ k # m
      <4>1. k \in 0 .. m - 1 /\ k - 1 \in 0 .. m /\ k - 1 # m
        BY <2>1, <3>3
      <4>2. h[k] = g[k] /\ h[k - 1] = g[k - 1]
        BY <3>3, <4>1
      <4>. QED  BY <2>3, <3>3, <4>1, <4>2
    <3>. QED  BY <3>1, <3>2, <3>3
  <2>5. Loops(data, m, h)
    <3>1. h = [k \in 0 .. m |-> h[k]]
      OBVIOUS
    <3>. HIDE DEF h
    <3>2. [k \in 0 .. m |-> h[k]] = [k \in 0 .. m |-> IF k = 0 THEN Start ELSE Once(data, h[k - 1])]
      BY <2>4, Zenon
    <3>. QED  BY <3>1, <3>2 DEF Loops
  <2>. HIDE DEF h
  <2>. QED  BY <2>5
<1>. QED  BY <1>3, <1>4

\* What the parser leaves behind has gone through its passes.
LEMMA ParseLoops ==
    ASSUME NEW data, Len(data) \in Nat
    PROVE  \E g : /\ Loops(data, Len(data), g)
                  /\ chor_parse(data) = IF Len(data) < 7 \/ g[Len(data)].steps = <<>> THEN <<>>
                                        ELSE Closed(g[Len(data)])
<1>. DEFINE pass == CHOOSE g : g = [k \in 0 .. Len(data) |->
                        IF k = 0 THEN Start
                        ELSE IF g[k - 1].stop \/ g[k - 1].i > Len(data)
                                 \/ Len(g[k - 1].steps) >= CHOR_MAX_STEPS
                             THEN g[k - 1] ELSE Command(data, g[k - 1])]
<1>1. chor_parse(data) = IF Len(data) < 7 \/ pass[Len(data)].steps = <<>> THEN <<>>
                         ELSE Closed(pass[Len(data)])
  BY DEF chor_parse
<1>2. PICK g : Loops(data, Len(data), g)
  BY LoopRuns
<1>3. Loops(data, Len(data), pass)
  BY <1>2 DEF Loops, Once
<1>. HIDE DEF pass
<1>. QED  BY <1>1, <1>3

--------------------------------------------------------------------------------
(* One command.                                                            *)

\* Twentieths of a turn are one of the holes.
LEMMA PosIsAHole ==
    ASSUME NEW p \in 0 .. 19 PROVE chor_pos(p) \in Holes
<1>1. p * 17 + 10 \in 0 .. 333
  OBVIOUS
<1>2. \A v \in 0 .. 333 : v \div 20 \in 0 .. 16
  OBVIOUS
<1>. QED  BY <1>1, <1>2 DEF chor_pos, Holes

\* What a colour is, as a number.
LEMMA ColourIs == \A n : n \in Colours <=> n \in Int /\ 0 <= n /\ n <= 16777215
<1>1. \A hi \in Int : \A n : n \in 0 .. hi <=> n \in Int /\ 0 <= n /\ n <= hi
  OBVIOUS
<1>2. Rgb(255, 255, 255) \in Int
  BY DEF Rgb
<1>3. \A n : n \in Colours <=> n \in Int /\ 0 <= n /\ n <= Rgb(255, 255, 255)
  BY Zenon, <1>1, <1>2 DEF Colours
<1>4. Rgb(255, 255, 255) = 16777215
  BY SMT DEF Rgb
<1>. QED  BY SMT, <1>3, <1>4

\* Three bytes are a colour, and so is every entry of the palette.
LEMMA BytesAreColours ==
    /\ \A r, g, b \in Byte : Rgb(r, g, b) \in Colours
    /\ \A b \in Byte : Palettes[(b % 8) + 1] \in Colours /\ chor_led(b) \in LedNames
<1>1. \A r, g, b \in Byte : Rgb(r, g, b) \in Colours
  <2>1. \A r, g, b \in Byte : Rgb(r, g, b) \in Int /\ 0 <= Rgb(r, g, b) /\ Rgb(r, g, b) <= 16777215
    BY SMT DEF Byte, Rgb
  <2>. QED  BY <2>1, ColourIs
<1>2. ASSUME NEW b \in Byte PROVE Palettes[(b % 8) + 1] \in Colours /\ chor_led(b) \in LedNames
  <2>1. (b % 8) + 1 \in 1 .. 8
    BY DEF Byte
  <2>2. /\ Palettes[1] \in Colours /\ Palettes[2] \in Colours /\ Palettes[3] \in Colours
        /\ Palettes[4] \in Colours /\ Palettes[5] \in Colours /\ Palettes[6] \in Colours
        /\ Palettes[7] \in Colours /\ Palettes[8] \in Colours
    BY SMT, ColourIs DEF Palettes
  <2>3. chor_led(b) \in LedNames
    BY DEF chor_led, LedNames, Byte
  <2>. QED  BY <2>1, <2>2, <2>3
<1>. QED  BY <1>1, <1>2

\* What the commands that move something need to be understood.
LEMMA ArgumentsNeeded ==
    /\ Needed(7) = 4 /\ Needed(8) = 2 /\ Needed(9) = 3
    /\ Needed(1) = 1 /\ Needed(10) = 1 /\ Needed(14) = 2 /\ Needed(17) = 2
<1>1. /\ 8 # 7 /\ 1 # 7 /\ 1 # 8 /\ 1 # 9 /\ 1 # 10 /\ 1 # 14 /\ 1 # 17 /\ 1 # 18 /\ 1 # 20
      /\ 9 # 1 /\ 9 # 7 /\ 9 # 8 /\ 9 # 10 /\ 9 # 14 /\ 9 # 17 /\ 9 # 18 /\ 9 # 20
      /\ 10 # 1 /\ 10 # 7 /\ 10 # 8 /\ 10 # 9 /\ 10 # 14 /\ 10 # 17 /\ 10 # 18 /\ 10 # 20
      /\ 14 # 1 /\ 14 # 7 /\ 14 # 8 /\ 14 # 9 /\ 14 # 10 /\ 14 # 18
      /\ 17 # 1 /\ 17 # 7 /\ 17 # 8 /\ 17 # 9 /\ 17 # 10 /\ 17 # 18
  OBVIOUS
<1>2. Needed(7) = 4 /\ Needed(8) = 2
  BY <1>1, Zenon DEF Needed
<1>3. Arity(9) = 3
  BY <1>1, Zenon DEF Arity
<1>4. Arity(1) = 1 /\ Arity(10) = 1
  BY <1>1, Zenon DEF Arity
<1>5. Arity(14) = 2 /\ Arity(17) = 2
  BY <1>1, Zenon DEF Arity
<1>6. /\ Needed(1) = Arity(1) /\ Needed(9) = Arity(9) /\ Needed(10) = Arity(10)
      /\ Needed(14) = Arity(14) /\ Needed(17) = Arity(17)
  BY <1>1, Zenon DEF Needed
<1>. QED  BY <1>2, <1>3, <1>4, <1>5, <1>6

\* A function over the first numbers is a sequence.
LEMMA FunctionIsSeq ==
    ASSUME NEW S, NEW n \in Nat, NEW f \in [1 .. n -> S] PROVE f \in Seq(S) /\ Len(f) = n
<1>1. f \in Seq(S)
  BY SeqDef
<1>2. Len(f) \in Nat /\ DOMAIN f = 1 .. Len(f) /\ DOMAIN f = 1 .. n
  BY <1>1, LenProperties
<1>3. Len(f) = n
  BY ONLY <1>2, n \in Nat
<1>. QED  BY <1>1, <1>3

\* One step is a sequence of moves.
LEMMA OneMove ==
    ASSUME NEW m \in Move PROVE <<m>> \in Seq(Move) /\ Len(<<m>>) = 1 /\ <<m>>[1] = m
OBVIOUS

\* Where a command leaves the ears.
LEMMA EarsMoved ==
    ASSUME NEW code \in Byte, NEW x \in Seq(Byte), Len(x) >= Needed(code),
           NEW was \in [{0, 1} -> 0 .. 19]
    PROVE  MovedEars(code, x, was) \in [{0, 1} -> 0 .. 19]
<1>1. CASE code \notin {8, 17}
  BY <1>1 DEF MovedEars
<1>2. CASE code \in {8, 17}
  <2>1. Len(x) \in Nat /\ Len(x) >= 2
    BY <1>2, LenProperties, ArgumentsNeeded
  <2>2. x[2] \in Byte
    BY <2>1, ElementOfSeq
  <2>. DEFINE e == IF x[1] = 0 THEN 0 ELSE 1
  <2>3. e \in {0, 1} /\ was[e] \in 0 .. 19
    OBVIOUS
  <2>4. x[2] % 20 \in 0 .. 19 /\ (was[e] + x[2]) % 20 \in 0 .. 19
    <3>1. \A u \in 0 .. 19, v \in Byte : v % 20 \in 0 .. 19 /\ (u + v) % 20 \in 0 .. 19
      BY DEF Byte
    <3>. QED  BY <2>2, <2>3, <3>1, Zenon
  <2>5. MovedEars(code, x, was) =
            [was EXCEPT ![e] = IF code = 8 THEN x[2] % 20 ELSE (was[e] + x[2]) % 20]
    BY <1>2 DEF MovedEars
  <2>. HIDE DEF e
  <2>. QED  BY <2>3, <2>4, <2>5
<1>. QED  BY <1>1, <1>2

\* What a command of a file adds to the score: five moves at most, at its moment.
LEMMA StepsAre ==
    ASSUME NEW code \in Byte, NEW x \in Seq(Byte), Len(x) >= Needed(code), NEW t \in Nat,
           NEW to \in [{0, 1} -> 0 .. 19]
    PROVE  /\ Steps(code, x, t, to) \in Seq(Move)
           /\ Len(Steps(code, x, t, to)) <= 5
           /\ \A k \in DOMAIN Steps(code, x, t, to) : Steps(code, x, t, to)[k].t = t
<1>. DEFINE e == IF x[1] = 0 THEN 0 ELSE 1
<1>0. Len(x) \in Nat
  BY LenProperties
<1>1. CASE code = 7
  <2>1. x[1] \in Byte /\ x[2] \in Byte /\ x[3] \in Byte /\ x[4] \in Byte
    BY <1>0, <1>1, ElementOfSeq, ArgumentsNeeded
  <2>2. LedStep(t, chor_led(x[1]), Rgb(x[2], x[3], x[4])) \in Move
    BY <2>1, BytesAreColours DEF LedStep, Step, Move, LedMove
  <2>3. Steps(code, x, t, to) = <<LedStep(t, chor_led(x[1]), Rgb(x[2], x[3], x[4]))>>
    BY <1>1 DEF Steps
  <2>4. LedStep(t, chor_led(x[1]), Rgb(x[2], x[3], x[4])).t = t
    BY DEF LedStep, Step
  <2>. QED  BY <2>2, <2>3, <2>4, OneMove
<1>2. CASE code \in {8, 17}
  <2>1. x[1] \in Byte
    BY <1>0, <1>2, ElementOfSeq, ArgumentsNeeded
  <2>2. e \in {0, 1} /\ chor_pos(to[e]) \in Holes /\ x[1] % 2 \in Ears
    <3>1. e \in {0, 1} /\ to[e] \in 0 .. 19
      OBVIOUS
    <3>2. \A v \in Byte : v % 2 \in Ears
      BY DEF Byte, Ears
    <3>. QED  BY <2>1, <3>1, <3>2, PosIsAHole, Zenon
  <2>3. Steps(code, x, t, to) = <<EarStep(t, x[1], to[e])>>
    <3>1. CASE code = 8
      BY <3>1 DEF Steps
    <3>2. CASE code = 17
      BY <3>2 DEF Steps
    <3>. QED  BY <1>2, <3>1, <3>2
  <2>. HIDE DEF e
  <2>4. EarStep(t, x[1], to[e]) \in Move /\ EarStep(t, x[1], to[e]).t = t
    BY <2>2 DEF EarStep, Step, Move, EarMove
  <2>. QED  BY <2>3, <2>4, OneMove
<1>3. CASE code = 9
  <2>1. x[1] \in Byte /\ x[2] \in Byte /\ x[3] \in Byte
    BY <1>0, <1>3, ElementOfSeq, ArgumentsNeeded
  <2>. DEFINE c == Rgb(x[1], x[2], x[3])
              s == [l \in 1 .. 5 |-> LedStep(t, l - 1, c)]
  <2>2. c \in Colours
    BY <2>1, BytesAreColours
  <2>3. Steps(code, x, t, to) = s
    BY <1>3 DEF Steps
  <2>. HIDE DEF c
  <2>4. \A l \in 1 .. 5 : LedStep(t, l - 1, c) \in Move /\ LedStep(t, l - 1, c).t = t
    BY <2>2 DEF LedStep, Step, Move, LedMove, LedNames
  <2>5. s \in [1 .. 5 -> Move] /\ \A l \in 1 .. 5 : s[l].t = t
    BY <2>4
  <2>. HIDE DEF s
  <2>6. s \in Seq(Move) /\ Len(s) = 5 /\ DOMAIN s = 1 .. 5
    <3>1. DOMAIN s = 1 .. 5 /\ s \in Seq(Move)
      BY <2>5, FunctionIsSeq
    <3>2. Len(s) \in Nat /\ DOMAIN s = 1 .. Len(s)
      BY <3>1, LenProperties
    <3>3. Len(s) = 5
      BY ONLY <3>1, <3>2
    <3>. QED  BY <3>1, <3>3
  <2>. QED  BY <2>3, <2>5, <2>6
<1>4. CASE code \in {10, 14}
  <2>. DEFINE c == IF code = 10 THEN 0 ELSE Palettes[(x[2] % 8) + 1]
  <2>1. x[1] \in Byte /\ (code = 14 => x[2] \in Byte)
    BY <1>0, <1>4, ElementOfSeq, ArgumentsNeeded
  <2>2. c \in Colours
    <3>1. CASE code = 10
      <4>1. 0 \in Colours
        BY SMT, ColourIs
      <4>2. c = 0
        BY <3>1
      <4>. QED  BY <4>1, <4>2, Zenon
    <3>2. CASE code = 14
      <4>1. c = Palettes[(x[2] % 8) + 1] /\ x[2] \in Byte
        BY <2>1, <3>2
      <4>. QED  BY <4>1, BytesAreColours, Zenon
    <3>. QED  BY <1>4, <3>1, <3>2
  <2>3. chor_led(x[1]) \in LedNames
    BY <2>1, BytesAreColours
  <2>4. Steps(code, x, t, to) = <<LedStep(t, chor_led(x[1]), c)>>
    <3>1. CASE code = 10
      BY <3>1 DEF Steps
    <3>2. CASE code = 14
      BY <3>2 DEF Steps
    <3>. QED  BY <1>4, <3>1, <3>2
  <2>. HIDE DEF c
  <2>5. LedStep(t, chor_led(x[1]), c) \in Move /\ LedStep(t, chor_led(x[1]), c).t = t
    BY <2>2, <2>3 DEF LedStep, Step, Move, LedMove
  <2>. QED  BY <2>4, <2>5, OneMove
<1>5. CASE code \notin {7, 8, 9, 10, 14, 17}
  <2>1. Steps(code, x, t, to) = <<>>
    BY <1>5 DEF Steps
  <2>. QED  BY <2>1
<1>. QED  BY <1>1, <1>2, <1>3, <1>4, <1>5

\* Moves at the moment the parser has come to leave the score in order.
LEMMA StillForward ==
    ASSUME NEW s \in Seq(Move), NEW more \in Seq(Move), NEW t \in Nat,
           Forward(s), \A k \in DOMAIN s : s[k].t <= t, \A k \in DOMAIN more : more[k].t = t
    PROVE  /\ s \o more \in Seq(Move) /\ Len(s \o more) = Len(s) + Len(more)
           /\ Forward(s \o more) /\ \A k \in DOMAIN (s \o more) : (s \o more)[k].t <= t
<1>. DEFINE all == s \o more
            L == Len(s)
            M == Len(more)
<1>1. /\ L \in Nat /\ M \in Nat /\ DOMAIN s = 1 .. L /\ DOMAIN more = 1 .. M
  BY LenProperties
<1>2. /\ all \in Seq(Move) /\ Len(all) = L + M
      /\ \A k \in 1 .. L + M : all[k] = IF k <= L THEN s[k] ELSE more[k - L]
  BY ConcatProperties
<1>3. DOMAIN all = 1 .. L + M
  BY <1>2, LenProperties
<1>. HIDE DEF all, L, M
<1>4. ASSUME NEW k \in 1 .. L + M
      PROVE  /\ k <= L => k \in 1 .. L /\ all[k] = s[k]
             /\ ~(k <= L) => all[k].t = t
  <2>1. CASE k <= L
    BY <1>1, <1>2, <2>1
  <2>2. CASE ~(k <= L)
    <3>1. k - L \in 1 .. M
      BY <1>1, <2>2
    <3>. QED  BY <1>1, <1>2, <2>2, <3>1
  <2>. QED  BY <2>1, <2>2
<1>5. ASSUME NEW k \in 1 .. L + M PROVE all[k].t <= t /\ all[k].t \in Nat
  <2>1. CASE k <= L
    <3>1. s[k] \in Move
      BY <1>1, <1>4, <2>1, ElementOfSeq DEF L
    <3>. QED  BY <1>1, <1>4, <2>1, <3>1 DEF Move, LedMove, EarMove
  <2>. QED  BY <1>4, <2>1
<1>6. ASSUME NEW j \in 1 .. L + M, NEW k \in 1 .. L + M, j <= k
      PROVE  all[j].t <= all[k].t
  <2>1. CASE k <= L
    <3>1. j <= L
      BY <1>1, <1>6, <2>1
    <3>. QED  BY <1>1, <1>4, <1>6, <2>1, <3>1 DEF Forward
  <2>. QED  BY <1>4, <1>5, <2>1
<1>. QED  BY <1>2, <1>3, <1>5, <1>6 DEF Forward, all, L, M

\* A command has so many arguments.
LEMMA ArityIs == \A code : Arity(code) \in Nat
<1>1. 0 \in Nat /\ 1 \in Nat /\ 2 \in Nat /\ 3 \in Nat /\ 6 \in Nat
  OBVIOUS
<1>. QED  BY <1>1, Zenon DEF Arity

\* One command keeps what the parser has gathered in order.
LEMMA CommandKeeps ==
    ASSUME NEW data \in Seq(Byte), NEW s, Parsing(s), s.i <= Len(data),
           Len(s.steps) < CHOR_MAX_STEPS
    PROVE  Parsing(Command(data, s))
<1>. DEFINE code == data[s.i]
            x == SubSeq(data, s.i + 1, Len(data))
            there == Len(x) >= Needed(code)
            to == IF there THEN MovedEars(code, x, s.ears) ELSE s.ears
            scale == IF code = 1 /\ there THEN 10 * x[1] ELSE s.scale
            beyond == s.i + 1 + Arity(code)
            more == IF there THEN Steps(code, x, s.t, to) ELSE <<>>
            n == Command(data, s)
<1>1. /\ s.i \in Nat \ {0} /\ s.t \in Nat /\ s.scale \in Nat /\ s.ears \in [{0, 1} -> 0 .. 19]
      /\ s.steps \in Seq(Move) /\ s.stop \in BOOLEAN /\ Len(data) \in Nat /\ CHOR_MAX_STEPS \in Nat
      /\ s \in [i : Nat \ {0}, t : Nat, scale : Nat, ears : [{0, 1} -> 0 .. 19],
                steps : Seq(Move), stop : BOOLEAN]
  BY LenProperties, ChorAssumption DEF Parsing
<1>2. code \in Byte /\ x \in Seq(Byte) /\ Len(x) \in Nat
  <2>1. \A k \in s.i + 1 .. Len(data) : data[k] \in Byte
    BY <1>1, ElementOfSeq
  <2>2. x \in Seq(Byte)
    BY <1>1, <2>1, SubSeqProperties
  <2>. QED  BY <1>1, <2>2, ElementOfSeq, LenProperties
<1>3. beyond \in Nat \ {0}
  BY <1>1, <1>2, ArityIs
<1>4. scale \in Nat
  <2>1. CASE code = 1 /\ there
    <3>1. x[1] \in Byte
      <4>1. Needed(code) = 1
        BY <2>1, ArgumentsNeeded, Zenon
      <4>2. Len(x) >= 1
        BY <2>1, <4>1
      <4>. HIDE DEF x
      <4>. QED  BY <1>2, <4>2, ElementOfSeq
    <3>2. scale = 10 * x[1]
      BY <2>1
    <3>3. \A u \in Byte : 10 * u \in Nat
      BY DEF Byte
    <3>. HIDE DEF scale, x
    <3>. QED  BY <3>1, <3>2, <3>3, Zenon
  <2>2. CASE ~(code = 1 /\ there)
    BY <1>1, <2>2
  <2>. HIDE DEF scale, there, code
  <2>. QED  BY <2>1, <2>2
<1>5. to \in [{0, 1} -> 0 .. 19]
  BY <1>1, <1>2, EarsMoved
<1>6. /\ more \in Seq(Move) /\ Len(more) <= 5 /\ Len(more) \in Nat
      /\ \A k \in DOMAIN more : more[k].t = s.t
  <2>1. CASE there
    <3>1. more = Steps(code, x, s.t, to)
      BY <2>1
    <3>2. there /\ code \in Byte /\ x \in Seq(Byte) /\ s.t \in Nat
      BY <1>1, <1>2, <2>1
    <3>. HIDE DEF code, x, to, more
    <3>3. /\ more \in Seq(Move) /\ Len(more) <= 5
          /\ \A k \in DOMAIN more : more[k].t = s.t
      BY <1>5, <3>1, <3>2, StepsAre
    <3>. QED  BY <3>3, LenProperties
  <2>2. CASE ~there
    <3>1. more = <<>>
      BY <2>2
    <3>. HIDE DEF more
    <3>. QED  BY <3>1, EmptySeq
  <2>. HIDE DEF more, there
  <2>. QED  BY <2>1, <2>2
<1>7. /\ s.steps \o more \in Seq(Move) /\ Len(s.steps \o more) = Len(s.steps) + Len(more)
      /\ Forward(s.steps \o more)
      /\ \A k \in DOMAIN (s.steps \o more) : (s.steps \o more)[k].t <= s.t
  <2>1. Forward(s.steps) /\ \A k \in DOMAIN s.steps : s.steps[k].t <= s.t
    BY DEF Parsing
  <2>. HIDE DEF more
  <2>. QED  BY <1>1, <1>6, <2>1, StillForward
<1>. DEFINE f == IF code \in Known /\ beyond <= Len(data) THEN beyond + 1 ELSE beyond
            e == IF code \in Known /\ beyond <= Len(data) THEN s.t + data[beyond] * scale ELSE s.t
            b == code \notin Known
            d == s.steps \o more
<1>8. n = [s EXCEPT !.stop = b, !.ears = to, !.scale = scale, !.steps = d, !.t = e, !.i = f]
  <2>1. n = [s EXCEPT !.stop = b, !.ears = to, !.scale = scale,
                      !.steps = IF there THEN s.steps \o Steps(code, x, s.t, to) ELSE s.steps,
                      !.t = e, !.i = f]
    BY DEF Command
  <2>2. s.steps \o <<>> = s.steps
    BY <1>1, ConcatEmptySeq
  <2>3. d = IF there THEN s.steps \o Steps(code, x, s.t, to) ELSE s.steps
    BY <2>2
  <2>. QED  BY <2>1, <2>3, Zenon
<1>. HIDE DEF to, scale, more, x
<1>9. f \in Nat \ {0} /\ e \in Nat /\ s.t <= e
  <2>1. CASE code \in Known /\ beyond <= Len(data)
    <3>1. data[beyond] \in Byte
      BY <1>1, <1>3, <2>1, ElementOfSeq
    <3>2. data[beyond] * scale \in Nat
      <4>1. \A u \in Byte, v \in Nat : u * v \in Nat
        BY DEF Byte
      <4>. QED  BY <1>4, <3>1, <4>1, Zenon
    <3>. HIDE DEF beyond
    <3>3. f = beyond + 1 /\ e = s.t + data[beyond] * scale
      BY <2>1
    <3>. QED  BY <1>1, <1>3, <3>2, <3>3
  <2>2. CASE ~(code \in Known /\ beyond <= Len(data))
    BY <1>1, <1>3, <2>2
  <2>. QED  BY <2>1, <2>2
<1>10. b \in BOOLEAN
  OBVIOUS
<1>. HIDE DEF n, beyond, code, b, d, e, f
<1>11. d \in Seq(Move) /\ Len(d) <= CHOR_MAX_STEPS + 4 /\ Forward(d)
  <2>1. Len(s.steps) \in Nat
    BY <1>1, LenProperties
  <2>2. d \in Seq(Move) /\ Len(d) = Len(s.steps) + Len(more) /\ Forward(d)
    BY <1>7 DEF d
  <2>. QED  BY <1>1, <1>6, <2>1, <2>2
<1>12. \A k \in DOMAIN d : d[k].t <= e
  <2>1. ASSUME NEW k \in DOMAIN d PROVE d[k].t <= e
    <3>1. d[k].t <= s.t
      BY <1>7 DEF d
    <3>2. d[k] \in Move
      BY <1>11, LenProperties, ElementOfSeq
    <3>3. d[k].t \in Nat
      BY <3>2 DEF Move, LedMove, EarMove
    <3>. QED  BY <1>1, <1>9, <3>1, <3>3
  <2>. QED  BY <2>1
<1>13. Parsing(n)
  <2>1. /\ n \in [i : Nat \ {0}, t : Nat, scale : Nat, ears : [{0, 1} -> 0 .. 19],
                  steps : Seq(Move), stop : BOOLEAN]
        /\ n.steps = d /\ n.t = e
    BY <1>1, <1>4, <1>5, <1>8, <1>9, <1>10, <1>11
  <2>. QED  BY <1>11, <1>12, <2>1 DEF Parsing
<1>. QED  BY <1>13 DEF n
\* So does a pass of the loop.
LEMMA OnceKeeps ==
    ASSUME NEW data \in Seq(Byte), NEW s, Parsing(s) PROVE Parsing(Once(data, s))
<1>1. CASE s.stop \/ s.i > Len(data) \/ Len(s.steps) >= CHOR_MAX_STEPS
  BY <1>1 DEF Once
<1>2. CASE ~(s.stop \/ s.i > Len(data) \/ Len(s.steps) >= CHOR_MAX_STEPS)
  <2>1. s.i \in Nat /\ Len(s.steps) \in Nat /\ Len(data) \in Nat /\ CHOR_MAX_STEPS \in Nat
    <3>1. s.i \in Nat /\ s.steps \in Seq(Move)
      BY DEF Parsing
    <3>. QED  BY <3>1, LenProperties, ChorAssumption
  <2>2. s.i <= Len(data) /\ Len(s.steps) < CHOR_MAX_STEPS
    BY <1>2, <2>1
  <2>3. Once(data, s) = Command(data, s)
    BY <1>2, Zenon DEF Once
  <2>. QED  BY <2>2, <2>3, CommandKeeps
<1>. QED  BY <1>1, <1>2

\* So does the start, which has gathered nothing.
LEMMA StartParses == Parsing(Start)
<1>1. <<>> \in Seq(Move) /\ Len(<<>>) = 0 /\ DOMAIN <<>> = {}
  BY EmptySeq
<1>2. Start \in [i : Nat \ {0}, t : Nat, scale : Nat, ears : [{0, 1} -> 0 .. 19],
                 steps : Seq(Move), stop : BOOLEAN]
  BY <1>1 DEF Start
<1>3. Start.steps = <<>>
  BY DEF Start
<1>. QED  BY <1>1, <1>2, <1>3, ChorAssumption DEF Parsing, Forward

\* All that the passes leave is in order.
LEMMA LoopsKeep ==
    ASSUME NEW data \in Seq(Byte), NEW n \in Nat, NEW g, Loops(data, n, g)
    PROVE  \A k \in 0 .. n : Parsing(g[k])
<1>. DEFINE Bad == {k \in 0 .. n : ~Parsing(g[k])}
<1>1. \A k \in 0 .. n : g[k] = IF k = 0 THEN Start ELSE Once(data, g[k - 1])
  BY DEF Loops
<1>2. SUFFICES ASSUME Bad # {} PROVE FALSE
  OBVIOUS
<1>3. PICK m \in Bad : \A j \in Bad : m <= j
  <2>1. Bad \in SUBSET Nat
    OBVIOUS
  <2>. HIDE DEF Bad
  <2>. QED  BY <1>2, <2>1, LeastIn
<1>4. CASE m = 0
  BY <1>1, <1>3, <1>4, StartParses
<1>5. CASE m # 0
  <2>1. m - 1 \in 0 .. n /\ m - 1 \notin Bad
    BY <1>3, <1>5
  <2>2. Parsing(g[m - 1])
    BY <2>1
  <2>. QED  BY <1>1, <1>3, <1>5, <2>2, OnceKeeps
<1>. QED  BY <1>4, <1>5

--------------------------------------------------------------------------------
(* What comes out.                                                         *)

AnyStep == Move \cup Ending

\* What can be played: moves, as many as the parser takes and a command more, in
\* the order of their moments, and one end behind them.
IsScore(score) ==
    /\ score \in Seq(AnyStep) /\ Len(score) \in 2 .. CHOR_MAX_STEPS + 5
    /\ \A k \in 1 .. Len(score) - 1 : score[k] \in Move
    /\ score[Len(score)] \in Ending
    /\ Forward(score)

\* Whatever the bytes of a file are, nothing is played of it or a score (chor_parse
\* of chor.mtl): every led in a colour, every ear to one of its holes, in the order
\* of time, with an end that nothing follows.
THEOREM EveryFileIsAScore ==
    ASSUME NEW data \in Seq(Byte), chor_parse(data) # <<>>
    PROVE  IsScore(chor_parse(data))
<1>1. Len(data) \in Nat
  BY LenProperties
<1>2. PICK g : /\ Loops(data, Len(data), g)
               /\ chor_parse(data) = IF Len(data) < 7 \/ g[Len(data)].steps = <<>> THEN <<>>
                                     ELSE Closed(g[Len(data)])
  BY <1>1, ParseLoops
<1>. DEFINE s == g[Len(data)]
            m == s.steps
            end == EndStep(s.t + 400)
            score == Append(m, end)
            L == Len(m)
<1>3. Parsing(s)
  BY <1>1, <1>2, LoopsKeep
<1>4. chor_parse(data) = score /\ m # <<>>
  BY <1>2 DEF Closed
<1>5. /\ m \in Seq(Move) /\ s.t \in Nat /\ L \in Nat \ {0} /\ L <= CHOR_MAX_STEPS + 4
      /\ Forward(m) /\ \A k \in DOMAIN m : m[k].t <= s.t
      /\ DOMAIN m = 1 .. L
  BY <1>3, <1>4, EmptySeq, LenProperties DEF Parsing
<1>6. end \in Ending /\ end.t = s.t + 400
  BY <1>5 DEF EndStep, Step, Ending
<1>. HIDE DEF s, m, end
<1>7. /\ score \in Seq(AnyStep) /\ Len(score) = L + 1
      /\ \A k \in 1 .. L : score[k] = m[k]
      /\ score[L + 1] = end
  <2>1. m \in Seq(AnyStep) /\ end \in AnyStep
    BY <1>5, <1>6, SeqMonotonic DEF AnyStep
  <2>. QED  BY <2>1, AppendProperties
<1>8. DOMAIN score = 1 .. L + 1
  BY <1>7, LenProperties
<1>. HIDE DEF score, L
<1>9. \A k \in 1 .. L : score[k] \in Move /\ score[k].t \in Nat /\ score[k].t <= s.t
  <2>1. ASSUME NEW k \in 1 .. L PROVE m[k] \in Move
    BY <1>5, ElementOfSeq DEF L
  <2>2. \A k \in 1 .. L : m[k].t \in Nat
    BY <2>1 DEF Move, LedMove, EarMove
  <2>. QED  BY <1>5, <1>7, <2>1, <2>2
<1>10. ASSUME NEW j \in 1 .. L + 1, NEW k \in 1 .. L + 1, j <= k
       PROVE  score[j].t <= score[k].t
  <2>1. CASE k \in 1 .. L
    <3>1. j \in 1 .. L
      BY <1>5, <1>10, <2>1
    <3>. QED  BY <1>5, <1>7, <1>10, <2>1, <3>1 DEF Forward
  <2>2. CASE k = L + 1 /\ j = L + 1
    BY <1>5, <1>6, <1>7, <2>2
  <2>3. CASE k = L + 1 /\ j \in 1 .. L
    BY <1>5, <1>6, <1>7, <1>9, <2>3
  <2>. QED  BY <1>5, <2>1, <2>2, <2>3
<1>11. Forward(score)
  BY <1>8, <1>10 DEF Forward
<1>12. IsScore(score)
  <2>1. Len(score) - 1 = L /\ Len(score) \in 2 .. CHOR_MAX_STEPS + 5
    BY <1>5, <1>7, ChorAssumption
  <2>. QED  BY <1>6, <1>7, <1>9, <1>11, <2>1 DEF IsScore
<1>. QED  BY <1>4, <1>12

--------------------------------------------------------------------------------
(* The encoder's order.                                                    *)

Rises(s, n) == \A j, k \in 1 .. n : j < k => s[j] < s[k]

\* A finite set of numbers can be put in its order.
LEMMA CanAscend ==
    ASSUME NEW S \in SUBSET Nat, IsFiniteSet(S)
    PROVE  \E s \in [1 .. Cardinality(S) -> S] : Rises(s, Cardinality(S))
<1>. DEFINE Can(T) == \E s \in [1 .. Cardinality(T) -> T] : Rises(s, Cardinality(T))
            Bad == {m \in Nat : \E T \in SUBSET S : Cardinality(T) = m /\ ~Can(T)}
<1>1. SUFFICES ASSUME Bad # {} PROVE FALSE
  <2>1. S \in SUBSET S /\ Cardinality(S) \in Nat
    BY FS_CardinalityType
  <2>. QED  BY <2>1
<1>2. PICK m \in Bad : \A j \in Bad : m <= j
  <2>1. Bad \in SUBSET Nat
    OBVIOUS
  <2>. HIDE DEF Bad
  <2>. QED  BY <1>1, <2>1, LeastIn
<1>3. PICK T \in SUBSET S : Cardinality(T) = m /\ ~Can(T)
  BY <1>2
<1>4. IsFiniteSet(T) /\ m \in Nat
  BY <1>2, FS_Subset
<1>5. CASE m = 0
  <2>1. T = {}
    BY <1>3, <1>4, <1>5, FS_EmptySet
  <2>. DEFINE s == [k \in 1 .. 0 |-> 0]
  <2>2. s \in [1 .. Cardinality(T) -> T] /\ Rises(s, Cardinality(T))
    BY <1>3, <1>5, <2>1 DEF Rises
  <2>. QED  BY <1>3, <2>2
<1>6. CASE m # 0
  <2>1. T # {} /\ T \in SUBSET Nat
    BY <1>3, <1>6, FS_EmptySet
  <2>2. PICK i \in T : \A j \in T : i <= j
    BY <2>1, LeastIn
  <2>. DEFINE U == T \ {i}
  <2>3. Cardinality(U) = m - 1 /\ U \in SUBSET S /\ m - 1 \in Nat
    <3>1. Cardinality(U) = Cardinality(T) - 1
      BY <1>4, <2>2, FS_RemoveElement
    <3>2. U \in SUBSET S
      BY <1>3
    <3>. QED  BY <1>3, <1>4, <1>6, <3>1, <3>2
  <2>4. m - 1 \notin Bad
    BY <1>2, <1>4
  <2>5. PICK u \in [1 .. m - 1 -> U] : Rises(u, m - 1)
    <3>. HIDE DEF U
    <3>. QED  BY <2>3, <2>4
  <2>. DEFINE s == [k \in 1 .. m |-> IF k = 1 THEN i ELSE u[k - 1]]
  <2>6. \A k \in 1 .. m : k # 1 => k - 1 \in 1 .. m - 1 /\ u[k - 1] \in U
    BY <1>4, <2>5
  <2>7. s \in [1 .. m -> T]
    BY <2>2, <2>6
  <2>8. ASSUME NEW j \in 1 .. m, NEW k \in 1 .. m, j < k PROVE s[j] < s[k]
    <3>1. k # 1 /\ k - 1 \in 1 .. m - 1 /\ s[k] = u[k - 1] /\ u[k - 1] \in U
      BY <1>4, <2>6, <2>8
    <3>2. CASE j = 1
      <4>1. s[j] = i /\ i <= u[k - 1] /\ i # u[k - 1] /\ i \in Nat /\ u[k - 1] \in Nat
        BY <2>1, <2>2, <3>1, <3>2
      <4>. QED  BY <3>1, <4>1
    <3>3. CASE j # 1
      <4>1. j - 1 \in 1 .. m - 1 /\ j - 1 < k - 1 /\ s[j] = u[j - 1]
        BY <1>4, <2>8, <3>3
      <4>. QED  BY <2>5, <3>1, <4>1 DEF Rises
    <3>. QED  BY <3>2, <3>3
  <2>9. Rises(s, m)
    BY <2>8 DEF Rises
  <2>. HIDE DEF s
  <2>. QED  BY <1>3, <2>7, <2>9
<1>. QED  BY <1>5, <1>6

\* In its order, every member of a set has its place, behind those that are less.
LEMMA AscendingIs ==
    ASSUME NEW S \in SUBSET Nat, IsFiniteSet(S)
    PROVE  /\ Cardinality(S) \in Nat
           /\ Ascending(S) \in [1 .. Cardinality(S) -> S]
           /\ \A j, k \in 1 .. Cardinality(S) : j < k => Ascending(S)[j] < Ascending(S)[k]
           /\ \A x \in S : \E k \in 1 .. Cardinality(S) : Ascending(S)[k] = x
           /\ \A k \in 1 .. Cardinality(S) :
                 Cardinality({x \in S : x < Ascending(S)[k]}) = k - 1
<1>. DEFINE n == Cardinality(S)
            s == Ascending(S)
<1>1. n \in Nat
  BY FS_CardinalityType
<1>2. s \in [1 .. n -> S] /\ \A j, k \in 1 .. n : j < k => s[j] < s[k]
  BY CanAscend DEF Ascending, Rises
<1>. HIDE DEF s
<1>3. \A k \in 1 .. n : s[k] \in Nat
  BY <1>2
<1>4. \A j, k \in 1 .. n : s[j] = s[k] => j = k
  <2>1. ASSUME NEW j \in 1 .. n, NEW k \in 1 .. n, s[j] = s[k] PROVE j = k
    <3>1. ~(j < k) /\ ~(k < j)
      BY <1>2, <1>3, <2>1
    <3>. QED  BY <1>1, <3>1
  <2>. QED  BY <2>1
<1>5. s \in Surjection(1 .. n, S)
  <2>1. s \in Injection(1 .. n, S)
    BY <1>2, <1>4 DEF Injection, IsInjective
  <2>2. Cardinality(1 .. n) = n
    BY <1>1, FS_Interval
  <2>. QED  BY <2>1, <2>2, FS_Injection
<1>6. \A x \in S : \E k \in 1 .. n : s[k] = x
  BY <1>5 DEF Surjection
<1>7. ASSUME NEW k \in 1 .. n PROVE Cardinality({x \in S : x < s[k]}) = k - 1
  <2>. DEFINE Less == {x \in S : x < s[k]}
              f == [j \in 1 .. k - 1 |-> s[j]]
  <2>1. \A j \in 1 .. k - 1 : j \in 1 .. n /\ j < k
    BY <1>1
  <2>2. f \in [1 .. k - 1 -> Less]
    BY <1>2, <2>1
  <2>3. \A x \in Less : \E j \in 1 .. k - 1 : f[j] = x
    <3>1. ASSUME NEW x \in Less PROVE \E j \in 1 .. k - 1 : s[j] = x
      <4>1. PICK j \in 1 .. n : s[j] = x
        BY <1>6
      <4>2. j # k /\ ~(k < j)
        <5>1. s[j] < s[k] /\ s[j] \in Nat /\ s[k] \in Nat
          BY <1>3, <4>1
        <5>2. ~(s[k] < s[j]) /\ s[j] # s[k]
          BY <5>1
        <5>. QED  BY <1>2, <5>2
      <4>3. j \in 1 .. k - 1
        BY <1>1, <4>2
      <4>. QED  BY <4>1, <4>3
    <3>. QED  BY <3>1
  <2>4. \A i, j \in 1 .. k - 1 : f[i] = f[j] => i = j
    BY <1>4, <2>1
  <2>. HIDE DEF f, Less
  <2>5. f \in Bijection(1 .. k - 1, Less)
    BY <2>2, <2>3, <2>4 DEF Bijection, Injection, Surjection, IsInjective
  <2>6. k - 1 \in Nat /\ ExistsBijection(1 .. k - 1, Less)
    BY <1>1, <2>5 DEF ExistsBijection
  <2>. QED  BY <2>6, FS_CountingElements DEF Less
<1>. QED  BY <1>1, <1>2, <1>6, <1>7 DEF s

--------------------------------------------------------------------------------
(* One behind the other.                                                   *)

\* The steps of FlattenSeq.
Flat(seqs, n, g) == g = [i \in 1 .. n |-> IF i = 1 THEN seqs[i] ELSE g[i - 1] \o seqs[i]]

\* Where each sequence begins, behind so many elements of the others.
Starts(seqs, n, off, all) ==
    /\ off \in [1 .. n + 1 -> Nat] /\ off[1] = 0
    /\ \A i \in 1 .. n : off[i + 1] = off[i] + Len(seqs[i])
    /\ Len(all) = off[n + 1]
    /\ \A i \in 1 .. n : \A q \in 1 .. Len(seqs[i]) : all[off[i] + q] = seqs[i][q]

\* Each sequence lies within the whole.
LEMMA StartsWithin ==
    ASSUME NEW l \in Nat, NEW seqs, NEW off, NEW all, Starts(seqs, l, off, all),
           \A i \in 1 .. l : Len(seqs[i]) \in Nat
    PROVE  \A i \in 1 .. l : \A q \in 1 .. Len(seqs[i]) : off[i] + q \in 1 .. Len(all)
<1>. DEFINE Over == {d \in Nat : \E i \in 1 .. l : l - i = d /\ ~(off[i + 1] <= off[l + 1])}
<1>1. /\ \A i \in 1 .. l + 1 : off[i] \in Nat
      /\ \A i \in 1 .. l : off[i + 1] = off[i] + Len(seqs[i])
      /\ Len(all) = off[l + 1]
  BY DEF Starts
<1>2. Over = {}
  <2>1. SUFFICES ASSUME Over # {} PROVE FALSE
    OBVIOUS
  <2>2. PICK d \in Over : \A e \in Over : d <= e
    <3>1. Over \in SUBSET Nat
      OBVIOUS
    <3>. HIDE DEF Over
    <3>. QED  BY <2>1, <3>1, LeastIn
  <2>3. PICK i \in 1 .. l : l - i = d /\ ~(off[i + 1] <= off[l + 1])
    BY <2>2
  <2>4. l + 1 \in 1 .. l + 1 /\ off[l + 1] \in Nat
    BY <1>1
  <2>5. i # l
    BY <2>3, <2>4
  <2>6. /\ i + 1 \in 1 .. l /\ i + 1 \in 1 .. l + 1 /\ l - (i + 1) \in Nat
        /\ ~(d <= l - (i + 1)) /\ d \in Nat
    BY <2>3, <2>5
  <2>7. l - (i + 1) \notin Over
    <3>. HIDE DEF Over
    <3>. QED  BY <2>2, <2>6
  <2>8. off[i + 1 + 1] <= off[l + 1]
    BY <2>6, <2>7
  <2>9. off[i + 1 + 1] = off[i + 1] + Len(seqs[i + 1]) /\ off[i + 1] \in Nat /\ Len(seqs[i + 1]) \in Nat
    BY <1>1, <2>6
  <2>. QED  BY <2>3, <2>4, <2>8, <2>9
<1>3. ASSUME NEW i \in 1 .. l, NEW q \in 1 .. Len(seqs[i]) PROVE off[i] + q \in 1 .. Len(all)
  <2>1. off[i + 1] <= off[l + 1]
    <3>1. l - i \in Nat
      OBVIOUS
    <3>. QED  BY <1>2, <3>1
  <2>2. i \in 1 .. l + 1 /\ l + 1 \in 1 .. l + 1
    OBVIOUS
  <2>3. off[i] \in Nat /\ off[l + 1] \in Nat /\ off[i + 1] = off[i] + Len(seqs[i]) /\ Len(seqs[i]) \in Nat
    BY <1>1, <2>2
  <2>4. off[l + 1] = Len(all)
    BY <1>1
  <2>. QED  BY <2>1, <2>3, <2>4
<1>. QED  BY <1>3

\* FlattenSeq puts its sequences one behind the other.
LEMMA FlattenIs ==
    ASSUME NEW T, NEW n \in Nat \ {0}, NEW seqs, Len(seqs) = n, \A i \in 1 .. n : seqs[i] \in Seq(T)
    PROVE  FlattenSeq(seqs) \in Seq(T) /\ \E off : Starts(seqs, n, off, FlattenSeq(seqs))
<1>. DEFINE Fine(m, g, off) == Flat(seqs, m, g) /\ g[m] \in Seq(T) /\ Starts(seqs, m, off, g[m])
            Bad == {m \in 1 .. n : ~\E g, off : Fine(m, g, off)}
<1>1. Bad = {}
  <2>1. SUFFICES ASSUME Bad # {} PROVE FALSE
    OBVIOUS
  <2>2. PICK m \in Bad : \A j \in Bad : m <= j
    <3>1. Bad \in SUBSET Nat
      OBVIOUS
    <3>. HIDE DEF Bad
    <3>. QED  BY <2>1, <3>1, LeastIn
  <2>3. m \in 1 .. n /\ \A g, off : ~Fine(m, g, off)
    BY <2>2
  <2>4. CASE m = 1
    <3>. DEFINE g == [i \in 1 .. 1 |-> seqs[1]]
                off == [i \in 1 .. 2 |-> IF i = 1 THEN 0 ELSE Len(seqs[1])]
    <3>1. g = [i \in 1 .. 1 |-> IF i = 1 THEN seqs[i] ELSE g[i - 1] \o seqs[i]]
      OBVIOUS
    <3>2. g[1] = seqs[1] /\ seqs[1] \in Seq(T) /\ Len(seqs[1]) \in Nat
      BY LenProperties
    <3>3. off \in [1 .. 2 -> Nat] /\ off[1] = 0 /\ off[2] = Len(seqs[1])
      BY <3>2
    <3>. HIDE DEF g, off
    <3>4. Starts(seqs, 1, off, g[1])
      <4>1. \A q \in 1 .. Len(seqs[1]) : off[1] + q = q
        BY <3>2, <3>3
      <4>2. off[2] = off[1] + Len(seqs[1])
        BY <3>2, <3>3
      <4>3. 1 + 1 = 2 /\ \A i \in 1 .. 1 : i = 1
        OBVIOUS
      <4>. QED  BY <3>2, <3>3, <4>1, <4>2, <4>3, Zenon DEF Starts
    <3>5. Flat(seqs, 1, g)
      BY <3>1 DEF Flat
    <3>. QED  BY <2>3, <2>4, <3>2, <3>4, <3>5
  <2>5. CASE m # 1
    <3>. DEFINE l == m - 1
    <3>1. l \in 1 .. n /\ l \notin Bad /\ m = l + 1 /\ l \in Nat
      <4>1. m - 1 \in 1 .. n /\ m = (m - 1) + 1 /\ m - 1 \in Nat /\ ~(m <= m - 1)
        BY <2>3, <2>5
      <4>. HIDE DEF Bad
      <4>. QED  BY <2>2, <4>1
    <3>. HIDE DEF l
    <3>2. PICK was, old : Fine(l, was, old)
      BY <3>1
    <3>. DEFINE g == [i \in 1 .. l + 1 |-> IF i = l + 1 THEN was[l] \o seqs[i] ELSE was[i]]
                off == [i \in 1 .. l + 2 |-> IF i = l + 2 THEN old[l + 1] + Len(seqs[l + 1]) ELSE old[i]]
    <3>3. /\ was[l] \in Seq(T) /\ seqs[l + 1] \in Seq(T) /\ Len(seqs[l + 1]) \in Nat
          /\ old \in [1 .. l + 1 -> Nat] /\ old[1] = 0 /\ Len(was[l]) = old[l + 1]
          /\ \A i \in 1 .. l : old[i + 1] = old[i] + Len(seqs[i])
          /\ \A i \in 1 .. l : \A q \in 1 .. Len(seqs[i]) : was[l][old[i] + q] = seqs[i][q]
          /\ \A i \in 1 .. l : was[i] = IF i = 1 THEN seqs[i] ELSE was[i - 1] \o seqs[i]
      <4>1. l + 1 \in 1 .. n
        BY <2>3, <3>1
      <4>. QED  BY <3>2, <4>1, LenProperties DEF Starts, Flat
    <3>. HIDE DEF Bad, Fine
    <3>0. /\ \A i \in 1 .. l + 1 : g[i] = IF i = l + 1 THEN was[l] \o seqs[i] ELSE was[i]
          /\ l + 1 \in 1 .. l + 1 /\ l \in 1 .. l + 1 /\ l # l + 1
      BY <3>1
    <3>4. g = [i \in 1 .. l + 1 |-> IF i = 1 THEN seqs[i] ELSE g[i - 1] \o seqs[i]]
      <4>1. ASSUME NEW i \in 1 .. l + 1
            PROVE  g[i] = IF i = 1 THEN seqs[i] ELSE g[i - 1] \o seqs[i]
        <5>1. CASE i = l + 1
          <6>1. i # 1 /\ i - 1 = l /\ l \in 1 .. l + 1 /\ l # l + 1
            BY <3>1, <5>1
          <6>2. g[l] = was[l] /\ g[l + 1] = was[l] \o seqs[l + 1]
            BY <3>0, Zenon
          <6>. QED  BY <5>1, <6>1, <6>2, Zenon
        <5>2. CASE i # l + 1
          <6>1. i \in 1 .. l /\ (i # 1 => i - 1 \in 1 .. l + 1 /\ i - 1 # l + 1)
            BY <3>1, <5>2
          <6>2. g[i] = was[i] /\ (i # 1 => g[i - 1] = was[i - 1])
            BY <5>2, <6>1
          <6>. QED  BY <3>3, <6>1, <6>2, Zenon
        <5>. QED  BY <5>1, <5>2
      <4>2. g = [i \in 1 .. l + 1 |-> g[i]]
        OBVIOUS
      <4>. HIDE DEF g
      <4>3. [i \in 1 .. l + 1 |-> g[i]] = [i \in 1 .. l + 1 |-> IF i = 1 THEN seqs[i] ELSE g[i - 1] \o seqs[i]]
        BY <4>1, Zenon
      <4>. QED  BY <4>2, <4>3
    <3>5. g[l + 1] = was[l] \o seqs[l + 1]
      BY <3>0, Zenon
    <3>6. /\ off \in [1 .. l + 2 -> Nat] /\ off[l + 2] = old[l + 1] + Len(seqs[l + 1])
          /\ \A i \in 1 .. l + 1 : off[i] = old[i]
      <4>1. \A i \in 1 .. l + 2 : i # l + 2 => i \in 1 .. l + 1
        BY <3>1
      <4>2. l + 2 \in 1 .. l + 2 /\ l + 1 \in 1 .. l + 1 /\ \A i \in 1 .. l + 1 : i \in 1 .. l + 2 /\ i # l + 2
        BY <3>1
      <4>3. old[l + 1] \in Nat /\ old[l + 1] + Len(seqs[l + 1]) \in Nat
        <5>1. old[l + 1] \in Nat
          BY <3>3, <4>2, Zenon
        <5>. HIDE DEF off, g
        <5>2. \A u, v \in Nat : u + v \in Nat
          OBVIOUS
        <5>. QED  BY <3>3, <5>1, <5>2, Zenon
      <4>4. off \in [1 .. l + 2 -> Nat]
        BY <3>3, <4>1, <4>3, Zenon
      <4>. QED  BY <4>2, <4>4, Zenon
    <3>. HIDE DEF g, off
    <3>7. /\ g[l + 1] \in Seq(T) /\ Len(g[l + 1]) = old[l + 1] + Len(seqs[l + 1])
          /\ \A p \in 1 .. old[l + 1] : g[l + 1][p] = was[l][p]
          /\ \A q \in 1 .. Len(seqs[l + 1]) : g[l + 1][old[l + 1] + q] = seqs[l + 1][q]
      <4>. DEFINE a == was[l]
                  b == seqs[l + 1]
      <4>1. /\ a \o b \in Seq(T) /\ Len(a \o b) = Len(a) + Len(b)
            /\ \A p \in 1 .. Len(a) + Len(b) : (a \o b)[p] = IF p <= Len(a) THEN a[p] ELSE b[p - Len(a)]
        <5>1. a \in Seq(T) /\ b \in Seq(T)
          BY <3>3
        <5>. HIDE DEF a, b
        <5>. QED  BY <5>1, ConcatProperties
      <4>2. Len(a) \in Nat /\ Len(b) \in Nat /\ Len(a) = old[l + 1]
        BY <3>3, LenProperties
      <4>. HIDE DEF a, b
      <4>3. \A p \in 1 .. Len(a) : (a \o b)[p] = a[p]
        BY <4>1, <4>2
      <4>4. \A q \in 1 .. Len(b) : (a \o b)[Len(a) + q] = b[q]
        <5>1. \A q \in 1 .. Len(b) : /\ Len(a) + q \in 1 .. Len(a) + Len(b) /\ ~(Len(a) + q <= Len(a))
                                     /\ (Len(a) + q) - Len(a) = q
          BY <4>2
        <5>. QED  BY <4>1, <5>1, Zenon
      <4>. QED  BY <3>5, <4>1, <4>2, <4>3, <4>4 DEF a, b
    <3>8. \A i \in 1 .. l : \A q \in 1 .. Len(seqs[i]) : old[i] + q \in 1 .. old[l + 1]
      <4>1. Starts(seqs, l, old, was[l])
        BY <3>2 DEF Fine
      <4>2. \A i \in 1 .. l : Len(seqs[i]) \in Nat
        <5>1. \A i \in 1 .. l : i \in 1 .. n
          BY <3>1
        <5>. QED  BY <5>1, LenProperties
      <4>. DEFINE before == was[l]
      <4>3. Len(before) = old[l + 1]
        BY <3>3
      <4>. HIDE DEF before
      <4>4. \A i \in 1 .. l : \A q \in 1 .. Len(seqs[i]) : old[i] + q \in 1 .. Len(before)
        BY <3>1, <4>1, <4>2, StartsWithin DEF before
      <4>. QED  BY <4>3, <4>4
    <3>9. Starts(seqs, l + 1, off, g[l + 1])
      <4>1. off[1] = 0 /\ off \in [1 .. (l + 1) + 1 -> Nat] /\ Len(g[l + 1]) = off[(l + 1) + 1]
        <5>1. (l + 1) + 1 = l + 2 /\ 1 \in 1 .. l + 1
          BY <3>1
        <5>. QED  BY <3>3, <3>6, <3>7, <5>1
      <4>2. ASSUME NEW i \in 1 .. l + 1 PROVE off[i + 1] = off[i] + Len(seqs[i])
        <5>1. CASE i = l + 1
          <6>1. i + 1 = l + 2
            BY <3>1, <5>1
          <6>. QED  BY <3>6, <5>1, <6>1
        <5>2. CASE i # l + 1
          <6>1. i \in 1 .. l /\ i + 1 \in 1 .. l + 1
            BY <3>1, <5>2
          <6>. QED  BY <3>3, <3>6, <6>1
        <5>. QED  BY <5>1, <5>2
      <4>3. ASSUME NEW i \in 1 .. l + 1, NEW q \in 1 .. Len(seqs[i])
            PROVE  g[l + 1][off[i] + q] = seqs[i][q]
        <5>1. CASE i = l + 1
          BY <3>6, <3>7, <5>1
        <5>2. CASE i # l + 1
          <6>1. i \in 1 .. l
            BY <3>1, <5>2
          <6>2. old[i] + q \in 1 .. old[l + 1]
            BY <3>8, <6>1
          <6>3. i \in 1 .. l + 1
            BY <3>1
          <6>4. off[i] = old[i]
            BY <3>6, <6>3, Zenon
          <6>5. g[l + 1][old[i] + q] = was[l][old[i] + q]
            BY <3>7, <6>2, Zenon
          <6>6. was[l][old[i] + q] = seqs[i][q]
            BY <3>3, <6>1, Zenon
          <6>. QED  BY <6>4, <6>5, <6>6, Zenon
        <5>. QED  BY <5>1, <5>2
      <4>. QED  BY <4>1, <4>2, <4>3 DEF Starts
    <3>10. Flat(seqs, l + 1, g)
      BY <3>4 DEF Flat
    <3>11. Fine(l + 1, g, off)
      BY <3>7, <3>9, <3>10 DEF Fine
    <3>. QED  BY <2>3, <3>1, <3>11
  <2>. QED  BY <2>4, <2>5
<1>2. PICK g, off : Fine(n, g, off)
  <2>1. n \in 1 .. n
    OBVIOUS
  <2>. HIDE DEF Fine
  <2>. QED  BY <1>1, <2>1
<1>. DEFINE flatten == CHOOSE h : h = [i \in 1 .. Len(seqs) |-> IF i = 1 THEN seqs[i] ELSE h[i - 1] \o seqs[i]]
<1>3. FlattenSeq(seqs) = flatten[n]
  BY DEF FlattenSeq
<1>4. Flat(seqs, n, flatten)
  BY <1>2 DEF Flat
<1>. HIDE DEF flatten
<1>5. flatten[n] = g[n]
  <2>. DEFINE Off == {k \in 1 .. n : flatten[k] # g[k]}
  <2>1. SUFFICES ASSUME Off # {} PROVE FALSE
    BY n \in 1 .. n
  <2>2. PICK k \in Off : \A j \in Off : k <= j
    <3>1. Off \in SUBSET Nat
      OBVIOUS
    <3>. HIDE DEF Off
    <3>. QED  BY <2>1, <3>1, LeastIn
  <2>3. k \in 1 .. n /\ (k # 1 => k - 1 \in 1 .. n /\ k - 1 \notin Off)
    <3>1. k \in 1 .. n
      BY <2>2
    <3>2. k # 1 => k - 1 \in 1 .. n /\ ~(k <= k - 1)
      BY <3>1
    <3>. HIDE DEF Off
    <3>. QED  BY <2>2, <3>1, <3>2
  <2>4. /\ flatten[k] = IF k = 1 THEN seqs[k] ELSE flatten[k - 1] \o seqs[k]
        /\ g[k] = IF k = 1 THEN seqs[k] ELSE g[k - 1] \o seqs[k]
    BY <1>2, <1>4, <2>3 DEF Flat
  <2>5. k # 1 => flatten[k - 1] = g[k - 1]
    BY <2>3
  <2>. QED  BY <2>2, <2>4, <2>5
<1>. QED  BY <1>2, <1>3, <1>5

--------------------------------------------------------------------------------
(* What a text asks for.                                                   *)

\* An action within its bounds.
Action ==
    {a \in [frame : Nat, word : Words, args : Seq(Nat)] :
        /\ Len(a.args) = Len(Bounds(a.word))
        /\ \A q \in DOMAIN Bounds(a.word) :
              Bounds(a.word)[q] = Unbounded \/ a.args[q] <= Bounds(a.word)[q]}

LEMMA BoundsAre ==
    /\ Bounds(Led) = <<4, 255, 255, 255>> /\ Bounds(Palette) = <<4, 7>>
    /\ Bounds(Motor) = <<1, 360, Unbounded, 1>>
    /\ \A w \in Words : Len(Bounds(w)) \in {2, 4} /\ DOMAIN Bounds(w) = 1 .. Len(Bounds(w))
<1>1. Bounds(Led) = <<4, 255, 255, 255>>
  BY WordsAssumption, Zenon DEF Bounds
<1>2. Bounds(Motor) = <<1, 360, Unbounded, 1>>
  BY WordsAssumption, Zenon DEF Bounds
<1>3. Bounds(Palette) = <<4, 7>>
  BY WordsAssumption, Zenon DEF Bounds
<1>4. ASSUME NEW w \in Words PROVE Len(Bounds(w)) \in {2, 4} /\ DOMAIN Bounds(w) = 1 .. Len(Bounds(w))
  <2>1. Len(<<4, 255, 255, 255>>) = 4 /\ DOMAIN <<4, 255, 255, 255>> = 1 .. 4
    OBVIOUS
  <2>2. Len(<<1, 360, Unbounded, 1>>) = 4 /\ DOMAIN <<1, 360, Unbounded, 1>> = 1 .. 4
    OBVIOUS
  <2>3. Len(<<4, 7>>) = 2 /\ DOMAIN <<4, 7>> = 1 .. 2
    OBVIOUS
  <2>4. Len(Bounds(Led)) = 4 /\ DOMAIN Bounds(Led) = 1 .. 4
    BY <1>1, <2>1
  <2>5. Len(Bounds(Motor)) = 4 /\ DOMAIN Bounds(Motor) = 1 .. 4
    BY <1>2, <2>2
  <2>6. Len(Bounds(Palette)) = 2 /\ DOMAIN Bounds(Palette) = 1 .. 2
    BY <1>3, <2>3
  <2>. QED  BY <2>4, <2>5, <2>6 DEF Words
<1>. QED  BY <1>1, <1>2, <1>3, <1>4

\* An action that is well formed is one, and ends within the text.
LEMMA ActionIs ==
    ASSUME NEW S, NEW t \in Seq(S), NEW i \in 2 .. Len(t), WellFormed(t, i)
    PROVE  /\ ActionAt(t, i) \in Action
           /\ i + 2 + Len(ActionAt(t, i).args) \in i + 2 .. Len(t) + 1
<1>. DEFINE L == Len(t)
            w == t[i + 1]
            max == Bounds(w)
            args == SubSeq(t, i + 2, i + 1 + Len(max))
            a == ActionAt(t, i)
<1>1. /\ i + 1 <= L /\ t[i] \in Nat /\ w \in Words /\ i + 1 + Len(max) <= L
      /\ \A k \in DOMAIN max : t[i + 1 + k] \in Nat /\ (max[k] = Unbounded \/ t[i + 1 + k] <= max[k])
  BY DEF WellFormed
<1>2. L \in Nat /\ Len(max) \in {2, 4} /\ DOMAIN max = 1 .. Len(max)
  BY <1>1, BoundsAre, LenProperties
<1>3. a = [frame |-> t[i], word |-> w, args |-> args]
  BY DEF ActionAt
<1>. HIDE DEF max, w, L, a
<1>4. /\ args \in Seq(Nat) /\ Len(args) = Len(max)
      /\ \A k \in 1 .. Len(max) : args[k] = t[i + 1 + k]
  <2>. DEFINE lo == i + 2
              hi == i + 1 + Len(max)
  <2>1. lo \in Int /\ hi \in Int /\ hi - lo + 1 = Len(max) /\ lo <= hi
    BY <1>2
  <2>2. \A p \in lo .. hi : t[p] \in Nat
    <3>1. ASSUME NEW p \in lo .. hi PROVE t[p] \in Nat
      <4>1. p - (i + 1) \in 1 .. Len(max) /\ (i + 1) + (p - (i + 1)) = p
        BY <1>2
      <4>2. t[(i + 1) + (p - (i + 1))] \in Nat
        BY <1>1, <1>2, <4>1
      <4>. QED  BY <4>1, <4>2
    <3>. QED  BY <3>1
  <2>3. \A k \in 1 .. Len(max) : lo + k - 1 = i + 1 + k
    BY <1>2
  <2>. HIDE DEF lo, hi
  <2>4. /\ SubSeq(t, lo, hi) \in Seq(Nat)
        /\ Len(SubSeq(t, lo, hi)) = IF lo <= hi THEN hi - lo + 1 ELSE 0
        /\ \A k \in 1 .. hi - lo + 1 : SubSeq(t, lo, hi)[k] = t[lo + k - 1]
    BY <2>1, <2>2, SubSeqProperties
  <2>. QED  BY <2>1, <2>3, <2>4 DEF lo, hi
<1>. HIDE DEF args
<1>5. a \in [frame : Nat, word : Words, args : Seq(Nat)] /\ a.word = w /\ a.args = args
  BY <1>1, <1>3, <1>4
<1>6. \A q \in DOMAIN max : max[q] = Unbounded \/ args[q] <= max[q]
  BY <1>1, <1>2, <1>4
<1>7. a \in Action
  BY <1>4, <1>5, <1>6 DEF Action, max
<1>8. i + 2 + Len(args) \in i + 2 .. L + 1
  BY <1>1, <1>2, <1>4
<1>. QED  BY <1>5, <1>7, <1>8 DEF a, L

\* The actions from a token on, if those behind the first are known.
Reading(t, i, g) ==
    IF i > Len(t) THEN <<>>
    ELSE IF ~WellFormed(t, i) THEN Rejected
    ELSE IF g[i + 2 + Len(ActionAt(t, i).args)] = Rejected THEN Rejected
    ELSE <<ActionAt(t, i)>> \o g[i + 2 + Len(ActionAt(t, i).args)]

Read(t, g) == g = [i \in 2 .. Len(t) + 1 |-> Reading(t, i, g)]

\* A text can be read from its end.
LEMMA CanRead ==
    ASSUME NEW S, NEW t \in Seq(S), t # <<>>
    PROVE  \E g : Read(t, g)
<1>. DEFINE L == Len(t)
            From(d, g) == /\ g = [i \in 2 .. L + 1 |-> g[i]]
                          /\ \A i \in L + 1 - d .. L + 1 : g[i] = Reading(t, i, g)
            Bad == {d \in 0 .. L - 1 : ~\E g : From(d, g)}
<1>1. L \in Nat \ {0}
  BY EmptySeq
<1>2. Bad = {}
  <2>1. SUFFICES ASSUME Bad # {} PROVE FALSE
    OBVIOUS
  <2>2. PICK d \in Bad : \A e \in Bad : d <= e
    <3>1. Bad \in SUBSET Nat
      BY <1>1
    <3>. HIDE DEF Bad
    <3>. QED  BY <2>1, <3>1, LeastIn
  <2>3. d \in 0 .. L - 1 /\ \A g : ~From(d, g)
    BY <2>2
  <2>4. CASE d = 0
    <3>. DEFINE g == [i \in 2 .. L + 1 |-> <<>>]
    <3>1. g = [i \in 2 .. L + 1 |-> g[i]]
      OBVIOUS
    <3>2. g[L + 1] = <<>>
      BY <1>1
    <3>. HIDE DEF g
    <3>3. \A i \in L + 1 - d .. L + 1 : i = L + 1 /\ L + 1 > L
      BY <1>1, <2>4
    <3>4. g[L + 1] = Reading(t, L + 1, g)
      <4>1. L + 1 > L
        BY <1>1
      <4>. QED  BY <3>2, <4>1, Zenon DEF Reading
    <3>5. From(d, g)
      BY <3>1, <3>3, <3>4
    <3>. QED  BY <2>3, <3>5
  <2>5. CASE d # 0
    <3>. DEFINE e == d - 1
                i0 == L - e
    <3>1. e \in 0 .. L - 1 /\ d = e + 1 /\ ~(d <= e) /\ i0 \in 2 .. L /\ i0 = L + 1 - d
      BY <1>1, <2>3, <2>5
    <3>2. e \notin Bad
      <4>. HIDE DEF Bad
      <4>. QED  BY <2>2, <3>1
    <3>3. PICK g : From(e, g)
      <4>. HIDE DEF From
      <4>. QED  BY <3>1, <3>2
    <3>4. /\ g = [i \in 2 .. L + 1 |-> g[i]]
          /\ \A i \in L + 1 - e .. L + 1 : g[i] = Reading(t, i, g)
      BY <3>3
    <3>. HIDE DEF Bad, From
    <3>. DEFINE h == [i \in 2 .. L + 1 |-> IF i = i0 THEN Reading(t, i0, g) ELSE g[i]]
    <3>5. /\ h = [i \in 2 .. L + 1 |-> h[i]] /\ h[i0] = Reading(t, i0, g)
          /\ \A i \in 2 .. L + 1 : i # i0 => h[i] = g[i]
      <4>1. i0 \in 2 .. L + 1
        BY <1>1, <3>1
      <4>. HIDE DEF i0
      <4>. QED  BY <4>1, Zenon
    <3>. HIDE DEF h, e, i0
    <3>6. ASSUME NEW i \in i0 .. L + 1 PROVE Reading(t, i, h) = Reading(t, i, g)
      <4>1. CASE i > L \/ ~WellFormed(t, i)
        BY <4>1, Zenon DEF Reading
      <4>2. CASE ~(i > L \/ ~WellFormed(t, i))
        <5>. DEFINE j == i + 2 + Len(ActionAt(t, i).args)
        <5>1. i \in 2 .. L /\ WellFormed(t, i)
          BY <1>1, <3>1, <4>2
        <5>2. j \in i + 2 .. L + 1
          BY <5>1, ActionIs
        <5>3. j \in 2 .. L + 1 /\ j # i0
          <6>. HIDE DEF j
          <6>. QED  BY <1>1, <3>1, <5>1, <5>2
        <5>4. h[j] = g[j]
          BY <3>5, <5>3
        <5>. QED  BY <5>4, Zenon DEF Reading
      <4>. QED  BY <4>1, <4>2
    <3>7. ASSUME NEW i \in i0 .. L + 1 PROVE h[i] = Reading(t, i, h)
      <4>1. CASE i = i0
        BY <3>5, <3>6, <4>1
      <4>2. CASE i # i0
        <5>1. i \in 2 .. L + 1 /\ i \in L + 1 - e .. L + 1
          BY <1>1, <3>1, <4>2
        <5>. QED  BY <3>4, <3>5, <3>6, <4>2, <5>1
      <4>. QED  BY <4>1, <4>2
    <3>8. From(d, h)
      BY <3>1, <3>5, <3>7 DEF From
    <3>. QED  BY <2>3, <3>8
  <2>. QED  BY <2>4, <2>5
<1>3. L - 1 \in 0 .. L - 1 /\ L + 1 - (L - 1) = 2
  BY <1>1
<1>4. PICK g : From(L - 1, g)
  BY <1>2, <1>3
<1>5. /\ g = [i \in 2 .. L + 1 |-> g[i]]
      /\ \A i \in 2 .. L + 1 : g[i] = Reading(t, i, g)
  BY <1>3, <1>4
<1>6. [i \in 2 .. L + 1 |-> g[i]] = [i \in 2 .. L + 1 |-> Reading(t, i, g)]
  BY <1>5, Zenon
<1>. QED  BY <1>5, <1>6 DEF Read

\* What a text asks for are actions within their bounds.
LEMMA ActionsAre ==
    ASSUME NEW S, NEW t \in Seq(S), Actions(t) # Rejected
    PROVE  Actions(t) \in Seq(Action) /\ t # <<>>
<1>. DEFINE L == Len(t)
            from == CHOOSE g : g = [i \in 2 .. Len(t) + 1 |->
                        IF i > Len(t) THEN <<>>
                        ELSE IF ~WellFormed(t, i) THEN Rejected
                        ELSE IF g[i + 2 + Len(ActionAt(t, i).args)] = Rejected THEN Rejected
                        ELSE <<ActionAt(t, i)>> \o g[i + 2 + Len(ActionAt(t, i).args)]]
<1>1. t # <<>> /\ Actions(t) = from[2]
  BY DEF Actions
<1>2. Read(t, from)
  <2>1. PICK g : Read(t, g)
    BY <1>1, CanRead
  <2>. QED  BY <2>1 DEF Read, Reading
<1>. HIDE DEF from
<1>3. L \in Nat \ {0}
  BY <1>1, EmptySeq
<1>4. \A i \in 2 .. L + 1 : from[i] = Reading(t, i, from)
  BY <1>2 DEF Read
<1>. DEFINE Bad == {d \in 0 .. L : \E i \in 2 .. L + 1 : /\ L + 1 - i = d /\ from[i] # Rejected
                                                         /\ from[i] \notin Seq(Action)}
<1>5. Bad = {}
  <2>1. SUFFICES ASSUME Bad # {} PROVE FALSE
    OBVIOUS
  <2>2. PICK d \in Bad : \A e \in Bad : d <= e
    <3>1. Bad \in SUBSET Nat
      OBVIOUS
    <3>. HIDE DEF Bad
    <3>. QED  BY <2>1, <3>1, LeastIn
  <2>3. PICK i \in 2 .. L + 1 : L + 1 - i = d /\ from[i] # Rejected /\ from[i] \notin Seq(Action)
    BY <2>2
  <2>4. from[i] = Reading(t, i, from)
    BY <1>4
  <2>5. i <= L /\ WellFormed(t, i)
    <3>1. ~(i > L)
      <4>1. <<>> \in Seq(Action)
        BY EmptySeq
      <4>. QED  BY <2>3, <2>4, <4>1 DEF Reading
    <3>2. WellFormed(t, i)
      BY <2>3, <2>4, <3>1, Zenon DEF Reading
    <3>. QED  BY <1>3, <3>1, <3>2
  <2>. DEFINE j == i + 2 + Len(ActionAt(t, i).args)
  <2>6. ActionAt(t, i) \in Action /\ j \in i + 2 .. L + 1
    <3>1. i \in 2 .. L
      BY <1>3, <2>5
    <3>. QED  BY <2>5, <3>1, ActionIs
  <2>7. j \in 2 .. L + 1 /\ L + 1 - j \in 0 .. L /\ ~(d <= L + 1 - j)
    <3>. HIDE DEF j
    <3>. QED  BY <1>3, <2>3, <2>6
  <2>8. L + 1 - j \notin Bad
    <3>. HIDE DEF Bad, j
    <3>. QED  BY <2>2, <2>7
  <2>9. from[j] = Rejected \/ from[j] \in Seq(Action)
    <3>. HIDE DEF j
    <3>. QED  BY <2>7, <2>8
  <2>10. from[j] # Rejected /\ from[i] = <<ActionAt(t, i)>> \o from[j]
    <3>1. ~(i > L)
      BY <1>3, <2>5
    <3>. QED  BY <2>3, <2>4, <2>5, <3>1, Zenon DEF Reading
  <2>11. <<ActionAt(t, i)>> \in Seq(Action)
    BY <2>6
  <2>. QED  BY <2>3, <2>9, <2>10, <2>11, ConcatProperties
<1>6. 2 \in 2 .. L + 1 /\ L + 1 - 2 \in 0 .. L
  BY <1>3
<1>. QED  BY <1>1, <1>5, <1>6

--------------------------------------------------------------------------------
(* Where an action comes in the dance.                                     *)

Frames(actions) == {actions[i].frame : i \in DOMAIN actions}
Sharing(actions, f) == {i \in DOMAIN actions : actions[i].frame = f}
Earlier(actions, f) == {i \in DOMAIN actions : actions[i].frame < f}
Before(actions, i) ==
    {j \in DOMAIN actions : \/ actions[j].frame < actions[i].frame
                            \/ actions[j].frame = actions[i].frame /\ j < i}

\* The sets of an order are finite sets of numbers.
LEMMA FiniteActions ==
    ASSUME NEW actions \in Seq(Action)
    PROVE  /\ Len(actions) \in Nat /\ DOMAIN actions = 1 .. Len(actions)
           /\ \A i \in DOMAIN actions : actions[i] \in Action /\ actions[i].frame \in Nat
           /\ Cardinality(DOMAIN actions) = Len(actions) /\ IsFiniteSet(DOMAIN actions)
           /\ Frames(actions) \in SUBSET Nat /\ IsFiniteSet(Frames(actions))
           /\ \A S \in SUBSET DOMAIN actions :
                 S \in SUBSET Nat /\ IsFiniteSet(S) /\ Cardinality(S) \in 0 .. Len(actions)
<1>. DEFINE D == DOMAIN actions
<1>1. Len(actions) \in Nat /\ D = 1 .. Len(actions) /\ \A i \in D : actions[i] \in Action
  BY LenProperties, ElementOfSeq
<1>2. \A i \in D : actions[i].frame \in Nat
  BY <1>1 DEF Action
<1>3. IsFiniteSet(D) /\ Cardinality(D) = Len(actions)
  BY <1>1, FS_Interval
<1>4. IsFiniteSet(Frames(actions))
  <2>. DEFINE f == [i \in D |-> actions[i].frame]
  <2>1. f \in Surjection(D, Frames(actions))
    BY DEF Surjection, Frames
  <2>. HIDE DEF f
  <2>. QED  BY <1>3, <2>1, FS_Surjection
<1>5. ASSUME NEW S \in SUBSET D
      PROVE  S \in SUBSET Nat /\ IsFiniteSet(S) /\ Cardinality(S) \in 0 .. Len(actions)
  <2>1. IsFiniteSet(S) /\ Cardinality(S) <= Len(actions)
    BY <1>3, FS_Subset
  <2>2. Cardinality(S) \in Nat
    BY <2>1, FS_CardinalityType
  <2>. QED  BY <1>1, <2>1, <2>2
<1>. QED  BY <1>1, <1>2, <1>3, <1>4, <1>5 DEF Frames

\* No two actions have the same place.
LEMMA OnePlace ==
    ASSUME NEW actions \in Seq(Action), NEW i \in DOMAIN actions, NEW j \in DOMAIN actions,
           Rank(actions, i) = Rank(actions, j)
    PROVE  i = j
<1>0. \A k \in DOMAIN actions : k \in Nat /\ actions[k].frame \in Nat
  BY FiniteActions
<1>1. \A k \in DOMAIN actions : /\ Rank(actions, k) = 1 + Cardinality(Before(actions, k))
                                /\ Before(actions, k) \in SUBSET DOMAIN actions
  BY DEF Rank, Before
<1>2. ASSUME NEW k \in DOMAIN actions, NEW l \in DOMAIN actions, k \in Before(actions, l)
      PROVE  Cardinality(Before(actions, k)) # Cardinality(Before(actions, l))
  <2>1. Before(actions, k) \in SUBSET Before(actions, l)
    <3>1. /\ k \in Nat /\ actions[k].frame \in Nat /\ l \in Nat /\ actions[l].frame \in Nat
          /\ actions[k].frame < actions[l].frame \/ (actions[k].frame = actions[l].frame /\ k < l)
      BY <1>0, <1>2 DEF Before
    <3>2. ASSUME NEW m \in DOMAIN actions,
                 actions[m].frame < actions[k].frame \/ (actions[m].frame = actions[k].frame /\ m < k)
          PROVE  actions[m].frame < actions[l].frame \/ (actions[m].frame = actions[l].frame /\ m < l)
      <4>1. m \in Nat /\ actions[m].frame \in Nat
        BY <1>0
      <4>. QED  BY <3>1, <3>2, <4>1
    <3>. QED  BY <3>2 DEF Before
  <2>2. k \notin Before(actions, k)
    BY <1>0 DEF Before
  <2>3. IsFiniteSet(Before(actions, l))
    BY <1>1, FiniteActions
  <2>. QED  BY <1>2, <2>1, <2>2, <2>3, FS_Subset
<1>3. i # j => i \in Before(actions, j) \/ j \in Before(actions, i)
  BY <1>0 DEF Before
<1>4. Cardinality(Before(actions, i)) = Cardinality(Before(actions, j))
  <2>1. Cardinality(Before(actions, i)) \in Nat /\ Cardinality(Before(actions, j)) \in Nat
    BY <1>1, FiniteActions
  <2>. QED  BY <1>1, <2>1
<1>. QED  BY <1>2, <1>3, <1>4

\* Every place is that of one action: the one the dance has there.
LEMMA InOrderIs ==
    ASSUME NEW actions \in Seq(Action)
    PROVE  /\ DOMAIN InOrder(actions) = 1 .. Len(actions)
           /\ \A i \in DOMAIN actions : /\ Rank(actions, i) \in 1 .. Len(actions)
                                        /\ InOrder(actions)[Rank(actions, i)] = actions[i]
           /\ \A m \in 1 .. Len(actions) : \E i \in DOMAIN actions : Rank(actions, i) = m
<1>. DEFINE N == Len(actions)
            D == DOMAIN actions
            r == [i \in D |-> Rank(actions, i)]
<1>1. N \in Nat /\ D = 1 .. N /\ IsFiniteSet(D) /\ Cardinality(D) = N
  BY FiniteActions
<1>2. ASSUME NEW i \in D PROVE Rank(actions, i) \in 1 .. N
  <2>1. Before(actions, i) \in SUBSET D /\ i \notin Before(actions, i)
    BY <1>1, FiniteActions DEF Before
  <2>2. /\ Cardinality(Before(actions, i)) \in 0 .. N
        /\ Cardinality(Before(actions, i)) # N
    BY <1>1, <2>1, FiniteActions, FS_Subset
  <2>3. Rank(actions, i) = 1 + Cardinality(Before(actions, i))
    BY DEF Rank, Before
  <2>. QED  BY <1>1, <2>2, <2>3
<1>3. \A i, j \in D : r[i] = r[j] => i = j
  BY OnePlace
<1>4. r \in Surjection(D, 1 .. N)
  <2>1. r \in Injection(D, 1 .. N)
    BY <1>2, <1>3 DEF Injection, IsInjective
  <2>2. IsFiniteSet(1 .. N) /\ Cardinality(1 .. N) = N
    BY <1>1
  <2>. HIDE DEF r
  <2>. QED  BY <1>1, <2>1, <2>2, FS_Injection
<1>5. \A m \in 1 .. N : \E i \in D : Rank(actions, i) = m
  BY <1>4 DEF Surjection
<1>6. ASSUME NEW i \in D PROVE InOrder(actions)[Rank(actions, i)] = actions[i]
  <2>. DEFINE m == Rank(actions, i)
              p == CHOOSE k \in D : Rank(actions, k) = m
  <2>1. m \in D
    BY <1>1, <1>2
  <2>2. p \in D /\ Rank(actions, p) = m
    <3>. HIDE DEF m
    <3>1. \E k \in D : Rank(actions, k) = m
      BY DEF m
    <3>. QED  BY <3>1
  <2>. HIDE DEF p
  <2>3. p = i
    BY <2>2, OnePlace
  <2>4. InOrder(actions)[m] = actions[p]
    BY <2>1 DEF InOrder, p
  <2>. QED  BY <2>3, <2>4
<1>7. DOMAIN InOrder(actions) = 1 .. N
  BY <1>1 DEF InOrder
<1>. QED  BY <1>2, <1>5, <1>6, <1>7

\* The frames, each once, and the actions of each.
LEMMA TicksAre ==
    ASSUME NEW actions \in Seq(Action)
    PROVE  /\ Cardinality(Frames(actions)) \in Nat
           /\ Ticks(actions) \in [1 .. Cardinality(Frames(actions)) -> Frames(actions)]
           /\ \A j, k \in 1 .. Cardinality(Frames(actions)) :
                 j < k => Ticks(actions)[j] < Ticks(actions)[k]
           /\ \A f \in Frames(actions) :
                 \E k \in 1 .. Cardinality(Frames(actions)) : Ticks(actions)[k] = f
           /\ \A f \in Frames(actions) : Cardinality(Sharing(actions, f)) \in Nat \ {0}
<1>1. Ticks(actions) = Ascending(Frames(actions))
  BY DEF Ticks, Frames
<1>2. Frames(actions) \in SUBSET Nat /\ IsFiniteSet(Frames(actions))
  BY FiniteActions
<1>3. ASSUME NEW f \in Frames(actions) PROVE Cardinality(Sharing(actions, f)) \in Nat \ {0}
  <2>1. Sharing(actions, f) # {} /\ Sharing(actions, f) \in SUBSET DOMAIN actions
    BY DEF Frames, Sharing
  <2>2. IsFiniteSet(Sharing(actions, f)) /\ Cardinality(Sharing(actions, f)) \in 0 .. Len(actions)
    BY <2>1, FiniteActions
  <2>3. Len(actions) \in Nat
    BY FiniteActions
  <2>. QED  BY <2>1, <2>2, <2>3, FS_EmptySet
<1>. QED  BY <1>1, <1>2, <1>3, AscendingIs

\* The place of an action: behind those of the earlier frames, and behind those of
\* its own frame that the text has before it.
LEMMA RankIs ==
    ASSUME NEW actions \in Seq(Action), NEW f \in Frames(actions),
           NEW j \in 1 .. Cardinality(Sharing(actions, f))
    PROVE  /\ Ascending(Sharing(actions, f))[j] \in Sharing(actions, f)
           /\ Rank(actions, Ascending(Sharing(actions, f))[j]) = Cardinality(Earlier(actions, f)) + j
<1>. DEFINE S == Sharing(actions, f)
            i == Ascending(S)[j]
            Less == {x \in S : x < i}
            E == Earlier(actions, f)
<1>1. S \in SUBSET DOMAIN actions /\ E \in SUBSET DOMAIN actions /\ Less \in SUBSET DOMAIN actions
  BY DEF Sharing, Earlier
<1>2. S \in SUBSET Nat /\ IsFiniteSet(S)
  BY <1>1, FiniteActions
<1>3. i \in S /\ Cardinality(Less) = j - 1 /\ j \in Nat
  BY <1>2, AscendingIs
<1>. HIDE DEF i
<1>4. actions[i].frame = f /\ i \in DOMAIN actions
  BY <1>3 DEF Sharing
<1>5. Before(actions, i) = E \cup Less
  BY <1>4 DEF Before, Earlier, Sharing
<1>6. E \cap Less = {}
  <2>1. \A k \in DOMAIN actions : actions[k].frame \in Nat
    BY FiniteActions
  <2>. QED  BY <1>4, <2>1 DEF Earlier, Sharing
<1>7. /\ IsFiniteSet(E) /\ IsFiniteSet(Less) /\ Cardinality(E) \in Nat
  <2>1. Len(actions) \in Nat
    BY FiniteActions
  <2>2. IsFiniteSet(E) /\ IsFiniteSet(Less) /\ Cardinality(E) \in 0 .. Len(actions)
    BY <1>1, FiniteActions
  <2>. QED  BY <2>1, <2>2
<1>. HIDE DEF E, Less
<1>8. Cardinality(Before(actions, i)) = Cardinality(E) + (j - 1)
  <2>1. Cardinality(E \cup Less) = Cardinality(E) + Cardinality(Less) - Cardinality(E \cap Less)
    BY <1>7, FS_Union
  <2>2. Cardinality(E \cap Less) = 0
    BY <1>6, FS_EmptySet
  <2>. QED  BY <1>3, <1>5, <1>7, <2>1, <2>2
<1>9. Rank(actions, i) = 1 + Cardinality(Before(actions, i))
  BY DEF Rank, Before
<1>10. Rank(actions, i) = Cardinality(E) + j
  BY <1>3, <1>7, <1>8, <1>9
<1>. QED  BY <1>3, <1>10 DEF i, E

\* Behind the actions of a frame come those of the next.
LEMMA EarlierAre ==
    ASSUME NEW actions \in Seq(Action), actions # <<>>
    PROVE  LET K == Cardinality(Frames(actions))
               T == Ticks(actions)
               C(k) == Cardinality(Earlier(actions, T[k]))
               n(k) == Cardinality(Sharing(actions, T[k]))
           IN /\ K \in Nat \ {0} /\ C(1) = 0 /\ C(K) + n(K) = Len(actions)
              /\ \A k \in 1 .. K : C(k) \in Nat
              /\ \A k \in 1 .. K - 1 : C(k + 1) = C(k) + n(k)
<1>. DEFINE K == Cardinality(Frames(actions))
            T == Ticks(actions)
            C(k) == Cardinality(Earlier(actions, T[k]))
            n(k) == Cardinality(Sharing(actions, T[k]))
            N == Len(actions)
<1>1. /\ K \in Nat /\ T \in [1 .. K -> Frames(actions)]
      /\ \A j, k \in 1 .. K : j < k => T[j] < T[k]
      /\ \A f \in Frames(actions) : \E k \in 1 .. K : T[k] = f
  BY TicksAre
<1>2. /\ N \in Nat \ {0} /\ DOMAIN actions = 1 .. N
      /\ \A i \in DOMAIN actions : actions[i].frame \in Nat
      /\ Frames(actions) \in SUBSET Nat
  BY FiniteActions, EmptySeq
<1>3. K \in Nat \ {0}
  <2>1. Frames(actions) # {} /\ IsFiniteSet(Frames(actions))
    <3>1. 1 \in DOMAIN actions
      BY <1>2
    <3>. QED  BY <3>1, FiniteActions DEF Frames
  <2>. QED  BY <1>1, <2>1, FS_EmptySet
<1>. HIDE DEF K, T
<1>4. \A k \in 1 .. K : T[k] \in Nat
  BY <1>1, <1>2
<1>5. ASSUME NEW k \in 1 .. K
      PROVE  /\ IsFiniteSet(Earlier(actions, T[k])) /\ IsFiniteSet(Sharing(actions, T[k]))
             /\ C(k) \in Nat /\ n(k) \in Nat
             /\ Cardinality(Earlier(actions, T[k]) \cup Sharing(actions, T[k])) = C(k) + n(k)
  <2>. DEFINE E == Earlier(actions, T[k])
              S == Sharing(actions, T[k])
  <2>1. E \in SUBSET DOMAIN actions /\ S \in SUBSET DOMAIN actions
    BY DEF Earlier, Sharing
  <2>2. IsFiniteSet(E) /\ IsFiniteSet(S) /\ Cardinality(E) \in 0 .. N /\ Cardinality(S) \in 0 .. N
    BY <2>1, FiniteActions
  <2>3. E \cap S = {}
    BY <1>2, <1>4 DEF Earlier, Sharing
  <2>4. Cardinality(E \cap S) = 0
    BY <2>3, FS_EmptySet
  <2>. HIDE DEF E, S
  <2>5. Cardinality(E \cup S) = Cardinality(E) + Cardinality(S) - Cardinality(E \cap S)
    BY <2>2, FS_Union
  <2>6. Cardinality(E \cup S) = Cardinality(E) + Cardinality(S)
    BY <1>2, <2>2, <2>4, <2>5
  <2>. QED  BY <1>2, <2>2, <2>6 DEF E, S
<1>6. C(1) = 0
  <2>1. Earlier(actions, T[1]) = {}
    <3>1. ASSUME NEW i \in DOMAIN actions PROVE ~(actions[i].frame < T[1])
      <4>1. PICK k \in 1 .. K : T[k] = actions[i].frame
        BY <1>1 DEF Frames
      <4>2. 1 \in 1 .. K /\ (k = 1 \/ 1 < k)
        BY <1>3
      <4>3. k # 1 => T[1] < T[k]
        BY <1>1, <4>2
      <4>. QED  BY <1>4, <4>1, <4>2, <4>3
    <3>. QED  BY <3>1 DEF Earlier
  <2>. QED  BY <2>1, FS_EmptySet
<1>7. C(K) + n(K) = N
  <2>1. K \in 1 .. K
    BY <1>3
  <2>2. Earlier(actions, T[K]) \cup Sharing(actions, T[K]) = DOMAIN actions
    <3>1. ASSUME NEW i \in DOMAIN actions PROVE actions[i].frame < T[K] \/ actions[i].frame = T[K]
      <4>1. PICK k \in 1 .. K : T[k] = actions[i].frame
        BY <1>1 DEF Frames
      <4>2. k = K \/ k < K
        BY <1>3
      <4>. QED  BY <1>1, <2>1, <4>1, <4>2
    <3>. QED  BY <3>1 DEF Earlier, Sharing
  <2>3. Cardinality(DOMAIN actions) = N
    BY FiniteActions
  <2>. QED  BY <1>5, <2>1, <2>2, <2>3
<1>8. ASSUME NEW k \in 1 .. K - 1 PROVE C(k + 1) = C(k) + n(k)
  <2>1. k \in 1 .. K /\ k + 1 \in 1 .. K /\ k < k + 1
    BY <1>3
  <2>2. Earlier(actions, T[k + 1]) = Earlier(actions, T[k]) \cup Sharing(actions, T[k])
    <3>1. ASSUME NEW i \in DOMAIN actions
          PROVE  actions[i].frame < T[k + 1] <=> actions[i].frame < T[k] \/ actions[i].frame = T[k]
      <4>1. PICK l \in 1 .. K : T[l] = actions[i].frame
        BY <1>1 DEF Frames
      <4>2. T[k] < T[k + 1] /\ T[k] \in Nat /\ T[k + 1] \in Nat /\ T[l] \in Nat
        BY <1>1, <1>4, <2>1
      <4>3. l < k \/ l = k \/ l = k + 1 \/ k + 1 < l
        BY <2>1
      <4>4. (l < k => T[l] < T[k]) /\ (k + 1 < l => T[k + 1] < T[l])
        BY <1>1, <2>1
      <4>. QED  BY <4>1, <4>2, <4>3, <4>4
    <3>. QED  BY <3>1 DEF Earlier, Sharing
  <2>. QED  BY <1>5, <2>1, <2>2
<1>. QED  BY <1>3, <1>5, <1>6, <1>7, <1>8 DEF K, T

\* The dance, action by action: the frame each is of, and its place in it.
Ordered(actions, tick, nth) ==
    LET N == Len(actions)
        K == Cardinality(Frames(actions))
        n(k) == Cardinality(Sharing(actions, Ticks(actions)[k]))
    IN /\ tick \in [1 .. N -> 1 .. K] /\ nth \in [1 .. N -> Nat \ {0}]
       /\ \A m \in 1 .. N :
             /\ nth[m] \in 1 .. n(tick[m])
             /\ InOrder(actions)[m] = actions[Ascending(Sharing(actions, Ticks(actions)[tick[m]]))[nth[m]]]
             /\ InOrder(actions)[m].frame = Ticks(actions)[tick[m]]
       /\ tick[1] = 1 /\ nth[1] = 1 /\ tick[N] = K /\ nth[N] = n(K)
       /\ \A m \in 1 .. N - 1 :
             \/ tick[m + 1] = tick[m] /\ nth[m + 1] = nth[m] + 1
             \/ tick[m + 1] = tick[m] + 1 /\ nth[m + 1] = 1 /\ nth[m] = n(tick[m])

\* A dance goes frame by frame, and through each in the order of the text.
LEMMA CanOrder ==
    ASSUME NEW actions \in Seq(Action), actions # <<>>
    PROVE  \E tick, nth : Ordered(actions, tick, nth)
<1>. DEFINE N == Len(actions)
            K == Cardinality(Frames(actions))
            T == Ticks(actions)
            S(k) == Sharing(actions, T[k])
            n(k) == Cardinality(S(k))
            C(k) == Cardinality(Earlier(actions, T[k]))
            On(m, k, j) == k \in 1 .. K /\ j \in 1 .. n(k) /\ C(k) + j = m
            Of(m) == CHOOSE k \in 1 .. K : \E j : On(m, k, j)
            tick == [m \in 1 .. N |-> Of(m)]
            nth == [m \in 1 .. N |-> m - C(tick[m])]
<1>1. /\ K \in Nat \ {0} /\ C(1) = 0 /\ C(K) + n(K) = N
      /\ \A k \in 1 .. K : C(k) \in Nat
      /\ \A k \in 1 .. K - 1 : C(k + 1) = C(k) + n(k)
  BY EarlierAre
<1>2. /\ T \in [1 .. K -> Frames(actions)] /\ \A j, k \in 1 .. K : j < k => T[j] < T[k]
      /\ \A f \in Frames(actions) : \E k \in 1 .. K : T[k] = f
      /\ \A k \in 1 .. K : n(k) \in Nat \ {0}
      /\ Frames(actions) \in SUBSET Nat
  BY TicksAre, FiniteActions
<1>3. /\ N \in Nat \ {0} /\ DOMAIN actions = 1 .. N
  BY FiniteActions, EmptySeq
<1>4. ASSUME NEW k \in 1 .. K, NEW j \in 1 .. n(k)
      PROVE  /\ Ascending(S(k))[j] \in DOMAIN actions
             /\ actions[Ascending(S(k))[j]].frame = T[k]
             /\ Rank(actions, Ascending(S(k))[j]) = C(k) + j
             /\ C(k) + j \in 1 .. N
             /\ InOrder(actions)[C(k) + j] = actions[Ascending(S(k))[j]]
  <2>. DEFINE i == Ascending(S(k))[j]
  <2>1. i \in S(k) /\ Rank(actions, i) = C(k) + j
    BY <1>2, RankIs
  <2>2. i \in DOMAIN actions /\ actions[i].frame = T[k]
    BY <2>1 DEF Sharing
  <2>. HIDE DEF i, S, C, T
  <2>3. Rank(actions, i) \in 1 .. N /\ InOrder(actions)[Rank(actions, i)] = actions[i]
    BY <2>2, InOrderIs
  <2>. QED  BY <2>1, <2>2, <2>3 DEF i
<1>5. ASSUME NEW m \in 1 .. N PROVE \E k, j : On(m, k, j)
  <2>1. PICK i \in DOMAIN actions : Rank(actions, i) = m
    BY InOrderIs
  <2>2. actions[i].frame \in Frames(actions)
    BY DEF Frames
  <2>3. PICK k \in 1 .. K : T[k] = actions[i].frame
    BY <1>2, <2>2
  <2>4. i \in S(k) /\ S(k) \in SUBSET DOMAIN actions
    BY <2>3 DEF Sharing
  <2>5. S(k) \in SUBSET Nat /\ IsFiniteSet(S(k))
    BY <2>4, FiniteActions
  <2>. HIDE DEF S
  <2>6. PICK j \in 1 .. n(k) : Ascending(S(k))[j] = i
    BY <2>4, <2>5, AscendingIs
  <2>7. On(m, k, j)
    BY <1>4, <2>1, <2>6
  <2>. QED  BY <2>7
<1>6. ASSUME NEW m \in 1 .. N, NEW k, NEW j, NEW l, NEW h, On(m, k, j), On(m, l, h)
      PROVE  k = l /\ j = h
  <2>1. k \in 1 .. K /\ j \in 1 .. n(k) /\ C(k) + j = m /\ l \in 1 .. K /\ h \in 1 .. n(l) /\ C(l) + h = m
    BY <1>6
  <2>. DEFINE a == Ascending(S(k))[j]
              b == Ascending(S(l))[h]
  <2>2. /\ a \in DOMAIN actions /\ b \in DOMAIN actions /\ Rank(actions, a) = m /\ Rank(actions, b) = m
        /\ actions[a].frame = T[k] /\ actions[b].frame = T[l]
    BY <1>4, <2>1
  <2>. HIDE DEF a, b
  <2>3. T[k] = T[l]
    <3>1. a = b
      BY <2>2, OnePlace
    <3>. QED  BY <2>2, <3>1
  <2>4. k = l
    <3>1. T[k] \in Nat /\ T[l] \in Nat
      BY <1>2, <2>1
    <3>2. ~(k < l) /\ ~(l < k)
      BY <1>2, <2>1, <2>3, <3>1
    <3>. QED  BY <2>1, <3>2
  <2>5. C(k) \in Nat /\ C(k) + j = C(k) + h /\ j \in Nat /\ h \in Nat
    BY <1>1, <1>2, <2>1, <2>4
  <2>. QED  BY <2>4, <2>5
<1>. HIDE DEF S, T, K, N, n, C
<1>7. ASSUME NEW m \in 1 .. N
      PROVE  On(m, tick[m], nth[m]) /\ nth[m] \in Nat \ {0}
  <2>1. PICK k, j : On(m, k, j)
    BY <1>5
  <2>2. tick[m] = CHOOSE x \in 1 .. K : \E y : On(m, x, y)
    BY DEF tick
  <2>3. tick[m] \in 1 .. K /\ \E y : On(m, tick[m], y)
    <3>1. k \in 1 .. K /\ \E y : On(m, k, y)
      BY <2>1
    <3>. HIDE DEF On, tick
    <3>. QED  BY <2>2, <3>1
  <2>4. PICK y : On(m, tick[m], y)
    BY <2>3
  <2>5. nth[m] = m - C(tick[m])
    BY DEF nth
  <2>. HIDE DEF tick, nth
  <2>6. y = nth[m] /\ nth[m] \in Nat \ {0}
    <3>1. C(tick[m]) \in Nat /\ C(tick[m]) + y = m /\ y \in 1 .. n(tick[m]) /\ n(tick[m]) \in Nat
      BY <1>1, <1>2, <2>4
    <3>. QED  BY <2>5, <3>1
  <2>. QED  BY <2>4, <2>6
<1>8. ASSUME NEW m \in 1 .. N, NEW k, NEW j, On(m, k, j) PROVE tick[m] = k /\ nth[m] = j
  <2>. HIDE DEF On, tick, nth
  <2>. QED  BY <1>6, <1>7, <1>8
<1>9. tick = [m \in 1 .. N |-> tick[m]] /\ nth = [m \in 1 .. N |-> nth[m]]
  <2>. HIDE DEF Of, C
  <2>1. tick = [m \in 1 .. N |-> tick[m]]
    OBVIOUS
  <2>. HIDE DEF tick
  <2>2. nth = [m \in 1 .. N |-> nth[m]]
    OBVIOUS
  <2>. QED  BY <2>1, <2>2
<1>. HIDE DEF tick, nth
<1>10. tick \in [1 .. N -> 1 .. K] /\ nth \in [1 .. N -> Nat \ {0}]
  <2>1. \A m \in 1 .. N : tick[m] \in 1 .. K /\ nth[m] \in Nat \ {0}
    BY <1>7
  <2>. QED  BY <1>9, <2>1
<1>11. \A m \in 1 .. N : /\ nth[m] \in 1 .. n(tick[m])
                         /\ InOrder(actions)[m] = actions[Ascending(S(tick[m]))[nth[m]]]
                         /\ InOrder(actions)[m].frame = T[tick[m]]
  <2>1. ASSUME NEW m \in 1 .. N
        PROVE  /\ nth[m] \in 1 .. n(tick[m])
               /\ InOrder(actions)[m] = actions[Ascending(S(tick[m]))[nth[m]]]
               /\ InOrder(actions)[m].frame = T[tick[m]]
    <3>1. tick[m] \in 1 .. K /\ nth[m] \in 1 .. n(tick[m]) /\ C(tick[m]) + nth[m] = m
      BY <1>7
    <3>2. /\ InOrder(actions)[C(tick[m]) + nth[m]] = actions[Ascending(S(tick[m]))[nth[m]]]
          /\ actions[Ascending(S(tick[m]))[nth[m]]].frame = T[tick[m]]
      BY <1>4, <3>1
    <3>. QED  BY <3>1, <3>2
  <2>. QED  BY <2>1
<1>12. tick[1] = 1 /\ nth[1] = 1 /\ tick[N] = K /\ nth[N] = n(K)
  <2>1. 1 \in 1 .. N /\ N \in 1 .. N /\ 1 \in 1 .. K /\ K \in 1 .. K
    BY <1>1, <1>3
  <2>2. On(1, 1, 1)
    BY <1>1, <1>2, <2>1
  <2>3. On(N, K, n(K))
    BY <1>1, <1>2, <2>1
  <2>. QED  BY <1>8, <2>1, <2>2, <2>3
<1>13. ASSUME NEW m \in 1 .. N - 1
       PROVE  \/ tick[m + 1] = tick[m] /\ nth[m + 1] = nth[m] + 1
              \/ tick[m + 1] = tick[m] + 1 /\ nth[m + 1] = 1 /\ nth[m] = n(tick[m])
  <2>. DEFINE k == tick[m]
              j == nth[m]
  <2>1. m \in 1 .. N /\ m + 1 \in 1 .. N /\ m < N
    BY <1>3
  <2>2. k \in 1 .. K /\ j \in 1 .. n(k) /\ C(k) + j = m /\ C(k) \in Nat /\ n(k) \in Nat \ {0}
    BY <1>1, <1>2, <1>7, <2>1
  <2>. HIDE DEF k, j
  <2>3. CASE j < n(k)
    <3>1. On(m + 1, k, j + 1)
      BY <2>1, <2>2, <2>3
    <3>. QED  BY <1>8, <2>1, <3>1 DEF k, j
  <2>4. CASE j = n(k)
    <3>1. k # K
      BY <1>1, <2>1, <2>2, <2>4
    <3>2. k \in 1 .. K - 1 /\ k + 1 \in 1 .. K
      BY <1>1, <2>2, <3>1
    <3>3. C(k + 1) = m /\ n(k + 1) \in Nat \ {0}
      BY <1>1, <1>2, <2>2, <2>4, <3>2
    <3>4. On(m + 1, k + 1, 1)
      BY <2>1, <3>2, <3>3
    <3>. QED  BY <1>8, <2>1, <2>4, <3>4 DEF k, j
  <2>. QED  BY <2>2, <2>3, <2>4
<1>14. Ordered(actions, tick, nth)
  BY <1>10, <1>11, <1>12, <1>13 DEF Ordered, S, T, K, N, n
<1>. QED  BY <1>14

--------------------------------------------------------------------------------
(* The bytes of a dance.                                                   *)

\* A number before a sequence.
LEMMA Behind ==
    ASSUME NEW d \in Int, NEW s \in Seq(Int)
    PROVE  /\ <<d>> \o s \in Seq(Int) /\ Len(<<d>> \o s) = 1 + Len(s)
           /\ (<<d>> \o s)[1] = d /\ \A q \in 1 .. Len(s) : (<<d>> \o s)[q + 1] = s[q]
<1>1. <<d>> \in Seq(Int) /\ Len(<<d>>) = 1 /\ <<d>>[1] = d /\ Len(s) \in Nat
  BY LenProperties
<1>2. /\ <<d>> \o s \in Seq(Int) /\ Len(<<d>> \o s) = Len(<<d>>) + Len(s)
      /\ \A i \in 1 .. Len(<<d>>) + Len(s) :
            (<<d>> \o s)[i] = IF i <= Len(<<d>>) THEN <<d>>[i] ELSE s[i - Len(<<d>>)]
  BY <1>1, ConcatProperties
<1>. DEFINE all == <<d>> \o s
<1>. HIDE DEF all
<1>3. \A i \in 1 .. 1 + Len(s) : all[i] = IF i <= 1 THEN d ELSE s[i - 1]
  BY <1>1, <1>2 DEF all
<1>4. all[1] = d
  BY <1>1, <1>3
<1>5. \A q \in 1 .. Len(s) : all[q + 1] = s[q]
  <2>1. ASSUME NEW q \in 1 .. Len(s) PROVE all[q + 1] = s[q]
    <3>1. q + 1 \in 1 .. 1 + Len(s) /\ ~(q + 1 <= 1) /\ (q + 1) - 1 = q
      BY <1>1
    <3>. QED  BY <1>3, <3>1
  <2>. QED  BY <2>1
<1>. QED  BY <1>1, <1>2, <1>4, <1>5 DEF all

\* The bytes of an action are its command and its arguments, within their bounds.
LEMMA BytesAre ==
    ASSUME NEW action \in Action
    PROVE  LET a == action.args
               b == Bytes(action)
           IN /\ b \in Seq(Int) /\ Len(b) \in Nat \ {0}
              /\ action.word = Led =>
                    /\ Len(b) = 7 /\ b[1] = 7 /\ b[2] = a[1] /\ b[3] = a[2] /\ b[4] = a[3] /\ b[5] = a[4]
                    /\ a[1] \in 0 .. 4 /\ a[2] \in Byte /\ a[3] \in Byte /\ a[4] \in Byte
              /\ action.word = Motor =>
                    /\ Len(b) = 4 /\ b[1] = 8 /\ b[2] = a[1] /\ b[3] = (a[2] * 20) \div 360
                    /\ a[1] \in 0 .. 1 /\ a[2] \in 0 .. 360
              /\ action.word = Palette =>
                    /\ Len(b) = 3 /\ b[1] = 14 /\ b[2] = a[1] /\ b[3] = 240 + a[2]
                    /\ a[1] \in 0 .. 4 /\ a[2] \in 0 .. 7
<1>. DEFINE a == action.args
            b == Bytes(action)
            max == Bounds(action.word)
<1>1. /\ action.word \in Words /\ a \in Seq(Nat) /\ Len(a) = Len(max)
      /\ \A q \in DOMAIN max : max[q] = Unbounded \/ a[q] <= max[q]
  BY DEF Action
<1>2. \A q \in 1 .. Len(a) : a[q] \in Nat
  BY <1>1, ElementOfSeq
<1>. HIDE DEF a
<1>3. ASSUME action.word = Led
      PROVE  /\ b \in Seq(Int) /\ Len(b) = 7 /\ b[1] = 7 /\ b[2] = a[1] /\ b[3] = a[2] /\ b[4] = a[3] /\ b[5] = a[4]
             /\ a[1] \in 0 .. 4 /\ a[2] \in Byte /\ a[3] \in Byte /\ a[4] \in Byte
  <2>1. max = <<4, 255, 255, 255>>
    BY <1>3, BoundsAre
  <2>. HIDE DEF max
  <2>2. Len(a) = 4 /\ DOMAIN max = 1 .. 4
    BY <1>1, <2>1
  <2>3. a[1] \in 0 .. 4 /\ a[2] \in Byte /\ a[3] \in Byte /\ a[4] \in Byte
    <3>1. max[1] = 4 /\ max[2] = 255 /\ max[3] = 255 /\ max[4] = 255
      BY <2>1
    <3>2. a[1] <= 4 /\ a[2] <= 255 /\ a[3] <= 255 /\ a[4] <= 255
      BY <1>1, <2>2, <3>1 DEF Unbounded
    <3>3. a[1] \in Nat /\ a[2] \in Nat /\ a[3] \in Nat /\ a[4] \in Nat
      BY <1>2, <2>2
    <3>. QED  BY <3>2, <3>3 DEF Byte
  <2>. DEFINE c == <<7>> \o a
  <2>4. b = c \o <<0, 0>>
    <3>1. Bytes(action) = <<CMD_LED>> \o action.args \o <<0, 0>>
      BY <1>3, WordsAssumption, Zenon DEF Bytes
    <3>. QED  BY <3>1 DEF CMD_LED, a
  <2>5. a \in Seq(Int)
    BY <1>1, SeqMonotonic
  <2>6. /\ c \in Seq(Int) /\ Len(c) = 5 /\ c[1] = 7
        /\ c[2] = a[1] /\ c[3] = a[2] /\ c[4] = a[3] /\ c[5] = a[4]
    <3>1. /\ c \in Seq(Int) /\ Len(c) = 1 + Len(a) /\ c[1] = 7
          /\ \A q \in 1 .. Len(a) : c[q + 1] = a[q]
      BY <2>5, Behind
    <3>2. c[1 + 1] = a[1] /\ c[2 + 1] = a[2] /\ c[3 + 1] = a[3] /\ c[4 + 1] = a[4]
      BY <2>2, <3>1
    <3>. HIDE DEF c
    <3>. QED  BY <2>2, <3>1, <3>2
  <2>. DEFINE z == <<0, 0>>
  <2>7. z \in Seq(Int) /\ Len(z) = 2 /\ b = c \o z
    BY <2>4
  <2>. HIDE DEF c, b, z
  <2>8. /\ b \in Seq(Int) /\ Len(b) = 5 + 2
        /\ \A i \in 1 .. 5 + 2 : b[i] = IF i <= 5 THEN c[i] ELSE z[i - 5]
    <3>1. /\ c \o z \in Seq(Int) /\ Len(c \o z) = Len(c) + Len(z)
          /\ \A i \in 1 .. Len(c) + Len(z) : (c \o z)[i] = IF i <= Len(c) THEN c[i] ELSE z[i - Len(c)]
      BY <2>6, <2>7, ConcatProperties
    <3>. QED  BY <2>6, <2>7, <3>1
  <2>. QED  BY <2>3, <2>6, <2>8
<1>4. ASSUME action.word = Motor
      PROVE  /\ b \in Seq(Int) /\ Len(b) = 4 /\ b[1] = 8 /\ b[2] = a[1] /\ b[3] = (a[2] * 20) \div 360
             /\ a[1] \in 0 .. 1 /\ a[2] \in 0 .. 360
  <2>1. max = <<1, 360, Unbounded, 1>>
    BY <1>4, BoundsAre
  <2>. HIDE DEF max
  <2>2. Len(a) = 4 /\ DOMAIN max = 1 .. 4 /\ max[1] = 1 /\ max[2] = 360
    BY <1>1, <2>1
  <2>3. a[1] \in 0 .. 1 /\ a[2] \in 0 .. 360 /\ a[4] \in Nat
    <3>1. a[1] <= 1 /\ a[2] <= 360
      BY <1>1, <2>2 DEF Unbounded
    <3>. QED  BY <1>2, <2>2, <3>1
  <2>4. b = <<8, a[1], (a[2] * 20) \div 360, a[4]>>
    <3>1. Bytes(action) = <<CMD_MOTOR, action.args[1], (action.args[2] * TEETH) \div 360, action.args[4]>>
      BY <1>4, WordsAssumption, Zenon DEF Bytes
    <3>. QED  BY <3>1 DEF CMD_MOTOR, TEETH, a
  <2>5. (a[2] * 20) \div 360 \in Int
    BY <2>3
  <2>. DEFINE v == (a[2] * 20) \div 360
  <2>. HIDE DEF b, v
  <2>6. b = <<8, a[1], v, a[4]>> /\ v \in Int
    BY <2>4, <2>5 DEF v
  <2>7. b \in Seq(Int) /\ Len(b) = 4 /\ b[1] = 8 /\ b[2] = a[1] /\ b[3] = v
    BY <2>3, <2>6
  <2>. QED  BY <2>3, <2>7 DEF v
<1>5. ASSUME action.word = Palette
      PROVE  /\ b \in Seq(Int) /\ Len(b) = 3 /\ b[1] = 14 /\ b[2] = a[1] /\ b[3] = 240 + a[2]
             /\ a[1] \in 0 .. 4 /\ a[2] \in 0 .. 7
  <2>1. max = <<4, 7>>
    BY <1>5, BoundsAre
  <2>. HIDE DEF max
  <2>2. Len(a) = 2 /\ DOMAIN max = 1 .. 2 /\ max[1] = 4 /\ max[2] = 7
    BY <1>1, <2>1
  <2>3. a[1] \in 0 .. 4 /\ a[2] \in 0 .. 7
    <3>1. a[1] <= 4 /\ a[2] <= 7
      BY <1>1, <2>2 DEF Unbounded
    <3>. QED  BY <1>2, <2>2, <3>1
  <2>4. b = <<14, a[1], 240 + a[2]>>
    <3>1. Bytes(action) = <<CMD_PALETTE, action.args[1], PALETTE_0 + action.args[2]>>
      BY <1>5, WordsAssumption, Zenon DEF Bytes
    <3>. QED  BY <3>1 DEF CMD_PALETTE, PALETTE_0, a
  <2>. HIDE DEF b
  <2>5. b \in Seq(Int) /\ Len(b) = 3 /\ b[1] = 14 /\ b[2] = a[1] /\ b[3] = 240 + a[2]
    BY <2>3, <2>4
  <2>. QED  BY <2>3, <2>5
<1>6. b \in Seq(Int) /\ Len(b) \in Nat \ {0}
  <2>. HIDE DEF b
  <2>1. b \in Seq(Int) /\ Len(b) \in {7, 4, 3}
    BY <1>1, <1>3, <1>4, <1>5 DEF Words
  <2>. QED  BY <2>1
<1>. HIDE DEF b, max
<1>. QED  BY <1>3, <1>4, <1>5, <1>6 DEF a, b

\* Division rounds down.
LEMMA DivisionIs ==
    ASSUME NEW x \in Nat, NEW y \in Nat \ {0}
    PROVE  x \div y \in Nat /\ y * (x \div y) <= x /\ x < y * (x \div y) + y
<1>. DEFINE q == x \div y
            r == x % y
<1>1. q \in Nat /\ r \in 0 .. y - 1 /\ x = y * q + r
  BY Z3
<1>. DEFINE p == y * q
<1>2. p \in Nat
  BY <1>1
<1>. HIDE DEF p, q, r
<1>3. x = p + r
  BY <1>1 DEF p
<1>4. p <= x /\ x < p + y
  BY <1>1, <1>2, <1>3
<1>. QED  BY <1>1, <1>4 DEF p, q

\* A number is rounded by half a divisor at the most.
LEMMA RoundIs ==
    ASSUME NEW n \in Nat, NEW d \in Nat \ {0}
    PROVE  /\ Round(n, d) \in Nat /\ d * Round(n, d) \in Nat
           /\ 2 * (d * Round(n, d)) <= 2 * n + d /\ 2 * n < 2 * (d * Round(n, d)) + d
<1>. DEFINE u == Round(n, d)
            x == 2 * n + d
            y == 2 * d
<1>1. u = x \div y /\ x \in Nat /\ y \in Nat \ {0}
  BY DEF Round
<1>. HIDE DEF u, x, y
<1>2. u \in Nat /\ y * u <= x /\ x < y * u + y
  BY <1>1, DivisionIs
<1>3. y * u = 2 * (d * u) /\ d * u \in Nat
  BY <1>2 DEF y
<1>. DEFINE p == d * u
<1>4. p \in Nat /\ 2 * p <= x /\ x < 2 * p + y
  BY <1>2, <1>3
<1>. HIDE DEF p
<1>5. 2 * p <= 2 * n + d /\ 2 * n < 2 * p + d
  BY <1>4 DEF x, y
<1>. QED  BY <1>2, <1>4, <1>5 DEF p, u

\* The unit of the delays is not nothing.
LEMMA UnitIs == ASSUME NEW fps \in 1 .. 100 PROVE frame_dur_10ms(fps) \in Nat \ {0}
<1>. DEFINE dur == frame_dur_10ms(fps)
            p == fps * dur
<1>1. dur = Round(100, fps)
  BY DEF frame_dur_10ms
<1>. HIDE DEF dur
<1>2. dur \in Nat /\ p \in Nat /\ 200 < 2 * p + fps
  <2>1. fps \in Nat \ {0} /\ 100 \in Nat
    OBVIOUS
  <2>2. dur \in Nat /\ fps * dur \in Nat /\ 2 * 100 < 2 * (fps * dur) + fps
    BY <1>1, <2>1, RoundIs
  <2>3. 2 * 100 = 200
    OBVIOUS
  <2>. QED  BY <2>2, <2>3
<1>3. dur # 0
  <2>1. dur = 0 => p = 0
    OBVIOUS
  <2>. HIDE DEF p
  <2>. QED  BY <1>2, <2>1
<1>. QED  BY <1>2, <1>3 DEF dur

\* The moment of a frame is a number of units, and the nearest one.
LEMMA MomentIs ==
    ASSUME NEW fps \in 1 .. 100, NEW frame \in Nat
    PROVE  LET d == fps * frame_dur_10ms(fps)
               u == frames_in_10ms_unit(frame, fps, frame_dur_10ms(fps))
           IN /\ d \in Nat \ {0} /\ u \in Nat /\ d * u \in Nat
              /\ 2 * (d * u) <= 2 * (100 * frame) + d /\ 2 * (100 * frame) < 2 * (d * u) + d
<1>. DEFINE d == fps * frame_dur_10ms(fps)
            u == frames_in_10ms_unit(frame, fps, frame_dur_10ms(fps))
<1>1. d \in Nat \ {0}
  BY UnitIs
<1>2. u = Round(100 * frame, d)
  BY DEF frames_in_10ms_unit
<1>. HIDE DEF d, u
<1>3. /\ u \in Nat /\ d * u \in Nat
      /\ 2 * (d * u) <= 2 * (100 * frame) + d /\ 2 * (100 * frame) < 2 * (d * u) + d
  BY <1>1, <1>2, RoundIs
<1>. QED  BY <1>1, <1>3 DEF d, u

\* So what is heard at that moment is on time.
LEMMA MomentIsClose ==
    ASSUME NEW fps \in 1 .. 100, NEW frame \in Nat
    PROVE  Within((10 * frame_dur_10ms(fps) * frames_in_10ms_unit(frame, fps, frame_dur_10ms(fps))) * fps,
                  1000 * frame, 5 * frame_dur_10ms(fps) * fps)
<1>. DEFINE dur == frame_dur_10ms(fps)
            d == fps * dur
            u == frames_in_10ms_unit(frame, fps, dur)
            p == d * u
<1>1. dur \in Nat \ {0} /\ u \in Nat
  BY UnitIs, MomentIs
<1>2. d \in Nat \ {0} /\ p \in Nat /\ 2 * p <= 2 * (100 * frame) + d /\ 2 * (100 * frame) < 2 * p + d
  BY MomentIs
<1>. HIDE DEF dur, u
<1>3. (10 * dur * u) * fps = 10 * p /\ 5 * dur * fps = 5 * d
  <2>1. (10 * dur * u) * fps = 10 * ((fps * dur) * u)
    BY <1>1
  <2>2. 5 * dur * fps = 5 * (fps * dur)
    BY <1>1
  <2>. QED  BY <2>1, <2>2
<1>. HIDE DEF p, d
<1>4. Within(10 * p, 1000 * frame, 5 * d)
  BY <1>2 DEF Within
<1>5. Within((10 * dur * u) * fps, 1000 * frame, 5 * dur * fps)
  BY <1>3, <1>4
<1>. QED  BY <1>5 DEF u, dur

\* What Chunk puts one behind the other.
Items(actions, f, dt) ==
    [j \in 1 .. Cardinality(Sharing(actions, f)) |->
        <<IF j = 1 THEN dt ELSE 0>> \o Bytes(actions[Ascending(Sharing(actions, f))[j]])]

\* The actions of one frame, each behind its delay.
LEMMA ChunkIs ==
    ASSUME NEW actions \in Seq(Action), NEW f \in Frames(actions), NEW dt \in Int
    PROVE  LET n == Cardinality(Sharing(actions, f))
               items == Items(actions, f, dt)
           IN /\ Chunk(actions, f, dt) \in Seq(Int)
              /\ \E off : Starts(items, n, off, Chunk(actions, f, dt))
              /\ Len(items) = n /\ \A j \in 1 .. n : items[j] \in Seq(Int)
<1>. DEFINE S == Sharing(actions, f)
            n == Cardinality(S)
            shared == Ascending(S)
            items == Items(actions, f, dt)
<1>1. n \in Nat \ {0}
  BY TicksAre
<1>2. S \in SUBSET Nat /\ IsFiniteSet(S) /\ S \in SUBSET DOMAIN actions
  <2>1. S \in SUBSET DOMAIN actions
    BY DEF Sharing
  <2>. QED  BY <2>1, FiniteActions
<1>3. shared \in [1 .. n -> S]
  BY <1>2, AscendingIs
<1>4. Chunk(actions, f, dt) = FlattenSeq(items)
  <2>1. DOMAIN shared = 1 .. n
    BY <1>3
  <2>2. Chunk(actions, f, dt) =
            FlattenSeq([j \in DOMAIN shared |-> <<IF j = 1 THEN dt ELSE 0>> \o Bytes(actions[shared[j]])])
    BY DEF Chunk, Sharing
  <2>. QED  BY <2>1, <2>2, Zenon DEF Items
<1>5. \A j \in 1 .. n : items[j] \in Seq(Int)
  <2>1. ASSUME NEW j \in 1 .. n PROVE items[j] \in Seq(Int)
    <3>1. actions[shared[j]] \in Action
      BY <1>2, <1>3, FiniteActions
    <3>. DEFINE b == Bytes(actions[shared[j]])
                d == IF j = 1 THEN dt ELSE 0
    <3>2. b \in Seq(Int) /\ d \in Int
      BY <3>1, BytesAre
    <3>3. items[j] = <<d>> \o b
      BY DEF Items
    <3>. HIDE DEF b, d
    <3>. QED  BY <3>2, <3>3, Behind
  <2>. QED  BY <2>1
<1>6. Len(items) = n
  <2>1. items = [j \in 1 .. n |-> items[j]]
    BY DEF Items
  <2>. HIDE DEF items, n
  <2>2. items \in [1 .. n -> Seq(Int)]
    BY <1>5, <2>1
  <2>. QED  BY <1>1, <2>2, FunctionIsSeq
<1>. HIDE DEF items, n
<1>7. FlattenSeq(items) \in Seq(Int) /\ \E off : Starts(items, n, off, FlattenSeq(items))
  BY <1>1, <1>5, <1>6, FlattenIs
<1>. QED  BY <1>4, <1>5, <1>6, <1>7 DEF items, n

\* Where each action of a dance lies in its bytes, behind its delay.
Emitted(all, asked, N, wait, pos) ==
    /\ pos \in [1 .. N + 1 -> Nat] /\ pos[1] = 0 /\ pos[N + 1] = Len(all)
    /\ \A m \in 1 .. N :
          /\ pos[m + 1] = pos[m] + 1 + Len(Bytes(asked[m])) /\ pos[m + 1] <= Len(all)
          /\ all[pos[m] + 1] = wait[m]
          /\ \A q \in 1 .. Len(Bytes(asked[m])) : all[pos[m] + 1 + q] = Bytes(asked[m])[q]

\* The bytes of a dance are those of its actions in its order.
LEMMA DanceIsEmitted ==
    ASSUME NEW actions \in Seq(Action), actions # <<>>,
           NEW dt \in [1 .. Cardinality(Frames(actions)) -> Int],
           NEW tick, NEW nth, Ordered(actions, tick, nth)
    PROVE  LET K == Cardinality(Frames(actions))
               N == Len(actions)
               all == FlattenSeq([k \in 1 .. K |-> Chunk(actions, Ticks(actions)[k], dt[k])])
               wait == [m \in 1 .. N |-> IF nth[m] = 1 THEN dt[tick[m]] ELSE 0]
           IN /\ all \in Seq(Int)
              /\ \E pos : Emitted(all, InOrder(actions), N, wait, pos)
<1>. DEFINE K == Cardinality(Frames(actions))
            N == Len(actions)
            T == Ticks(actions)
            n(k) == Cardinality(Sharing(actions, T[k]))
            chunk(k) == Chunk(actions, T[k], dt[k])
            items(k) == Items(actions, T[k], dt[k])
            chunks == [k \in 1 .. K |-> chunk(k)]
            all == FlattenSeq(chunks)
            asked == InOrder(actions)
            Bs(m) == Bytes(asked[m])
            wait == [m \in 1 .. N |-> IF nth[m] = 1 THEN dt[tick[m]] ELSE 0]
<1>1. /\ N \in Nat \ {0} /\ K \in Nat \ {0} /\ T \in [1 .. K -> Frames(actions)]
      /\ \A k \in 1 .. K : n(k) \in Nat \ {0} /\ dt[k] \in Int
  BY TicksAre, EarlierAre, FiniteActions, EmptySeq
<1>2. /\ tick \in [1 .. N -> 1 .. K] /\ nth \in [1 .. N -> Nat \ {0}]
      /\ \A m \in 1 .. N : nth[m] \in 1 .. n(tick[m])
      /\ tick[1] = 1 /\ nth[1] = 1 /\ tick[N] = K /\ nth[N] = n(K)
      /\ \A m \in 1 .. N - 1 :
             \/ tick[m + 1] = tick[m] /\ nth[m + 1] = nth[m] + 1
             \/ tick[m + 1] = tick[m] + 1 /\ nth[m + 1] = 1 /\ nth[m] = n(tick[m])
  BY DEF Ordered
<1>3. ASSUME NEW k \in 1 .. K
      PROVE  /\ chunk(k) \in Seq(Int) /\ \E off : Starts(items(k), n(k), off, chunk(k))
             /\ \A j \in 1 .. n(k) : items(k)[j] \in Seq(Int) /\ Len(items(k)[j]) \in Nat
  <2>1. T[k] \in Frames(actions) /\ dt[k] \in Int
    BY <1>1
  <2>. HIDE DEF T, K
  <2>2. /\ chunk(k) \in Seq(Int) /\ \E off : Starts(items(k), n(k), off, chunk(k))
        /\ \A j \in 1 .. n(k) : items(k)[j] \in Seq(Int)
    BY <2>1, ChunkIs
  <2>. QED  BY <2>2, LenProperties
\* What lies at a place of the dance.
<1>4. ASSUME NEW m \in 1 .. N
      PROVE  /\ Bs(m) \in Seq(Int) /\ Len(Bs(m)) \in Nat \ {0} /\ wait[m] \in Int
             /\ items(tick[m])[nth[m]] = <<wait[m]>> \o Bs(m)
  <2>1. tick[m] \in 1 .. K /\ nth[m] \in 1 .. n(tick[m])
    BY <1>2
  <2>. DEFINE i == Ascending(Sharing(actions, T[tick[m]]))[nth[m]]
  <2>2. asked[m] = actions[i]
    BY DEF Ordered
  <2>3. i \in DOMAIN actions
    <3>1. T[tick[m]] \in Frames(actions)
      BY <1>1, <2>1
    <3>2. i \in Sharing(actions, T[tick[m]])
      <4>. HIDE DEF T
      <4>. QED  BY <2>1, <3>1, RankIs
    <3>. QED  BY <3>2 DEF Sharing
  <2>4. asked[m] \in Action
    <3>. HIDE DEF i
    <3>. QED  BY <2>2, <2>3, FiniteActions
  <2>5. wait[m] = IF nth[m] = 1 THEN dt[tick[m]] ELSE 0
    OBVIOUS
  <2>6. items(tick[m])[nth[m]] = <<IF nth[m] = 1 THEN dt[tick[m]] ELSE 0>> \o Bytes(actions[i])
    BY <2>1 DEF Items
  <2>7. wait[m] \in Int
    BY <1>1, <2>1, <2>5
  <2>8. Bs(m) \in Seq(Int) /\ Len(Bs(m)) \in Nat \ {0}
    <3>. HIDE DEF asked
    <3>. QED  BY <2>4, BytesAre
  <2>9. items(tick[m])[nth[m]] = <<wait[m]>> \o Bs(m)
    <3>. HIDE DEF items, wait, asked, i
    <3>. QED  BY <2>2, <2>5, <2>6
  <2>. QED  BY <2>7, <2>8, <2>9
<1>. HIDE DEF T, wait, asked, K, N, items, chunk, n
\* The chunks, one behind the other.
<1>5. all \in Seq(Int) /\ \E off : Starts(chunks, K, off, all)
  <2>1. chunks \in [1 .. K -> Seq(Int)] /\ \A k \in 1 .. K : chunks[k] \in Seq(Int)
    BY <1>3
  <2>. HIDE DEF chunks
  <2>2. Len(chunks) = K
    BY <1>1, <2>1, FunctionIsSeq
  <2>. QED  BY <1>1, <2>1, <2>2, FlattenIs
<1>6. PICK off : Starts(chunks, K, off, all)
  BY <1>5
<1>. DEFINE In(k) == CHOOSE o : Starts(items(k), n(k), o, chunk(k))
            inner == [k \in 1 .. K |-> In(k)]
<1>7. ASSUME NEW k \in 1 .. K PROVE Starts(items(k), n(k), inner[k], chunk(k))
  <2>1. Starts(items(k), n(k), In(k), chunk(k))
    BY <1>3
  <2>2. inner[k] = In(k)
    BY Zenon
  <2>. QED  BY <2>1, <2>2
<1>. HIDE DEF inner, all
<1>8. /\ \A k \in 1 .. K + 1 : off[k] \in Nat
      /\ off[1] = 0 /\ off[K + 1] = Len(all)
      /\ \A k \in 1 .. K : off[k + 1] = off[k] + Len(chunk(k))
      /\ \A k \in 1 .. K : \A r \in 1 .. Len(chunk(k)) :
            all[off[k] + r] = chunk(k)[r] /\ off[k] + r \in 1 .. Len(all)
  <2>1. \A k \in 1 .. K : chunks[k] = chunk(k)
    OBVIOUS
  <2>2. \A k \in 1 .. K : Len(chunks[k]) \in Nat
    BY <1>3, <2>1, LenProperties
  <2>. HIDE DEF chunks
  <2>3. \A k \in 1 .. K : \A r \in 1 .. Len(chunks[k]) : off[k] + r \in 1 .. Len(all)
    BY <1>1, <1>6, <2>2, StartsWithin
  <2>. QED  BY <1>6, <2>1, <2>3 DEF Starts
<1>. HIDE DEF chunks
<1>9. ASSUME NEW k \in 1 .. K
      PROVE  /\ inner[k][1] = 0 /\ inner[k][n(k) + 1] = Len(chunk(k)) /\ Len(chunk(k)) \in Nat
             /\ \A j \in 1 .. n(k) :
                   /\ inner[k][j] \in Nat
                   /\ inner[k][j + 1] = inner[k][j] + Len(items(k)[j])
                   /\ \A q \in 1 .. Len(items(k)[j]) :
                         /\ all[off[k] + (inner[k][j] + q)] = items(k)[j][q]
                         /\ off[k] + (inner[k][j] + q) \in 1 .. Len(all)
  <2>1. /\ inner[k] \in [1 .. n(k) + 1 -> Nat] /\ inner[k][1] = 0
        /\ \A j \in 1 .. n(k) : inner[k][j + 1] = inner[k][j] + Len(items(k)[j])
        /\ Len(chunk(k)) = inner[k][n(k) + 1]
        /\ \A j \in 1 .. n(k) : \A q \in 1 .. Len(items(k)[j]) :
              chunk(k)[inner[k][j] + q] = items(k)[j][q]
    BY <1>7 DEF Starts
  <2>2. \A j \in 1 .. n(k) : \A q \in 1 .. Len(items(k)[j]) : inner[k][j] + q \in 1 .. Len(chunk(k))
    <3>1. n(k) \in Nat /\ \A j \in 1 .. n(k) : Len(items(k)[j]) \in Nat
      BY <1>1, <1>3
    <3>. QED  BY <1>7, <3>1, StartsWithin
  <2>3. \A j \in 1 .. n(k) : \A q \in 1 .. Len(items(k)[j]) :
            /\ all[off[k] + (inner[k][j] + q)] = items(k)[j][q]
            /\ off[k] + (inner[k][j] + q) \in 1 .. Len(all)
    BY <1>8, <2>1, <2>2, Zenon
  <2>4. \A j \in 1 .. n(k) : j \in 1 .. n(k) + 1
    BY <1>1
  <2>5. Len(chunk(k)) \in Nat
    BY <1>3, LenProperties
  <2>. QED  BY <2>1, <2>3, <2>4, <2>5
\* Where each action lies.
<1>. DEFINE there(m) == off[tick[m]] + inner[tick[m]][nth[m]]
            pos == [m \in 1 .. N + 1 |-> IF m = N + 1 THEN Len(all) ELSE there(m)]
<1>10. ASSUME NEW m \in 1 .. N
       PROVE  /\ there(m) \in Nat /\ off[tick[m]] \in Nat /\ inner[tick[m]][nth[m]] \in Nat
              /\ off[tick[m]] + inner[tick[m]][nth[m] + 1] = there(m) + 1 + Len(Bs(m))
              /\ there(m) + 1 + Len(Bs(m)) <= Len(all)
              /\ all[there(m) + 1] = wait[m]
              /\ \A q \in 1 .. Len(Bs(m)) : all[there(m) + 1 + q] = Bs(m)[q]
  <2>. DEFINE k == tick[m]
              j == nth[m]
              b == Bs(m)
              w == wait[m]
              item == items(k)[j]
              o == off[k]
              i == inner[k][j]
  <2>1. k \in 1 .. K /\ k \in 1 .. K + 1 /\ j \in 1 .. n(k)
    BY <1>1, <1>2
  <2>2. b \in Seq(Int) /\ Len(b) \in Nat \ {0} /\ w \in Int /\ item = <<w>> \o b
    BY <1>4
  <2>3. /\ o \in Nat /\ i \in Nat /\ inner[k][j + 1] = i + Len(item)
        /\ \A q \in 1 .. Len(item) : all[o + (i + q)] = item[q]
        /\ \A q \in 1 .. Len(item) : o + (i + q) \in 1 .. Len(all)
    BY <1>8, <1>9, <2>1
  <2>. HIDE DEF k, j, b, w, item, o, i
  <2>4. /\ Len(item) = 1 + Len(b) /\ item[1] = w /\ \A q \in 1 .. Len(b) : item[q + 1] = b[q]
    BY <2>2, Behind
  <2>5. all[o + i + 1] = w
    <3>1. 1 \in 1 .. Len(item) /\ o + (i + 1) = o + i + 1
      BY <2>2, <2>3, <2>4
    <3>. QED  BY <2>3, <2>4, <3>1
  <2>6. ASSUME NEW q \in 1 .. Len(b) PROVE all[o + i + 1 + q] = b[q]
    <3>1. q + 1 \in 1 .. Len(item) /\ o + (i + (q + 1)) = o + i + 1 + q
      BY <2>2, <2>3, <2>4
    <3>2. all[o + (i + (q + 1))] = item[q + 1] /\ item[q + 1] = b[q]
      BY <2>3, <2>4, <3>1, Zenon
    <3>. QED  BY <3>1, <3>2, Zenon
  <2>7. o + (i + Len(item)) = o + i + 1 + Len(b) /\ o + i \in Nat
    <3>1. o \in Nat /\ i \in Nat /\ Len(b) \in Nat /\ Len(item) = 1 + Len(b)
      BY <2>2, <2>3, <2>4
    <3>. QED  BY ONLY <3>1
  <2>8. o + i + 1 + Len(b) <= Len(all)
    <3>1. Len(item) \in 1 .. Len(item) /\ Len(all) \in Nat
      BY <1>5, <2>2, <2>4, LenProperties
    <3>2. o + (i + Len(item)) \in 1 .. Len(all)
      BY <2>3, <3>1
    <3>. QED  BY <2>7, <3>1, <3>2
  <2>. QED  BY <2>3, <2>5, <2>6, <2>7, <2>8 DEF k, j, b, w, o, i
<1>11. ASSUME NEW m \in 1 .. N PROVE pos[m] = there(m) /\ pos[m] \in Nat
  <2>1. m \in 1 .. N + 1 /\ m # N + 1
    BY <1>1
  <2>2. there(m) \in Nat
    BY <1>10
  <2>. HIDE DEF there
  <2>. QED  BY <2>1, <2>2
<1>12. pos[N + 1] = Len(all) /\ Len(all) \in Nat
  <2>1. N + 1 \in 1 .. N + 1
    BY <1>1
  <2>. HIDE DEF there
  <2>. QED  BY <1>5, <2>1, LenProperties
<1>13. pos = [m \in 1 .. N + 1 |-> pos[m]]
  <2>. HIDE DEF there
  <2>. QED  OBVIOUS
<1>. HIDE DEF pos
<1>14. pos \in [1 .. N + 1 -> Nat]
  <2>1. \A m \in 1 .. N + 1 : m = N + 1 \/ m \in 1 .. N
    BY <1>1
  <2>2. \A m \in 1 .. N + 1 : pos[m] \in Nat
    BY <1>11, <1>12, <2>1
  <2>. QED  BY <1>13, <2>2
<1>15. pos[1] = 0
  <2>1. 1 \in 1 .. N /\ 1 \in 1 .. K
    BY <1>1
  <2>2. off[1] = 0 /\ inner[1][1] = 0
    BY <1>8, <1>9, <2>1
  <2>. QED  BY <1>2, <1>11, <2>1, <2>2
<1>16. ASSUME NEW m \in 1 .. N PROVE pos[m + 1] = pos[m] + 1 + Len(Bs(m))
  <2>1. pos[m] + 1 + Len(Bs(m)) = off[tick[m]] + inner[tick[m]][nth[m] + 1]
    BY <1>10, <1>11
  <2>2. CASE m = N
    <3>1. tick[m] = K /\ nth[m] = n(K) /\ K \in 1 .. K
      BY <1>1, <1>2, <2>2
    <3>2. off[K] + inner[K][n(K) + 1] = Len(all)
      BY <1>8, <1>9, <3>1
    <3>. QED  BY <1>12, <2>1, <2>2, <3>1, <3>2
  <2>3. CASE m # N
    <3>1. m \in 1 .. N - 1 /\ m + 1 \in 1 .. N
      BY <1>1, <2>3
    <3>2. pos[m + 1] = off[tick[m + 1]] + inner[tick[m + 1]][nth[m + 1]]
      BY <1>11, <3>1
    <3>3. CASE tick[m + 1] = tick[m] /\ nth[m + 1] = nth[m] + 1
      BY <2>1, <3>2, <3>3
    <3>4. CASE tick[m + 1] = tick[m] + 1 /\ nth[m + 1] = 1 /\ nth[m] = n(tick[m])
      <4>. DEFINE k == tick[m]
      <4>1. k \in 1 .. K /\ k + 1 \in 1 .. K
        BY <1>2, <3>1, <3>4
      <4>. HIDE DEF k
      <4>2. /\ inner[k + 1][1] = 0 /\ off[k + 1] = off[k] + inner[k][n(k) + 1]
            /\ off[k + 1] + 0 = off[k + 1]
        <5>1. k + 1 \in 1 .. K + 1
          BY <1>1, <4>1
        <5>2. off[k + 1] \in Nat
          BY <1>8, <5>1
        <5>. QED  BY <1>8, <1>9, <4>1, <5>2
      <4>3. tick[m + 1] = k + 1 /\ nth[m + 1] = 1 /\ nth[m] = n(k)
        BY <3>4 DEF k
      <4>4. pos[m + 1] = off[k + 1]
        BY <3>2, <4>2, <4>3
      <4>5. off[tick[m]] + inner[tick[m]][nth[m] + 1] = off[k + 1]
        BY <4>2, <4>3 DEF k
      <4>. QED  BY <2>1, <4>4, <4>5
    <3>. QED  BY <1>2, <3>1, <3>3, <3>4
  <2>. QED  BY <2>2, <2>3
<1>17. Emitted(all, asked, N, wait, pos)
  <2>1. \A m \in 1 .. N : /\ pos[m + 1] = pos[m] + 1 + Len(Bytes(asked[m])) /\ pos[m + 1] <= Len(all)
                          /\ all[pos[m] + 1] = wait[m]
                          /\ \A q \in 1 .. Len(Bytes(asked[m])) :
                                all[pos[m] + 1 + q] = Bytes(asked[m])[q]
    <3>1. ASSUME NEW m \in 1 .. N
          PROVE  /\ all[pos[m] + 1] = wait[m] /\ pos[m] + 1 + Len(Bs(m)) <= Len(all)
                 /\ \A q \in 1 .. Len(Bs(m)) : all[pos[m] + 1 + q] = Bs(m)[q]
      <4>1. pos[m] = there(m)
        BY <1>11
      <4>. HIDE DEF there
      <4>. QED  BY <1>10, <4>1
    <3>. QED  BY <1>16, <3>1
  <2>. QED  BY <1>12, <1>14, <1>15, <2>1 DEF Emitted
<1>18. all \in Seq(Int) /\ \E p : Emitted(all, asked, N, wait, p)
  BY <1>5, <1>17
<1>. QED  BY <1>18 DEF all, asked, N, wait, K, T, chunks, chunk

--------------------------------------------------------------------------------
(* The file of a dance.                                                    *)

\* The moment of an action, in the unit of the delays; the dance starts at 0.
Moment(asked, m, fps) ==
    IF m = 0 THEN 0 ELSE frames_in_10ms_unit(asked[m].frame, fps, frame_dur_10ms(fps))

\* What a file holds: the tempo, and each action where it is, behind the time since
\* the one before; then zeros.
Laid(data, fps, asked, N, pos) ==
    /\ pos \in [1 .. N + 1 -> Nat \ {0}] /\ pos[1] = 8
    /\ data[6] = 1 /\ data[7] = frame_dur_10ms(fps)
    /\ Len(data) = pos[N + 1] + 3 /\ data[pos[N + 1]] = 0 /\ data[pos[N + 1] + 1] = 0
    /\ \A m \in 1 .. N :
          /\ pos[m + 1] = pos[m] + 1 + Len(Bytes(asked[m])) /\ pos[m + 1] <= pos[N + 1]
          /\ data[pos[m]] = Moment(asked, m, fps) - Moment(asked, m - 1, fps)
          /\ \A q \in 1 .. Len(Bytes(asked[m])) : data[pos[m] + q] = Bytes(asked[m])[q]

\* A file around the bytes of a dance.
LEMMA FileIs ==
    ASSUME NEW a, NEW b, NEW c, NEW d, NEW dur \in Int, NEW all \in Seq(Int)
    PROVE  LET data == <<a, b, c, d>> \o (<<0, 1, dur>> \o all \o <<0, 0, 0, 0>>)
               L == Len(all)
           IN /\ Len(data) = L + 11 /\ data[6] = 1 /\ data[7] = dur
              /\ data[L + 8] = 0 /\ data[L + 9] = 0
              /\ \A r \in 1 .. L : data[r + 7] = all[r]
<1>. DEFINE S == Int \cup {a, b, c, d}
            head == <<a, b, c, d>>
            tempo == <<0, 1, dur>>
            zeros == <<0, 0, 0, 0>>
            front == tempo \o all
            body == front \o zeros
            data == head \o body
            L == Len(all)
<1>1. head \in Seq(S) /\ Len(head) = 4
  OBVIOUS
<1>2. tempo \in Seq(S) /\ Len(tempo) = 3 /\ tempo[2] = 1 /\ tempo[3] = dur
  OBVIOUS
<1>3. zeros \in Seq(S) /\ Len(zeros) = 4 /\ zeros[1] = 0 /\ zeros[2] = 0
  OBVIOUS
<1>4. all \in Seq(S) /\ L \in Nat
  <2>1. Int \subseteq S
    OBVIOUS
  <2>. HIDE DEF S
  <2>. QED  BY <2>1, SeqMonotonic, LenProperties
<1>. HIDE DEF head, tempo, zeros, S
<1>5. /\ front \in Seq(S) /\ Len(front) = Len(tempo) + L
      /\ \A i \in 1 .. Len(tempo) + L : front[i] = IF i <= Len(tempo) THEN tempo[i] ELSE all[i - Len(tempo)]
  BY <1>2, <1>4, ConcatProperties
<1>. HIDE DEF front
<1>6. /\ body \in Seq(S) /\ Len(body) = Len(front) + Len(zeros)
      /\ \A i \in 1 .. Len(front) + Len(zeros) :
            body[i] = IF i <= Len(front) THEN front[i] ELSE zeros[i - Len(front)]
  <2>1. front \in Seq(S) /\ zeros \in Seq(S)
    BY <1>3, <1>5
  <2>. QED  BY <2>1, ConcatProperties
<1>. HIDE DEF body
<1>7. /\ data \in Seq(S) /\ Len(data) = Len(head) + Len(body)
      /\ \A i \in 1 .. Len(head) + Len(body) :
            data[i] = IF i <= Len(head) THEN head[i] ELSE body[i - Len(head)]
  <2>1. head \in Seq(S) /\ body \in Seq(S)
    BY <1>1, <1>6
  <2>. QED  BY <2>1, ConcatProperties
<1>. HIDE DEF data, L
<1>8. Len(front) = L + 3 /\ Len(body) = L + 7 /\ Len(data) = L + 11
  BY <1>1, <1>2, <1>3, <1>4, <1>5, <1>6, <1>7
<1>9. \A i \in 1 .. L + 7 : data[i + 4] = body[i]
  <2>1. ASSUME NEW i \in 1 .. L + 7 PROVE data[i + 4] = body[i]
    <3>1. i + 4 \in 1 .. Len(head) + Len(body) /\ ~(i + 4 <= Len(head)) /\ (i + 4) - Len(head) = i
      BY <1>1, <1>4, <1>8
    <3>. QED  BY <1>7, <3>1
  <2>. QED  BY <2>1
<1>10. /\ \A i \in 1 .. L + 3 : body[i] = front[i]
       /\ body[L + 4] = 0 /\ body[L + 5] = 0
  <2>1. \A i \in 1 .. L + 3 : i \in 1 .. Len(front) + Len(zeros) /\ i <= Len(front)
    BY <1>3, <1>4, <1>8
  <2>2. /\ L + 4 \in 1 .. Len(front) + Len(zeros) /\ ~(L + 4 <= Len(front)) /\ (L + 4) - Len(front) = 1
        /\ L + 5 \in 1 .. Len(front) + Len(zeros) /\ ~(L + 5 <= Len(front)) /\ (L + 5) - Len(front) = 2
    BY <1>3, <1>4, <1>8
  <2>. QED  BY <1>3, <1>6, <2>1, <2>2
<1>11. front[2] = 1 /\ front[3] = dur /\ \A r \in 1 .. L : front[r + 3] = all[r]
  <2>1. 2 \in 1 .. Len(tempo) + L /\ 2 <= Len(tempo) /\ 3 \in 1 .. Len(tempo) + L /\ 3 <= Len(tempo)
    BY <1>2, <1>4
  <2>2. \A r \in 1 .. L : /\ r + 3 \in 1 .. Len(tempo) + L /\ ~(r + 3 <= Len(tempo))
                          /\ (r + 3) - Len(tempo) = r
    BY <1>2, <1>4
  <2>. QED  BY <1>2, <1>5, <2>1, <2>2
<1>12. data[6] = 1 /\ data[7] = dur
  <2>1. 2 \in 1 .. L + 3 /\ 3 \in 1 .. L + 3 /\ 2 \in 1 .. L + 7 /\ 3 \in 1 .. L + 7 /\ 2 + 4 = 6 /\ 3 + 4 = 7
    BY <1>4
  <2>. QED  BY <1>9, <1>10, <1>11, <2>1
<1>13. data[L + 8] = 0 /\ data[L + 9] = 0
  <2>1. L + 4 \in 1 .. L + 7 /\ L + 5 \in 1 .. L + 7 /\ (L + 4) + 4 = L + 8 /\ (L + 5) + 4 = L + 9
    BY <1>4
  <2>. QED  BY <1>9, <1>10, <2>1
<1>14. \A r \in 1 .. L : data[r + 7] = all[r]
  <2>1. \A r \in 1 .. L : r + 3 \in 1 .. L + 3 /\ r + 3 \in 1 .. L + 7 /\ (r + 3) + 4 = r + 7
    BY <1>4
  <2>. QED  BY <1>9, <1>10, <1>11, <2>1
<1>. QED  BY <1>8, <1>12, <1>13, <1>14 DEF data, L, body, front, head, tempo, zeros

\* The first action of a frame waits since the frame before; the others do not.
LEMMA WaitsAre ==
    ASSUME NEW actions \in Seq(Action), actions # <<>>, NEW fps, NEW tick, NEW nth,
           Ordered(actions, tick, nth), NEW m \in 1 .. Len(actions),
           \A i \in DOMAIN actions :
              frames_in_10ms_unit(actions[i].frame, fps, frame_dur_10ms(fps)) \in Nat
    PROVE  /\ Moment(InOrder(actions), m, fps) \in Nat
           /\ (IF nth[m] = 1 THEN Delay(Ticks(actions), tick[m], fps, frame_dur_10ms(fps)) ELSE 0)
                = Moment(InOrder(actions), m, fps) - Moment(InOrder(actions), m - 1, fps)
<1>. DEFINE N == Len(actions)
            T == Ticks(actions)
            asked == InOrder(actions)
            dur == frame_dur_10ms(fps)
            At(k) == frames_in_10ms_unit(T[k], fps, dur)
            M(i) == Moment(asked, i, fps)
<1>1. N \in Nat \ {0}
  BY FiniteActions, EmptySeq
<1>2. ASSUME NEW i \in 1 .. N PROVE M(i) = At(tick[i]) /\ M(i) \in Nat
  <2>1. asked[i].frame = T[tick[i]]
    BY DEF Ordered
  <2>2. i # 0
    OBVIOUS
  <2>3. M(i) = frames_in_10ms_unit(asked[i].frame, fps, dur)
    BY <2>2, Zenon DEF Moment
  <2>4. PICK j \in DOMAIN actions : asked[i] = actions[j]
    <3>1. PICK j \in DOMAIN actions : Rank(actions, j) = i
      BY InOrderIs
    <3>2. asked[i] = actions[j]
      BY <3>1, InOrderIs
    <3>. QED  BY <3>2
  <2>. QED  BY <2>1, <2>3, <2>4
<1>3. /\ tick[m] \in 1 .. Cardinality(Frames(actions)) /\ nth[m] \in Nat \ {0}
      /\ tick[1] = 1 /\ nth[1] = 1
  BY DEF Ordered
<1>4. Delay(T, tick[m], fps, dur) =
         (IF tick[m] = 0 THEN 0 ELSE At(tick[m])) - (IF tick[m] - 1 = 0 THEN 0 ELSE At(tick[m] - 1))
  BY Zenon DEF Delay
<1>5. CASE m = 1
  <2>1. tick[m] = 1 /\ nth[m] = 1 /\ 1 - 1 = 0 /\ M(0) = 0
    BY <1>3, <1>5 DEF Moment
  <2>2. Delay(T, tick[m], fps, dur) = At(tick[m]) - 0
    <3>1. 1 # 0 /\ 1 - 1 = 0
      OBVIOUS
    <3>. QED  BY <1>4, <2>1, <3>1, Zenon
  <2>3. M(m) = At(tick[m]) /\ M(m - 1) = 0
    BY <1>2, <1>5, <2>1
  <2>. QED  BY <1>2, <2>1, <2>2, <2>3
<1>6. CASE m # 1
  <2>. DEFINE p == m - 1
  <2>1. p \in 1 .. N /\ p \in 1 .. N - 1 /\ m = p + 1
    BY <1>1, <1>6
  <2>2. M(m) = At(tick[m]) /\ M(p) = At(tick[p]) /\ M(m) \in Nat /\ M(p) \in Nat
    BY <1>2, <2>1
  <2>. HIDE DEF p
  <2>3. /\ tick[p] \in 1 .. Cardinality(Frames(actions)) /\ nth[p] \in Nat \ {0}
        /\ \/ tick[p + 1] = tick[p] /\ nth[p + 1] = nth[p] + 1
           \/ tick[p + 1] = tick[p] + 1 /\ nth[p + 1] = 1
    BY <2>1 DEF Ordered
  <2>4. CASE tick[m] = tick[p] /\ nth[m] = nth[p] + 1
    <3>1. nth[m] # 1 /\ M(m) - M(p) = 0
      <4>1. M(m) = M(p)
        BY <2>2, <2>4
      <4>. HIDE DEF M
      <4>. QED  BY <2>2, <2>3, <2>4, <4>1
    <3>. QED  BY <2>2, <3>1, Zenon DEF p
  <2>5. CASE tick[m] = tick[p] + 1 /\ nth[m] = 1
    <3>1. tick[m] # 0 /\ tick[m] - 1 = tick[p] /\ tick[p] # 0
      BY <2>3, <2>5
    <3>2. Delay(T, tick[m], fps, dur) = At(tick[m]) - At(tick[p])
      BY <1>4, <3>1, Zenon
    <3>. QED  BY <2>2, <2>5, <3>2, Zenon DEF p
  <2>. QED  BY <2>1, <2>3, <2>4, <2>5
<1>. QED  BY <1>5, <1>6

\* The file of a text has its actions in the order of the dance, each behind the time
\* since the one before.
LEMMA DanceIsLaid ==
    ASSUME NEW S, NEW t \in Seq(S), encode_cdl(t) # Rejected
    PROVE  /\ t[1] \in 1 .. 100 /\ Actions(t) \in Seq(Action) /\ Actions(t) # <<>>
           /\ \E pos : Laid(encode_cdl(t), t[1], InOrder(Actions(t)), Len(Actions(t)), pos)
<1>. DEFINE actions == Actions(t)
            fps == t[1]
            ticks == Ticks(actions)
            dur == frame_dur_10ms(fps)
            K == Cardinality(Frames(actions))
            N == Len(actions)
            asked == InOrder(actions)
            late(k) == Delay(ticks, k, fps, dur)
            dt == [k \in 1 .. K |-> late(k)]
            all == FlattenSeq([k \in 1 .. K |-> Chunk(actions, ticks[k], dt[k])])
            body == <<0, CMD_TEMPO, dur>>
                    \o FlattenSeq([k \in DOMAIN ticks |-> Chunk(actions, ticks[k], late(k))])
                    \o <<0, 0, 0, 0>>
<1>1. Scorable(t) /\ encode_cdl(t) = BigEndian(Len(body) - 4) \o body
  BY Zenon DEF encode_cdl
<1>2. fps \in 1 .. 100 /\ actions \in Seq(Action) /\ actions # <<>>
  BY <1>1, ActionsAre DEF Scorable
<1>3. N \in Nat \ {0} /\ K \in Nat \ {0} /\ ticks \in [1 .. K -> Frames(actions)]
  BY <1>2, TicksAre, EarlierAre, FiniteActions, EmptySeq
<1>4. DOMAIN ticks = 1 .. K
  BY <1>3
<1>5. /\ dur \in Nat \ {0}
      /\ \A frame \in Nat : frames_in_10ms_unit(frame, fps, dur) \in Nat
  <2>. HIDE DEF fps
  <2>1. dur \in Nat \ {0}
    BY <1>2, UnitIs
  <2>2. ASSUME NEW frame \in Nat PROVE frames_in_10ms_unit(frame, fps, dur) \in Nat
    BY <1>2, MomentIs
  <2>. QED  BY <2>1, <2>2
<1>6. /\ \A k \in 1 .. K : frames_in_10ms_unit(ticks[k], fps, dur) \in Nat
      /\ \A i \in DOMAIN actions : frames_in_10ms_unit(actions[i].frame, fps, dur) \in Nat
  <2>1. /\ \A k \in 1 .. K : ticks[k] \in Nat
        /\ \A i \in DOMAIN actions : actions[i].frame \in Nat
    BY <1>2, <1>3, FiniteActions
  <2>. QED  BY <1>5, <2>1
<1>7. ASSUME NEW k \in 1 .. K PROVE late(k) \in Int
  <2>. DEFINE At(j) == IF j = 0 THEN 0 ELSE frames_in_10ms_unit(ticks[j], fps, dur)
  <2>1. late(k) = At(k) - At(k - 1)
    BY DEF Delay
  <2>2. At(k) \in Nat /\ At(k - 1) \in Nat
    <3>1. k \in 1 .. K /\ (k - 1 = 0 \/ k - 1 \in 1 .. K)
      BY <1>3
    <3>. QED  BY <1>6, <3>1
  <2>. HIDE DEF At, late
  <2>. QED  BY <2>1, <2>2
<1>8. dt \in [1 .. K -> Int]
  <2>. HIDE DEF late
  <2>. QED  BY <1>7
<1>9. encode_cdl(t) = BigEndian(Len(body) - 4) \o (<<0, 1, dur>> \o all \o <<0, 0, 0, 0>>)
  <2>1. \A k \in 1 .. K : dt[k] = late(k)
    BY Zenon
  <2>. HIDE DEF dt, late
  <2>2. [k \in 1 .. K |-> Chunk(actions, ticks[k], dt[k])]
          = [k \in 1 .. K |-> Chunk(actions, ticks[k], late(k))]
    BY <2>1, Zenon
  <2>3. FlattenSeq([k \in DOMAIN ticks |-> Chunk(actions, ticks[k], late(k))]) = all
    BY <1>4, <2>2, Zenon
  <2>4. body = <<0, 1, dur>> \o all \o <<0, 0, 0, 0>>
    BY <2>3, Zenon DEF CMD_TEMPO
  <2>. QED  BY <1>1, <2>4, Zenon
<1>10. PICK tick, nth : Ordered(actions, tick, nth)
  BY <1>2, CanOrder
<1>. DEFINE wait == [m \in 1 .. N |-> IF nth[m] = 1 THEN dt[tick[m]] ELSE 0]
<1>11. all \in Seq(Int) /\ \E p : Emitted(all, asked, N, wait, p)
  <2>. HIDE DEF dt, actions
  <2>. QED  BY <1>2, <1>8, <1>10, DanceIsEmitted
<1>12. PICK p : Emitted(all, asked, N, wait, p)
  BY <1>11
<1>13. ASSUME NEW m \in 1 .. N
       PROVE  /\ wait[m] = Moment(asked, m, fps) - Moment(asked, m - 1, fps)
              /\ Len(Bytes(asked[m])) \in Nat
  <2>1. tick[m] \in 1 .. K
    BY <1>10 DEF Ordered
  <2>2. dt[tick[m]] = late(tick[m])
    BY <2>1
  <2>3. wait[m] = IF nth[m] = 1 THEN late(tick[m]) ELSE 0
    <3>. HIDE DEF dt, late, N
    <3>. QED  BY <2>2
  <2>4. (IF nth[m] = 1 THEN late(tick[m]) ELSE 0) = Moment(asked, m, fps) - Moment(asked, m - 1, fps)
    <3>. HIDE DEF actions, fps
    <3>. QED  BY <1>2, <1>6, <1>10, WaitsAre
  <2>5. asked[m] \in Action
    <3>. HIDE DEF actions
    <3>1. PICK j \in DOMAIN actions : Rank(actions, j) = m
      BY <1>2, InOrderIs
    <3>2. asked[m] = actions[j]
      BY <1>2, <3>1, InOrderIs
    <3>. QED  BY <1>2, <3>2, FiniteActions
  <2>. HIDE DEF wait, asked, late, fps
  <2>. QED  BY <2>3, <2>4, <2>5, BytesAre
<1>. DEFINE data == encode_cdl(t)
            L == Len(all)
            pos == [m \in 1 .. N + 1 |-> p[m] + 8]
<1>14. /\ Len(data) = L + 11 /\ data[6] = 1 /\ data[7] = dur /\ L \in Nat
       /\ data[L + 8] = 0 /\ data[L + 9] = 0
       /\ \A r \in 1 .. L : data[r + 7] = all[r]
  <2>. DEFINE size == Len(body) - 4
  <2>1. data = BigEndian(size) \o (<<0, 1, dur>> \o all \o <<0, 0, 0, 0>>)
    BY <1>9
  <2>2. BigEndian(size) = <<size \div 256 ^ 3, (size \div 256 ^ 2) % 256, (size \div 256) % 256, size % 256>>
    BY DEF BigEndian
  <2>. DEFINE b1 == size \div 256 ^ 3
              b2 == (size \div 256 ^ 2) % 256
              b3 == (size \div 256) % 256
              b4 == size % 256
  <2>3. data = <<b1, b2, b3, b4>> \o (<<0, 1, dur>> \o all \o <<0, 0, 0, 0>>)
    BY <2>1, <2>2, Zenon
  <2>. HIDE DEF b1, b2, b3, b4, data, all, dur
  <2>4. dur \in Int /\ all \in Seq(Int) /\ Len(all) \in Nat
    BY <1>5, <1>11, LenProperties
  <2>. DEFINE file == <<b1, b2, b3, b4>> \o (<<0, 1, dur>> \o all \o <<0, 0, 0, 0>>)
  <2>5. /\ Len(file) = Len(all) + 11 /\ file[6] = 1 /\ file[7] = dur
        /\ file[Len(all) + 8] = 0 /\ file[Len(all) + 9] = 0
        /\ \A r \in 1 .. Len(all) : file[r + 7] = all[r]
    BY <2>4, FileIs
  <2>6. data = file
    BY <2>3
  <2>. HIDE DEF file
  <2>. QED  BY <2>4, <2>5, <2>6
<1>. HIDE DEF data, all, wait, asked, L, actions, fps, dur
<1>15. /\ p \in [1 .. N + 1 -> Nat] /\ p[1] = 0 /\ p[N + 1] = L
       /\ \A m \in 1 .. N :
             /\ p[m + 1] = p[m] + 1 + Len(Bytes(asked[m])) /\ p[m + 1] <= L
             /\ all[p[m] + 1] = wait[m]
             /\ \A q \in 1 .. Len(Bytes(asked[m])) : all[p[m] + 1 + q] = Bytes(asked[m])[q]
  BY <1>12 DEF Emitted, L
<1>16. \A m \in 1 .. N + 1 : pos[m] = p[m] + 8 /\ pos[m] \in Nat \ {0}
  BY <1>15
<1>17. pos \in [1 .. N + 1 -> Nat \ {0}] /\ pos[1] = 8 /\ pos[N + 1] = L + 8
  <2>1. 1 \in 1 .. N + 1 /\ N + 1 \in 1 .. N + 1
    BY <1>3
  <2>. QED  BY <1>15, <1>16, <2>1
<1>. HIDE DEF pos
<1>18. ASSUME NEW m \in 1 .. N
       PROVE  /\ pos[m + 1] = pos[m] + 1 + Len(Bytes(asked[m])) /\ pos[m + 1] <= pos[N + 1]
              /\ data[pos[m]] = Moment(asked, m, fps) - Moment(asked, m - 1, fps)
              /\ \A q \in 1 .. Len(Bytes(asked[m])) : data[pos[m] + q] = Bytes(asked[m])[q]
  <2>. DEFINE b == Bytes(asked[m])
              x == p[m]
  <2>1. /\ m \in 1 .. N + 1 /\ m + 1 \in 1 .. N + 1
    BY <1>3
  <2>2. /\ x \in Nat /\ p[m + 1] = x + 1 + Len(b) /\ x + 1 + Len(b) <= L /\ Len(b) \in Nat /\ L \in Nat
        /\ all[x + 1] = wait[m] /\ \A q \in 1 .. Len(b) : all[x + 1 + q] = b[q]
    BY <1>13, <1>14, <1>15, <2>1
  <2>3. pos[m] = x + 8 /\ pos[m + 1] = x + 1 + Len(b) + 8
    BY <1>16, <2>1, <2>2
  <2>. HIDE DEF b, x
  <2>4. data[x + 8] = wait[m]
    <3>1. x + 1 \in 1 .. L /\ (x + 1) + 7 = x + 8
      BY <2>2
    <3>. QED  BY <1>14, <2>2, <3>1
  <2>5. \A q \in 1 .. Len(b) : data[x + 8 + q] = b[q]
    <3>1. ASSUME NEW q \in 1 .. Len(b) PROVE data[x + 8 + q] = b[q]
      <4>1. x + 1 + q \in 1 .. L /\ (x + 1 + q) + 7 = x + 8 + q
        BY <2>2
      <4>2. data[(x + 1 + q) + 7] = all[x + 1 + q]
        BY <1>14, <4>1
      <4>. QED  BY <2>2, <4>1, <4>2
    <3>. QED  BY <3>1
  <2>6. pos[m + 1] = pos[m] + 1 + Len(b) /\ pos[m + 1] <= pos[N + 1]
    BY <1>17, <2>2, <2>3
  <2>. QED  BY <1>13, <2>3, <2>4, <2>5, <2>6 DEF b
<1>19. Len(data) = pos[N + 1] + 3 /\ data[pos[N + 1]] = 0 /\ data[pos[N + 1] + 1] = 0
  <2>1. (L + 8) + 3 = L + 11 /\ (L + 8) + 1 = L + 9
    BY <1>14
  <2>. QED  BY <1>14, <1>17, <2>1
<1>20. Laid(data, fps, asked, N, pos)
  BY <1>14, <1>17, <1>18, <1>19 DEF Laid, dur
<1>. QED  BY <1>2, <1>20 DEF data, fps, asked, actions

--------------------------------------------------------------------------------
(* The file is one of bytes.                                               *)

\* What says an action is bytes.
LEMMA AnActionIsBytes ==
    ASSUME NEW action \in Action PROVE Bytes(action) \in Seq(Byte)
<1>. DEFINE a == action.args
            b == Bytes(action)
            max == Bounds(action.word)
<1>1. /\ action.word \in Words /\ a \in Seq(Nat) /\ Len(a) = Len(max)
      /\ \A q \in DOMAIN max : max[q] = Unbounded \/ a[q] <= max[q]
  BY DEF Action
<1>2. \A q \in 1 .. Len(a) : a[q] \in Nat
  BY <1>1, ElementOfSeq
<1>. HIDE DEF a
<1>3. ASSUME action.word = Led PROVE b \in Seq(Byte)
  <2>1. /\ Len(b) = 7 /\ a[1] \in 0 .. 4 /\ a[2] \in Byte /\ a[3] \in Byte /\ a[4] \in Byte
    BY <1>3, BytesAre DEF a
  <2>2. Len(a) = 4
    <3>1. max = <<4, 255, 255, 255>>
      BY <1>3, BoundsAre
    <3>. QED  BY <1>1, <3>1
  <2>3. a = <<a[1], a[2], a[3], a[4]>>
    BY <1>1, <2>2
  <2>4. b = <<7>> \o a \o <<0, 0>>
    <3>1. Bytes(action) = <<CMD_LED>> \o action.args \o <<0, 0>>
      BY <1>3, WordsAssumption, Zenon DEF Bytes
    <3>. QED  BY <3>1 DEF CMD_LED, a
  <2>. DEFINE a1 == a[1]
              a2 == a[2]
              a3 == a[3]
              a4 == a[4]
  <2>5. a1 \in Byte /\ a2 \in Byte /\ a3 \in Byte /\ a4 \in Byte /\ 0 \in Byte /\ 7 \in Byte
    BY <2>1 DEF Byte
  <2>6. b = <<7>> \o <<a1, a2, a3, a4>> \o <<0, 0>>
    BY <2>3, <2>4
  <2>. HIDE DEF a1, a2, a3, a4, b
  <2>7. <<7>> \in Seq(Byte) /\ <<a1, a2, a3, a4>> \in Seq(Byte) /\ <<0, 0>> \in Seq(Byte)
    BY <2>5
  <2>. DEFINE x == <<7>>
              y == <<a1, a2, a3, a4>>
              z == <<0, 0>>
  <2>8. x \in Seq(Byte) /\ y \in Seq(Byte) /\ z \in Seq(Byte) /\ b = (x \o y) \o z
    BY <2>6, <2>7
  <2>. HIDE DEF x, y, z
  <2>9. x \o y \in Seq(Byte)
    BY <2>8, ConcatProperties
  <2>10. (x \o y) \o z \in Seq(Byte)
    BY <2>8, <2>9, ConcatProperties
  <2>. QED  BY <2>8, <2>10
<1>4. ASSUME action.word = Motor PROVE b \in Seq(Byte)
  <2>1. max = <<1, 360, Unbounded, 1>>
    BY <1>4, BoundsAre
  <2>. HIDE DEF max
  <2>2. Len(a) = 4 /\ DOMAIN max = 1 .. 4 /\ max[1] = 1 /\ max[2] = 360 /\ max[4] = 1
    BY <1>1, <2>1
  <2>3. a[1] \in 0 .. 1 /\ a[2] \in 0 .. 360 /\ a[4] \in 0 .. 1
    <3>1. a[1] <= 1 /\ a[2] <= 360 /\ a[4] <= 1
      BY <1>1, <2>2 DEF Unbounded
    <3>. QED  BY <1>2, <2>2, <3>1
  <2>. DEFINE v == (a[2] * 20) \div 360
  <2>4. b = <<8, a[1], v, a[4]>>
    <3>1. Bytes(action) = <<CMD_MOTOR, action.args[1], (action.args[2] * TEETH) \div 360, action.args[4]>>
      BY <1>4, WordsAssumption, Zenon DEF Bytes
    <3>. QED  BY <3>1 DEF CMD_MOTOR, TEETH, a
  <2>5. v \in Byte
    BY <2>3 DEF Byte
  <2>. HIDE DEF v, b
  <2>. QED  BY <2>3, <2>4, <2>5 DEF Byte
<1>5. ASSUME action.word = Palette PROVE b \in Seq(Byte)
  <2>1. a[1] \in 0 .. 4 /\ a[2] \in 0 .. 7
    BY <1>5, BytesAre DEF a
  <2>2. b = <<14, a[1], 240 + a[2]>>
    <3>1. Bytes(action) = <<CMD_PALETTE, action.args[1], PALETTE_0 + action.args[2]>>
      BY <1>5, WordsAssumption, Zenon DEF Bytes
    <3>. QED  BY <3>1 DEF CMD_PALETTE, PALETTE_0, a
  <2>. HIDE DEF b
  <2>. QED  BY <2>1, <2>2 DEF Byte
<1>. QED  BY <1>1, <1>3, <1>4, <1>5 DEF Words

\* A later frame is not earlier in the unit of the delays.
LEMMA MomentsRise ==
    ASSUME NEW fps \in 1 .. 100, NEW dur \in Nat \ {0}, NEW f \in Nat, NEW g \in Nat, f <= g
    PROVE  /\ frames_in_10ms_unit(f, fps, dur) \in Nat /\ frames_in_10ms_unit(g, fps, dur) \in Nat
           /\ frames_in_10ms_unit(f, fps, dur) <= frames_in_10ms_unit(g, fps, dur)
<1>. DEFINE d == fps * dur
            u == Round(100 * f, d)
            v == Round(100 * g, d)
<1>1. d \in Nat \ {0}
  OBVIOUS
<1>2. frames_in_10ms_unit(f, fps, dur) = u /\ frames_in_10ms_unit(g, fps, dur) = v
  BY DEF frames_in_10ms_unit
<1>. HIDE DEF d
<1>3. u \in Nat /\ 2 * (d * u) <= 2 * (100 * f) + d
  BY <1>1, RoundIs
<1>4. v \in Nat /\ 2 * (100 * g) < 2 * (d * v) + d
  BY <1>1, RoundIs
<1>. HIDE DEF u, v
<1>5. u <= v
  <2>1. SUFFICES ASSUME v + 1 <= u PROVE FALSE
    BY <1>3, <1>4
  <2>2. d * (v + 1) <= d * u
    BY <1>1, <1>3, <1>4, <2>1
  <2>3. d * (v + 1) = d * v + d /\ d * v \in Nat /\ d * u \in Nat
    BY <1>1, <1>3, <1>4
  <2>. DEFINE p == d * u
              q == d * v
              r == d * (v + 1)
  <2>4. /\ p \in Nat /\ q \in Nat /\ r = q + d /\ r <= p
        /\ 2 * p <= 2 * (100 * f) + d /\ 2 * (100 * g) < 2 * q + d
    BY <1>3, <1>4, <2>2, <2>3
  <2>. HIDE DEF p, q, r
  <2>. QED  BY <1>1, <2>4
<1>. QED  BY <1>2, <1>3, <1>4, <1>5

\* The actions of one frame, behind a delay that fits, are bytes.
LEMMA ChunkIsBytes ==
    ASSUME NEW actions \in Seq(Action), NEW f \in Frames(actions), NEW dt \in Byte
    PROVE  Chunk(actions, f, dt) \in Seq(Byte)
<1>. DEFINE S == Sharing(actions, f)
            n == Cardinality(S)
            shared == Ascending(S)
            items == Items(actions, f, dt)
<1>1. n \in Nat \ {0}
  BY TicksAre
<1>2. S \in SUBSET Nat /\ IsFiniteSet(S) /\ S \in SUBSET DOMAIN actions
  <2>1. S \in SUBSET DOMAIN actions
    BY DEF Sharing
  <2>. QED  BY <2>1, FiniteActions
<1>3. shared \in [1 .. n -> S]
  BY <1>2, AscendingIs
<1>4. Chunk(actions, f, dt) = FlattenSeq(items)
  <2>1. DOMAIN shared = 1 .. n
    BY <1>3
  <2>2. Chunk(actions, f, dt) =
            FlattenSeq([j \in DOMAIN shared |-> <<IF j = 1 THEN dt ELSE 0>> \o Bytes(actions[shared[j]])])
    BY DEF Chunk, Sharing
  <2>. QED  BY <2>1, <2>2, Zenon DEF Items
<1>5. ASSUME NEW j \in 1 .. n PROVE items[j] \in Seq(Byte)
  <2>1. actions[shared[j]] \in Action
    BY <1>2, <1>3, FiniteActions
  <2>. DEFINE b == Bytes(actions[shared[j]])
              d == IF j = 1 THEN dt ELSE 0
              x == <<d>>
  <2>2. b \in Seq(Byte)
    BY <2>1, AnActionIsBytes
  <2>3. x \in Seq(Byte)
    BY DEF Byte
  <2>4. items[j] = x \o b
    BY DEF Items
  <2>. HIDE DEF b, x
  <2>. QED  BY <2>2, <2>3, <2>4, ConcatProperties
<1>6. Len(items) = n
  <2>1. items = [j \in 1 .. n |-> items[j]]
    BY DEF Items
  <2>. HIDE DEF items, n
  <2>2. items \in [1 .. n -> Seq(Byte)]
    BY <1>5, <2>1
  <2>. QED  BY <1>1, <2>2, FunctionIsSeq
<1>. HIDE DEF items, n
<1>7. FlattenSeq(items) \in Seq(Byte)
  BY <1>1, <1>5, <1>6, FlattenIs
<1>. QED  BY <1>4, <1>7

\* The unit of the delays is a byte.
LEMMA TempoIsAByte ==
    ASSUME NEW fps \in 1 .. 100 PROVE frame_dur_10ms(fps) \in Byte
<1>. DEFINE dur == Round(100, fps)
            p == fps * dur
<1>1. dur \in Nat /\ p \in Nat /\ 2 * p <= 2 * 100 + fps
  <2>1. 100 \in Nat /\ fps \in Nat \ {0}
    OBVIOUS
  <2>. QED  BY <2>1, RoundIs
<1>. HIDE DEF dur
<1>2. dur <= p
  BY <1>1
<1>. HIDE DEF p
<1>3. dur \in Byte
  BY <1>1, <1>2 DEF Byte
<1>. QED  BY <1>3 DEF dur, frame_dur_10ms

\* The delays of a dance that has a file fit a byte each, and none is negative.
LEMMA DelaysFit ==
    ASSUME NEW actions \in Seq(Action), NEW fps \in 1 .. 100,
           NEW k \in DOMAIN Ticks(actions),
           Delay(Ticks(actions), k, fps, frame_dur_10ms(fps)) <= 255
    PROVE  Delay(Ticks(actions), k, fps, frame_dur_10ms(fps)) \in Byte
<1>. DEFINE T == Ticks(actions)
            K == Cardinality(Frames(actions))
            dur == frame_dur_10ms(fps)
            At(j) == IF j = 0 THEN 0 ELSE frames_in_10ms_unit(T[j], fps, dur)
            d == Delay(T, k, fps, dur)
<1>1. /\ K \in Nat /\ T \in [1 .. K -> Frames(actions)]
      /\ \A i, j \in 1 .. K : i < j => T[i] < T[j]
  BY TicksAre
<1>2. k \in 1 .. K
  BY <1>1
<1>3. \A f \in Frames(actions) : f \in Nat
  BY FiniteActions DEF Frames
<1>4. dur \in Nat \ {0}
  BY UnitIs
<1>0. d <= 255
  OBVIOUS
<1>5. d = At(k) - At(k - 1)
  BY DEF Delay
<1>. HIDE DEF T, dur, d
<1>6. At(k) \in Nat /\ At(k - 1) \in Nat /\ At(k - 1) <= At(k)
  <2>1. T[k] \in Nat /\ k # 0 /\ frames_in_10ms_unit(T[k], fps, dur) \in Nat
    <3>1. T[k] \in Nat /\ T[k] <= T[k] /\ k # 0
      BY <1>1, <1>2, <1>3
    <3>. QED  BY <1>4, <3>1, MomentsRise
  <2>2. CASE k = 1
    BY <2>1, <2>2
  <2>3. CASE k # 1
    <3>. DEFINE j == k - 1
    <3>1. j \in 1 .. K /\ j < k /\ j # 0
      BY <1>1, <1>2, <2>3
    <3>. HIDE DEF j
    <3>2. T[j] \in Nat /\ T[j] <= T[k]
      BY <1>1, <1>2, <1>3, <2>1, <3>1
    <3>3. /\ frames_in_10ms_unit(T[j], fps, dur) \in Nat
          /\ frames_in_10ms_unit(T[j], fps, dur) <= frames_in_10ms_unit(T[k], fps, dur)
      BY <1>4, <2>1, <3>2, MomentsRise
    <3>4. At(j) = frames_in_10ms_unit(T[j], fps, dur) /\ At(k) = frames_in_10ms_unit(T[k], fps, dur)
      BY <2>1, <3>1
    <3>. HIDE DEF At
    <3>. QED  BY <2>1, <3>3, <3>4 DEF j
  <2>. QED  BY <2>2, <2>3
<1>7. d \in Byte
  <2>. DEFINE x == At(k)
              y == At(k - 1)
  <2>1. d = x - y /\ x \in Nat /\ y \in Nat /\ y <= x /\ d <= 255
    BY <1>0, <1>5, <1>6
  <2>. HIDE DEF x, y
  <2>. QED  BY <2>1 DEF Byte
<1>. QED  BY <1>7 DEF d, T, dur

\* A number of four bytes.
LEMMA FourBytes ==
    ASSUME NEW n \in Nat, n \div 256 ^ 3 < 256
    PROVE  BigEndian(n) \in Seq(Byte) /\ Len(BigEndian(n)) = 4
<1>. DEFINE a == n \div 256 ^ 3
            b == (n \div 256 ^ 2) % 256
            c == (n \div 256) % 256
            d == n % 256
<1>1. a \in Byte
  <2>1. a = n \div 16777216
    OBVIOUS
  <2>. QED  BY <2>1 DEF Byte
<1>2. b \in Byte
  <2>1. b = (n \div 65536) % 256
    OBVIOUS
  <2>. QED  BY <2>1 DEF Byte
<1>3. c \in Byte /\ d \in Byte
  BY DEF Byte
<1>4. BigEndian(n) = <<a, b, c, d>>
  BY DEF BigEndian
<1>. HIDE DEF a, b, c, d
<1>5. <<a, b, c, d>> \in Seq(Byte) /\ Len(<<a, b, c, d>>) = 4
  BY <1>1, <1>2, <1>3
<1>. QED  BY <1>4, <1>5

\* All that encode_cdl writes is bytes: every delay fits one and none is negative, the
\* tempo fits one at every rate, and so do an angle in teeth and a colour of the palette.
\* What may not fit is the size alone, of a file of four gigabytes, in its four bytes.
THEOREM FilesAreBytes ==
    ASSUME NEW S, NEW t \in Seq(S), encode_cdl(t) # Rejected, (Len(encode_cdl(t)) - 8) \div 256 ^ 3 < 256
    PROVE  encode_cdl(t) \in Seq(Byte)
<1>. DEFINE actions == Actions(t)
            fps == t[1]
            ticks == Ticks(actions)
            dur == frame_dur_10ms(fps)
            K == Cardinality(Frames(actions))
            late(k) == Delay(ticks, k, fps, dur)
            chunks == [k \in DOMAIN ticks |-> Chunk(actions, ticks[k], late(k))]
            tempo == <<0, CMD_TEMPO, dur>>
            flat == FlattenSeq(chunks)
            zeros == <<0, 0, 0, 0>>
            body == tempo \o flat \o zeros
            size == Len(body) - 4
            head == BigEndian(size)
<1>1. /\ Scorable(t) /\ \A k \in DOMAIN ticks : late(k) <= 255
      /\ encode_cdl(t) = head \o body
  BY Zenon DEF encode_cdl
<1>2. fps \in 1 .. 100 /\ actions \in Seq(Action) /\ actions # <<>>
  BY <1>1, ActionsAre DEF Scorable
<1>3. K \in Nat \ {0} /\ ticks \in [1 .. K -> Frames(actions)] /\ DOMAIN ticks = 1 .. K
  BY <1>2, TicksAre, EarlierAre, FiniteActions, EmptySeq
<1>. HIDE DEF actions, fps
<1>4. ASSUME NEW k \in 1 .. K PROVE late(k) \in Byte
  <2>1. k \in DOMAIN ticks /\ late(k) <= 255
    BY <1>1, <1>3
  <2>. QED  BY <1>2, <2>1, DelaysFit
<1>5. ASSUME NEW k \in 1 .. K PROVE chunks[k] \in Seq(Byte)
  <2>. DEFINE dt == late(k)
              f == ticks[k]
  <2>1. dt \in Byte /\ f \in Frames(actions) /\ chunks[k] = Chunk(actions, f, dt)
    BY <1>3, <1>4
  <2>. HIDE DEF dt, f, chunks
  <2>. QED  BY <1>2, <2>1, ChunkIsBytes
<1>6. Len(chunks) = K
  <2>1. chunks = [k \in 1 .. K |-> chunks[k]]
    BY <1>3
  <2>. HIDE DEF chunks, K
  <2>2. chunks \in [1 .. K -> Seq(Byte)]
    BY <1>5, <2>1
  <2>. QED  BY <1>3, <2>2, FunctionIsSeq
<1>7. flat \in Seq(Byte)
  <2>. HIDE DEF chunks, K
  <2>. QED  BY <1>3, <1>5, <1>6, FlattenIs
<1>8. tempo \in Seq(Byte) /\ Len(tempo) = 3
  <2>1. dur \in Byte
    BY <1>2, TempoIsAByte
  <2>2. CMD_TEMPO \in Byte /\ 0 \in Byte
    BY DEF Byte, CMD_TEMPO
  <2>. HIDE DEF dur
  <2>. QED  BY <2>1, <2>2
<1>9. zeros \in Seq(Byte) /\ Len(zeros) = 4
  <2>1. 0 \in Byte
    BY DEF Byte
  <2>. QED  BY <2>1
<1>. HIDE DEF tempo, flat, zeros
<1>10. body \in Seq(Byte) /\ Len(body) \in Nat /\ 7 <= Len(body)
  <2>. DEFINE front == tempo \o flat
  <2>1. front \in Seq(Byte) /\ Len(front) = Len(tempo) + Len(flat)
    BY <1>7, <1>8, ConcatProperties
  <2>. HIDE DEF front
  <2>2. front \o zeros \in Seq(Byte) /\ Len(front \o zeros) = Len(front) + Len(zeros)
    BY <1>9, <2>1, ConcatProperties
  <2>3. Len(flat) \in Nat
    BY <1>7, LenProperties
  <2>. QED  BY <1>8, <1>9, <2>1, <2>2, <2>3 DEF front
<1>. HIDE DEF body
<1>11. Len(head) = 4
  BY DEF BigEndian
<1>12. size \in Nat /\ size \div 256 ^ 3 < 256
  <2>. DEFINE data == encode_cdl(t)
              X == {head[i] : i \in 1 .. 4} \cup Byte
  <2>1. head \in Seq(X)
    <3>1. head = [i \in 1 .. 4 |-> head[i]]
      BY DEF BigEndian
    <3>. HIDE DEF head
    <3>2. head \in [1 .. 4 -> X]
      BY <3>1
    <3>. HIDE DEF X
    <3>. QED  BY <3>2, FunctionIsSeq
  <2>2. body \in Seq(X)
    BY <1>10, SeqMonotonic
  <2>. HIDE DEF X, head
  <2>3. Len(head \o body) = Len(head) + Len(body)
    BY <2>1, <2>2, ConcatProperties
  <2>4. Len(data) = 4 + Len(body) /\ (Len(data) - 8) \div 256 ^ 3 < 256
    BY <1>1, <1>11, <2>3
  <2>. HIDE DEF data
  <2>5. Len(data) - 8 = size /\ size \in Nat
    BY <1>10, <2>4
  <2>. QED  BY <2>4, <2>5
<1>13. head \in Seq(Byte)
  <2>. HIDE DEF size
  <2>. QED  BY <1>12, FourBytes
<1>. HIDE DEF head
<1>14. head \o body \in Seq(Byte)
  BY <1>10, <1>13, ConcatProperties
<1>. QED  BY <1>1, <1>14

--------------------------------------------------------------------------------
(* What the parser makes of them.                                          *)

\* Sent to the teeth of an angle, an ear is turned to it.
LEMMA TurnIs ==
    ASSUME NEW angle \in 0 .. 360
    PROVE  TurnedTo(chor_pos(((angle * 20) \div 360) % 20), angle)
<1>. DEFINE v == (angle * 20) \div 360
            p == v % 20
            h == chor_pos(p)
<1>1. v \in 0 .. 20 /\ 360 * v <= 20 * angle /\ 20 * angle < 360 * v + 360
  OBVIOUS
<1>. HIDE DEF v
<1>2. CASE v = 20
  <2>1. p = 0 /\ angle = 360
    BY <1>1, <1>2
  <2>2. h = 0
    BY <2>1 DEF chor_pos
  <2>. HIDE DEF h
  <2>3. Within(2 * 17 * angle, 2 * 360 * (h + 17 * 1), 3 * 360)
    BY <2>1, <2>2 DEF Within
  <2>. QED  BY <2>3 DEF TurnedTo, h, v
<1>3. CASE v # 20
  <2>1. p = v
    BY <1>1, <1>3
  <2>2. h = (v * 17 + 10) \div 20
    BY <2>1 DEF chor_pos
  <2>3. h \in Nat /\ 20 * h <= 17 * v + 10 /\ 17 * v + 10 < 20 * h + 20
    BY <1>1, <2>2
  <2>. HIDE DEF h
  <2>4. Within(2 * 17 * angle, 2 * 360 * (h + 17 * 0), 3 * 360)
    BY <1>1, <2>3 DEF Within
  <2>. QED  BY <2>4 DEF TurnedTo, h, v
<1>. QED  BY <1>2, <1>3

\* The bytes of an action are a command that does what it asks for.
LEMMA DoesAsAsked ==
    ASSUME NEW action \in Action, NEW x \in Seq(Byte), Len(x) >= Len(Bytes(action)),
           \A q \in 1 .. Len(Bytes(action)) - 1 : x[q] = Bytes(action)[q + 1],
           NEW was \in [{0, 1} -> 0 .. 19], NEW t \in Nat
    PROVE  LET code == Bytes(action)[1]
           IN /\ code \in Known /\ code # 1 /\ Len(x) >= Needed(code)
              /\ Arity(code) = Len(Bytes(action)) - 1
              /\ \E step : /\ Steps(code, x, t, MovedEars(code, x, was)) = <<step>>
                           /\ step.t = t /\ DoneAs(step, action)
<1>. DEFINE a == action.args
            b == Bytes(action)
            code == b[1]
            to == MovedEars(code, x, was)
            Right(step) == Steps(code, x, t, to) = <<step>> /\ step.t = t /\ DoneAs(step, action)
<1>0. Len(x) \in Nat /\ action.word \in Words
  BY LenProperties DEF Action
<1>1. CASE action.word = Led
  <2>1. /\ Len(b) = 7 /\ code = 7 /\ b[2] = a[1] /\ b[3] = a[2] /\ b[4] = a[3] /\ b[5] = a[4]
        /\ a[1] \in 0 .. 4 /\ a[2] \in Byte /\ a[3] \in Byte /\ a[4] \in Byte
    BY <1>1, BytesAre
  <2>. HIDE DEF a, b, code, to
  <2>2. x[1] = a[1] /\ x[2] = a[2] /\ x[3] = a[3] /\ x[4] = a[4]
    <3>1. x[1] = b[1 + 1] /\ x[2] = b[2 + 1] /\ x[3] = b[3 + 1] /\ x[4] = b[4 + 1]
      BY <2>1 DEF b
    <3>. QED  BY <2>1, <3>1
  <2>3. /\ code \in Known /\ code # 1 /\ Len(x) >= Needed(code)
        /\ Arity(code) = Len(b) - 1
    <3>1. Needed(7) = 4 /\ Len(x) >= 7
      BY <2>1, ArgumentsNeeded DEF b
    <3>2. Arity(7) = 6
      <4>1. 7 # 1 /\ 7 \notin {8, 9, 18} /\ 7 # 10 /\ 7 \notin {14, 17, 20}
        OBVIOUS
      <4>. QED  BY <4>1, Zenon DEF Arity
    <3>. QED  BY <1>0, <2>1, <3>1, <3>2 DEF Known
  <2>. DEFINE step == LedStep(t, chor_led(x[1]), Rgb(x[2], x[3], x[4]))
  <2>4. Steps(code, x, t, to) = <<step>>
    BY <2>1 DEF Steps
  <2>5. /\ step.t = t /\ step.kind = "led" /\ step.a = 4 - a[1] /\ step.b = Rgb(a[2], a[3], a[4])
    <3>1. chor_led(x[1]) = 4 - a[1]
      BY <2>1, <2>2 DEF chor_led
    <3>. QED  BY <2>2, <3>1 DEF LedStep, Step
  <2>. HIDE DEF step
  <2>6. DoneAs(step, action)
    BY <1>1, <2>5, WordsAssumption, Zenon DEF DoneAs, a
  <2>7. Right(step)
    BY <2>4, <2>5, <2>6
  <2>. QED  BY <2>3, <2>7 DEF to, code, b
<1>2. CASE action.word = Motor
  <2>. DEFINE v == (a[2] * 20) \div 360
  <2>1. /\ Len(b) = 4 /\ code = 8 /\ b[2] = a[1] /\ b[3] = v
        /\ a[1] \in 0 .. 1 /\ a[2] \in 0 .. 360
    BY <1>2, BytesAre
  <2>1a. TurnedTo(chor_pos(v % 20), a[2])
    <3>1. a[2] \in 0 .. 360
      BY <2>1
    <3>. QED  BY ONLY <3>1, TurnIs, Zenon
  <2>. HIDE DEF a, b, code, v
  <2>2. x[1] = a[1] /\ x[2] = v
    <3>1. x[1] = b[1 + 1] /\ x[2] = b[2 + 1]
      BY <2>1 DEF b
    <3>. QED  BY <2>1, <3>1
  <2>3. /\ code \in Known /\ code # 1 /\ Len(x) >= Needed(code)
        /\ Arity(code) = Len(b) - 1
    <3>1. Needed(8) = 2 /\ Len(x) >= 4
      BY <2>1, ArgumentsNeeded DEF b
    <3>2. Arity(8) = 3
      <4>1. 8 # 1 /\ 8 # 7 /\ 8 \in {8, 9, 18} /\ 8 # 10 /\ 8 \notin {14, 17, 20}
        OBVIOUS
      <4>. QED  BY <4>1, Zenon DEF Arity
    <3>. QED  BY <1>0, <2>1, <3>1, <3>2 DEF Known
  <2>4. to = [was EXCEPT ![a[1]] = v % 20]
    <3>1. to = [was EXCEPT ![IF x[1] = 0 THEN 0 ELSE 1] = x[2] % 20]
      BY <2>1 DEF MovedEars
    <3>2. (IF x[1] = 0 THEN 0 ELSE 1) = a[1]
      BY <2>1, <2>2
    <3>. QED  BY <2>2, <3>1, <3>2
  <2>5. to[a[1]] = v % 20
    BY <2>1, <2>4
  <2>. HIDE DEF to
  <2>. DEFINE step == EarStep(t, x[1], to[a[1]])
  <2>6. Steps(code, x, t, to) = <<step>>
    <3>1. (IF x[1] = 0 THEN 0 ELSE 1) = a[1]
      BY <2>1, <2>2
    <3>2. Steps(code, x, t, to) = <<EarStep(t, x[1], to[IF x[1] = 0 THEN 0 ELSE 1])>>
      BY <2>1 DEF Steps
    <3>. QED  BY <3>1, <3>2, Zenon
  <2>7. step.t = t /\ step.kind = "ear" /\ step.a = a[1] /\ step.b = chor_pos(v % 20)
    <3>1. x[1] % 2 = a[1]
      BY <2>1, <2>2
    <3>. QED  BY <2>5, <3>1 DEF EarStep, Step
  <2>. HIDE DEF step
  <2>8. DoneAs(step, action)
    BY <1>2, <2>7, <2>1a, WordsAssumption, Zenon DEF DoneAs, a
  <2>9. Right(step)
    BY <2>6, <2>7, <2>8
  <2>. QED  BY <2>3, <2>9 DEF to, code, b
<1>3. CASE action.word = Palette
  <2>1. /\ Len(b) = 3 /\ code = 14 /\ b[2] = a[1] /\ b[3] = 240 + a[2]
        /\ a[1] \in 0 .. 4 /\ a[2] \in 0 .. 7
    BY <1>3, BytesAre
  <2>. HIDE DEF a, b, code, to
  <2>2. x[1] = a[1] /\ x[2] = 240 + a[2]
    <3>1. x[1] = b[1 + 1] /\ x[2] = b[2 + 1]
      BY <2>1 DEF b
    <3>. QED  BY <2>1, <3>1
  <2>3. /\ code \in Known /\ code # 1 /\ Len(x) >= Needed(code)
        /\ Arity(code) = Len(b) - 1
    <3>1. Needed(14) = 2 /\ Len(x) >= 3
      BY <2>1, ArgumentsNeeded DEF b
    <3>2. Arity(14) = 2
      <4>1. 14 # 1 /\ 14 # 7 /\ 14 \notin {8, 9, 18} /\ 14 # 10 /\ 14 \in {14, 17, 20}
        OBVIOUS
      <4>. QED  BY <4>1, Zenon DEF Arity
    <3>. QED  BY <1>0, <2>1, <3>1, <3>2 DEF Known
  <2>. DEFINE step == LedStep(t, chor_led(x[1]), Palettes[(x[2] % 8) + 1])
  <2>4. Steps(code, x, t, to) = <<step>>
    BY <2>1 DEF Steps
  <2>5. /\ step.t = t /\ step.kind = "led" /\ step.a = 4 - a[1] /\ step.b = Palettes[a[2] + 1]
    <3>1. chor_led(x[1]) = 4 - a[1]
      BY <2>1, <2>2 DEF chor_led
    <3>2. x[2] % 8 = a[2]
      BY <2>1, <2>2
    <3>. QED  BY <2>2, <3>1, <3>2 DEF LedStep, Step
  <2>. HIDE DEF step
  <2>6. DoneAs(step, action)
    BY <1>3, <2>5, WordsAssumption, Zenon DEF DoneAs, a
  <2>7. Right(step)
    BY <2>4, <2>5, <2>6
  <2>. QED  BY <2>3, <2>7 DEF to, code, b
<1>. QED  BY <1>0, <1>1, <1>2, <1>3 DEF Words

\* What a command leaves, part by part.
LEMMA CommandIs ==
    ASSUME NEW data \in Seq(Byte), NEW s, Parsing(s), s.i <= Len(data)
    PROVE  LET code == data[s.i]
               x == SubSeq(data, s.i + 1, Len(data))
               there == Len(x) >= Needed(code)
               to == IF there THEN MovedEars(code, x, s.ears) ELSE s.ears
               scale == IF code = 1 /\ there THEN 10 * x[1] ELSE s.scale
               beyond == s.i + 1 + Arity(code)
               c == Command(data, s)
           IN /\ c.stop = (code \notin Known) /\ c.scale = scale
              /\ c.steps = IF there THEN s.steps \o Steps(code, x, s.t, to) ELSE s.steps
              /\ c.t = IF code \in Known /\ beyond <= Len(data) THEN s.t + data[beyond] * scale ELSE s.t
              /\ c.i = IF code \in Known /\ beyond <= Len(data) THEN beyond + 1 ELSE beyond
              /\ x \in Seq(Byte) /\ Len(x) = Len(data) - s.i
              /\ \A q \in 1 .. Len(data) - s.i : x[q] = data[s.i + q]
<1>. DEFINE code == data[s.i]
            x == SubSeq(data, s.i + 1, Len(data))
            there == Len(x) >= Needed(code)
            to == IF there THEN MovedEars(code, x, s.ears) ELSE s.ears
            scale == IF code = 1 /\ there THEN 10 * x[1] ELSE s.scale
            beyond == s.i + 1 + Arity(code)
            c == Command(data, s)
            more == IF there THEN s.steps \o Steps(code, x, s.t, to) ELSE s.steps
            moment == IF code \in Known /\ beyond <= Len(data) THEN s.t + data[beyond] * scale ELSE s.t
            follows == IF code \in Known /\ beyond <= Len(data) THEN beyond + 1 ELSE beyond
<1>1. s \in [i : Nat \ {0}, t : Nat, scale : Nat, ears : [{0, 1} -> 0 .. 19],
             steps : Seq(Move), stop : BOOLEAN]
  BY DEF Parsing
<1>2. c = [s EXCEPT !.stop = code \notin Known, !.ears = to, !.scale = scale, !.steps = more,
                    !.t = moment, !.i = follows]
  BY DEF Command
<1>3. /\ x \in Seq(Byte) /\ Len(x) = Len(data) - s.i
      /\ \A q \in 1 .. Len(data) - s.i : x[q] = data[s.i + q]
  <2>. DEFINE lo == s.i + 1
              hi == Len(data)
  <2>1. s.i \in Nat /\ hi \in Nat /\ lo \in Nat /\ s.i <= hi
    BY <1>1, LenProperties
  <2>2. \A k \in lo .. hi : data[k] \in Byte
    BY <1>1, <2>1, ElementOfSeq
  <2>. DEFINE y == SubSeq(data, lo, hi)
  <2>3. /\ y \in Seq(Byte) /\ Len(y) = IF lo <= hi THEN hi - lo + 1 ELSE 0
        /\ \A k \in 1 .. hi - lo + 1 : y[k] = data[lo + k - 1]
    <3>. HIDE DEF lo, hi
    <3>. QED  BY <2>1, <2>2, SubSeqProperties
  <2>. HIDE DEF y
  <2>4. Len(y) = Len(data) - s.i
    BY <2>1, <2>3
  <2>5. \A q \in 1 .. Len(data) - s.i : y[q] = data[s.i + q]
    <3>1. \A q \in 1 .. Len(data) - s.i : q \in 1 .. hi - lo + 1 /\ lo + q - 1 = s.i + q
      BY <2>1
    <3>. HIDE DEF lo, hi
    <3>. QED  BY <2>3, <3>1
  <2>. QED  BY <2>3, <2>4, <2>5 DEF y
<1>. HIDE DEF code, to, scale, more, moment, follows, c
<1>4. c.stop = (code \notin Known) /\ c.scale = scale /\ c.steps = more /\ c.t = moment /\ c.i = follows
  BY <1>1, <1>2
<1>. QED  BY <1>3, <1>4 DEF code, to, scale, more, moment, follows, c

\* The parser behind m actions of a file.
Along(s, m, fps, asked, N, pos) ==
    /\ m \in 0 .. N /\ m <= CHOR_MAX_STEPS /\ Len(s.steps) = m
    /\ s.scale = 10 * frame_dur_10ms(fps)
    /\ \A q \in 1 .. m : /\ s.steps[q].t = 10 * frame_dur_10ms(fps) * Moment(asked, q, fps)
                         /\ DoneAs(s.steps[q], asked[q])
    /\ s.stop => m = N
    /\ ~s.stop => /\ s.i = pos[m + 1] + 1
                  /\ m < N => s.t = 10 * frame_dur_10ms(fps) * Moment(asked, m + 1, fps)

\* A file of bytes that holds a dance.
File(data, fps, asked, N, pos) ==
    /\ data \in Seq(Byte) /\ fps \in 1 .. 100 /\ N \in Nat \ {0}
    /\ \A m \in 1 .. N : asked[m] \in Action
    /\ Laid(data, fps, asked, N, pos)

\* Where things are in the file.
LEMMA LaidWithin ==
    ASSUME NEW data, NEW fps, NEW asked, NEW N, NEW pos, File(data, fps, asked, N, pos)
    PROVE  /\ Len(data) \in Nat /\ pos[1] = 8
           /\ \A m \in 1 .. N + 1 : pos[m] \in Nat \ {0} /\ pos[m] + 3 <= Len(data)
           /\ \A m \in 1 .. N : /\ Len(Bytes(asked[m])) \in Nat \ {0}
                                /\ pos[m + 1] = pos[m] + 1 + Len(Bytes(asked[m]))
<1>0. N \in Nat \ {0} /\ \A m \in 1 .. N : asked[m] \in Action
  BY DEF File
<1>1. /\ pos \in [1 .. N + 1 -> Nat \ {0}] /\ pos[1] = 8 /\ Len(data) = pos[N + 1] + 3
      /\ \A m \in 1 .. N : pos[m + 1] = pos[m] + 1 + Len(Bytes(asked[m])) /\ pos[m + 1] <= pos[N + 1]
  BY DEF File, Laid
<1>2. \A m \in 1 .. N : Len(Bytes(asked[m])) \in Nat \ {0}
  BY <1>0, BytesAre
<1>3. \A m \in 1 .. N + 1 : pos[m] \in Nat \ {0}
  BY <1>1
<1>4. ASSUME NEW m \in 1 .. N + 1 PROVE pos[m] <= pos[N + 1]
  <2>1. CASE m = N + 1
    BY <1>0, <1>3, <2>1
  <2>2. CASE m # N + 1
    <3>1. m \in 1 .. N /\ m + 1 \in 1 .. N + 1
      BY <1>0, <2>2
    <3>2. pos[m] \in Nat /\ pos[m + 1] = pos[m] + 1 + Len(Bytes(asked[m])) /\ pos[m + 1] <= pos[N + 1]
      BY <1>1, <3>1
    <3>3. N + 1 \in 1 .. N + 1 /\ pos[N + 1] \in Nat /\ Len(Bytes(asked[m])) \in Nat
      BY <1>0, <1>2, <1>3, <3>1
    <3>. QED  BY <3>2, <3>3
  <2>. QED  BY <2>1, <2>2
<1>5. N + 1 \in 1 .. N + 1 /\ pos[N + 1] \in Nat
  BY <1>0, <1>3
<1>6. ASSUME NEW m \in 1 .. N + 1 PROVE pos[m] + 3 <= Len(data)
  BY <1>1, <1>3, <1>4, <1>5
<1>7. Len(data) \in Nat
  BY <1>1, <1>5
<1>. QED  BY <1>1, <1>2, <1>3, <1>6, <1>7, Zenon

\* The first pass takes the tempo, and the delay before the first action.
LEMMA TempoPass ==
    ASSUME NEW data, NEW fps, NEW asked, NEW N, NEW pos, File(data, fps, asked, N, pos)
    PROVE  Along(Once(data, Start), 0, fps, asked, N, pos)
<1>. DEFINE dur == frame_dur_10ms(fps)
            c == Command(data, Start)
            x == SubSeq(data, 6 + 1, Len(data))
            first == Moment(asked, 1, fps)
<1>0. data \in Seq(Byte) /\ fps \in 1 .. 100 /\ N \in Nat \ {0} /\ \A m \in 1 .. N : asked[m] \in Action
  BY DEF File
<1>1. Len(data) \in Nat /\ pos[1] = 8 /\ 11 <= Len(data)
  <2>1. 1 \in 1 .. N + 1
    BY <1>0
  <2>2. Len(data) \in Nat /\ pos[1] = 8 /\ pos[1] + 3 <= Len(data)
    BY <2>1, LaidWithin
  <2>. QED  BY <2>2
<1>2. /\ Start.i = 6 /\ Start.t = 0 /\ Start.stop = FALSE /\ Start.steps = <<>> /\ Start.scale = 0
  BY DEF Start
<1>3. dur \in Nat \ {0} /\ first \in Nat
  <2>1. 1 \in 1 .. N
    BY <1>0
  <2>. DEFINE frame == asked[1].frame
  <2>2. frame \in Nat
    BY <1>0, <2>1 DEF Action
  <2>3. first = frames_in_10ms_unit(frame, fps, dur)
    BY DEF Moment
  <2>. HIDE DEF frame, first
  <2>4. dur \in Nat \ {0}
    BY <1>0, UnitIs
  <2>5. frames_in_10ms_unit(frame, fps, dur) \in Nat
    BY <1>0, <2>2, MomentIs
  <2>. QED  BY <2>3, <2>4, <2>5
<1>4. data[6] = 1 /\ data[7] = dur /\ data[8] = first
  <2>1. /\ data[6] = 1 /\ data[7] = dur
        /\ data[pos[1]] = Moment(asked, 1, fps) - Moment(asked, 1 - 1, fps)
    <3>1. 1 \in 1 .. N
      BY <1>0
    <3>. QED  BY <3>1 DEF File, Laid
  <2>2. Moment(asked, 1 - 1, fps) = 0
    BY DEF Moment
  <2>. HIDE DEF first, dur
  <2>3. Moment(asked, 1, fps) = first
    BY DEF first
  <2>. QED  BY <1>1, <1>3, <2>1, <2>2, <2>3
<1>. HIDE DEF dur, first
<1>5. Once(data, Start) = c
  <2>1. ~(Start.i > Len(data)) /\ ~(Len(Start.steps) >= CHOR_MAX_STEPS)
    BY <1>1, <1>2, ChorAssumption
  <2>. QED  BY <1>2, <2>1, Zenon DEF Once
<1>6. 1 \in Known /\ Needed(1) = 1 /\ Arity(1) = 1
  <2>1. Arity(1) = 1
    <3>1. 1 # 7 /\ 1 \notin {8, 9, 18} /\ 1 # 10 /\ 1 \notin {14, 17, 20}
      OBVIOUS
    <3>. QED  BY <3>1, Zenon DEF Arity
  <2>. QED  BY <2>1, ArgumentsNeeded DEF Known
<1>7. /\ x \in Seq(Byte) /\ Len(x) = Len(data) - 6
      /\ \A q \in 1 .. Len(data) - 6 : x[q] = data[6 + q]
      /\ c.stop = (1 \notin Known)
      /\ c.scale = IF 1 = 1 /\ Len(x) >= Needed(1) THEN 10 * x[1] ELSE 0
      /\ c.steps = IF Len(x) >= Needed(1)
                   THEN <<>> \o Steps(1, x, 0, IF Len(x) >= Needed(1) THEN MovedEars(1, x, Start.ears) ELSE Start.ears)
                   ELSE <<>>
      /\ c.t = IF 1 \in Known /\ 6 + 1 + Arity(1) <= Len(data)
               THEN 0 + data[6 + 1 + Arity(1)] * (IF 1 = 1 /\ Len(x) >= Needed(1) THEN 10 * x[1] ELSE 0)
               ELSE 0
      /\ c.i = IF 1 \in Known /\ 6 + 1 + Arity(1) <= Len(data) THEN 6 + 1 + Arity(1) + 1 ELSE 6 + 1 + Arity(1)
  <2>1. Start.i <= Len(data)
    BY <1>1, <1>2
  <2>. DEFINE i == Start.i
              code == data[i]
              y == SubSeq(data, i + 1, Len(data))
              there == Len(y) >= Needed(code)
              to == IF there THEN MovedEars(code, y, Start.ears) ELSE Start.ears
              scale == IF code = 1 /\ there THEN 10 * y[1] ELSE Start.scale
              beyond == i + 1 + Arity(code)
  <2>2. /\ c.stop = (code \notin Known) /\ c.scale = scale
        /\ c.steps = IF there THEN Start.steps \o Steps(code, y, Start.t, to) ELSE Start.steps
        /\ c.t = IF code \in Known /\ beyond <= Len(data) THEN Start.t + data[beyond] * scale ELSE Start.t
        /\ c.i = IF code \in Known /\ beyond <= Len(data) THEN beyond + 1 ELSE beyond
        /\ y \in Seq(Byte) /\ Len(y) = Len(data) - i
        /\ \A q \in 1 .. Len(data) - i : y[q] = data[i + q]
    BY <1>0, <2>1, StartParses, CommandIs
  <2>3. i = 6 /\ code = 1 /\ y = x
    BY <1>2, <1>4
  <2>. HIDE DEF c, i, code, y, x
  <2>. QED  BY <1>2, <2>2, <2>3
<1>. HIDE DEF c, x
<1>8. Len(x) >= Needed(1) /\ x[1] = dur
  <2>1. 1 \in 1 .. Len(data) - 6 /\ 6 + 1 = 7
    BY <1>1
  <2>. QED  BY <1>1, <1>4, <1>6, <1>7, <2>1
<1>9. c.scale = 10 * dur /\ c.stop = FALSE
  BY <1>6, <1>7, <1>8
<1>10. c.steps = <<>>
  <2>1. 1 # 7 /\ 1 \notin {8, 17} /\ 1 # 9 /\ 1 # 10 /\ 1 # 14
    OBVIOUS
  <2>2. \A to : Steps(1, x, 0, to) = <<>>
    BY <2>1, Zenon DEF Steps
  <2>3. c.steps = <<>> \o <<>>
    BY <1>7, <1>8, <2>2, Zenon
  <2>. QED  BY <2>3
<1>11. c.i = 9 /\ c.t = 10 * dur * first
  <2>1. 6 + 1 + Arity(1) = 8 /\ 8 <= Len(data)
    BY <1>1, <1>6
  <2>2. c.i = 9
    BY <1>6, <1>7, <2>1
  <2>3. c.t = 0 + data[8] * (10 * dur)
    BY <1>6, <1>7, <1>8, <2>1
  <2>4. \A u, v \in Nat : 0 + u * (10 * v) = 10 * v * u
    OBVIOUS
  <2>. QED  BY <1>3, <1>4, <2>2, <2>3, <2>4
<1>12. Len(c.steps) = 0 /\ c.i = pos[0 + 1] + 1 /\ c.t = 10 * dur * Moment(asked, 0 + 1, fps)
  <2>1. 0 + 1 = 1 /\ Len(<<>>) = 0 /\ 8 + 1 = 9
    OBVIOUS
  <2>. QED  BY <1>1, <1>10, <1>11, <2>1 DEF first
<1>13. Along(c, 0, fps, asked, N, pos)
  BY <1>0, <1>9, <1>12, ChorAssumption DEF Along, dur
<1>. QED  BY <1>5, <1>13

\* A pass over an action plays what it asks for, at its moment.
LEMMA ActionPass ==
    ASSUME NEW data, NEW fps, NEW asked, NEW N, NEW pos, File(data, fps, asked, N, pos),
           NEW s, Parsing(s), NEW m \in 0 .. N - 1, Along(s, m, fps, asked, N, pos),
           m < CHOR_MAX_STEPS
    PROVE  Along(Once(data, s), m + 1, fps, asked, N, pos)
<1>. DEFINE dur == frame_dur_10ms(fps)
            M(k) == Moment(asked, k, fps)
            n == m + 1
            action == asked[n]
            b == Bytes(action)
            c == Command(data, s)
            x == SubSeq(data, s.i + 1, Len(data))
            p == pos[n]
            u == M(n)
            w == IF n < N THEN M(n + 1) ELSE 0
<1>1. data \in Seq(Byte) /\ fps \in 1 .. 100 /\ N \in Nat \ {0} /\ \A k \in 1 .. N : asked[k] \in Action
  BY DEF File
<1>2. n \in 1 .. N /\ n \in 1 .. N + 1 /\ n + 1 \in 1 .. N + 1 /\ m \in Nat /\ CHOR_MAX_STEPS \in Nat
  BY <1>1, ChorAssumption
<1>3. action \in Action
  BY <1>1, <1>2
<1>4. /\ Len(data) \in Nat /\ p \in Nat \ {0} /\ Len(b) \in Nat \ {0}
      /\ pos[n + 1] = p + 1 + Len(b) /\ pos[n + 1] + 3 <= Len(data)
  BY <1>2, LaidWithin
<1>5. \A q \in 1 .. Len(b) : data[p + q] = b[q]
  BY <1>2 DEF File, Laid
<1>6. s.stop = FALSE /\ s.i = p + 1 /\ s.t = 10 * dur * u /\ s.scale = 10 * dur /\ Len(s.steps) = m
  <2>1. s.stop \in BOOLEAN /\ m < N /\ m # N
    BY <1>1, <1>2 DEF Parsing
  <2>. QED  BY <2>1 DEF Along
<1>7. s.steps \in Seq(Move) /\ s.ears \in [{0, 1} -> 0 .. 19] /\ s.t \in Nat
  BY DEF Parsing
<1>8. dur \in Nat \ {0} /\ \A k \in 1 .. N : M(k) \in Nat
  <2>1. ASSUME NEW frame \in Nat PROVE dur \in Nat \ {0} /\ frames_in_10ms_unit(frame, fps, dur) \in Nat
    <3>1. dur \in Nat \ {0}
      BY <1>1, UnitIs
    <3>2. frames_in_10ms_unit(frame, fps, dur) \in Nat
      BY <1>1, MomentIs
    <3>. QED  BY <3>1, <3>2
  <2>2. ASSUME NEW k \in 1 .. N PROVE M(k) \in Nat
    <3>1. asked[k].frame \in Nat /\ k # 0
      BY <1>1 DEF Action
    <3>2. M(k) = frames_in_10ms_unit(asked[k].frame, fps, dur)
      BY <3>1, Zenon DEF Moment
    <3>. HIDE DEF M
    <3>. QED  BY <2>1, <3>1, <3>2
  <2>3. 0 \in Nat
    OBVIOUS
  <2>. QED  BY <2>1, <2>2, <2>3
\* The delay behind it: the time to the next action, if there is one.
<1>9. u \in Nat /\ w \in Nat /\ (n < N => data[pos[n + 1]] = w - u)
  <2>1. CASE n < N
    <3>1. n + 1 \in 1 .. N
      BY <1>1, <1>2, <2>1
    <3>2. data[pos[n + 1]] = M(n + 1) - M((n + 1) - 1)
      BY <3>1 DEF File, Laid
    <3>3. (n + 1) - 1 = n /\ w = M(n + 1)
      BY <1>2, <2>1
    <3>4. M((n + 1) - 1) = u
      BY <3>3
    <3>5. M(n + 1) \in Nat /\ u \in Nat
      BY <1>2, <1>8, <3>1
    <3>. HIDE DEF M, w, u
    <3>. QED  BY <3>2, <3>3, <3>4, <3>5
  <2>2. CASE ~(n < N)
    BY <1>2, <1>8, <2>2
  <2>. QED  BY <2>1, <2>2
<1>. HIDE DEF dur, action, b, p
<1>10. s.i <= Len(data) /\ s.i \in Nat /\ Once(data, s) = c
  <2>1. s.i <= Len(data) /\ s.i \in Nat /\ ~(s.i > Len(data)) /\ ~(Len(s.steps) >= CHOR_MAX_STEPS)
    BY <1>2, <1>4, <1>6
  <2>. QED  BY <1>6, <2>1, Zenon DEF Once
<1>11. data[s.i] = b[1]
  <2>1. 1 \in 1 .. Len(b)
    BY <1>4
  <2>. QED  BY <1>5, <1>6, <2>1
<1>. DEFINE code == data[s.i]
            there == Len(x) >= Needed(code)
            to == IF there THEN MovedEars(code, x, s.ears) ELSE s.ears
            scale == IF code = 1 /\ there THEN 10 * x[1] ELSE s.scale
            beyond == s.i + 1 + Arity(code)
<1>12. /\ c.stop = (code \notin Known) /\ c.scale = scale
       /\ c.steps = IF there THEN s.steps \o Steps(code, x, s.t, to) ELSE s.steps
       /\ c.t = IF code \in Known /\ beyond <= Len(data) THEN s.t + data[beyond] * scale ELSE s.t
       /\ c.i = IF code \in Known /\ beyond <= Len(data) THEN beyond + 1 ELSE beyond
       /\ x \in Seq(Byte) /\ Len(x) = Len(data) - s.i
       /\ \A q \in 1 .. Len(data) - s.i : x[q] = data[s.i + q]
  BY <1>1, <1>10, CommandIs
<1>. HIDE DEF c, x
<1>13. Len(x) >= Len(b) /\ \A q \in 1 .. Len(b) - 1 : x[q] = b[q + 1]
  <2>1. Len(x) >= Len(b)
    BY <1>4, <1>6, <1>12
  <2>2. ASSUME NEW q \in 1 .. Len(b) - 1 PROVE x[q] = b[q + 1]
    <3>1. q \in 1 .. Len(data) - s.i /\ q + 1 \in 1 .. Len(b) /\ s.i + q = p + (q + 1)
      BY <1>4, <1>6
    <3>. QED  BY <1>5, <1>12, <3>1
  <2>. QED  BY <2>1, <2>2
<1>14. /\ b[1] \in Known /\ b[1] # 1 /\ Len(x) >= Needed(b[1]) /\ Arity(b[1]) = Len(b) - 1
       /\ \E step : /\ Steps(b[1], x, s.t, MovedEars(b[1], x, s.ears)) = <<step>>
                    /\ step.t = s.t /\ DoneAs(step, action)
  <2>. DEFINE was == s.ears
              t0 == s.t
  <2>1. x \in Seq(Byte) /\ was \in [{0, 1} -> 0 .. 19] /\ t0 \in Nat
    BY <1>7, <1>12
  <2>2. Len(x) >= Len(Bytes(action)) /\ \A q \in 1 .. Len(Bytes(action)) - 1 : x[q] = Bytes(action)[q + 1]
    BY <1>13 DEF b
  <2>. HIDE DEF was, t0
  <2>3. LET cmd == Bytes(action)[1]
        IN /\ cmd \in Known /\ cmd # 1 /\ Len(x) >= Needed(cmd)
           /\ Arity(cmd) = Len(Bytes(action)) - 1
           /\ \E step : /\ Steps(cmd, x, t0, MovedEars(cmd, x, was)) = <<step>>
                        /\ step.t = t0 /\ DoneAs(step, action)
    BY <1>3, <2>1, <2>2, DoesAsAsked, Zenon
  <2>. QED  BY <2>3, Zenon DEF b, was, t0
<1>15. PICK step : /\ Steps(b[1], x, s.t, MovedEars(b[1], x, s.ears)) = <<step>>
                   /\ step.t = s.t /\ DoneAs(step, action)
  BY <1>14
<1>16. c.stop = FALSE /\ c.scale = 10 * dur /\ c.steps = s.steps \o <<step>>
  <2>1. code \in Known /\ code # 1 /\ there
    BY <1>11, <1>14
  <2>2. to = MovedEars(b[1], x, s.ears)
    BY <1>11, <2>1
  <2>3. c.steps = s.steps \o Steps(code, x, s.t, to)
    BY <1>12, <2>1
  <2>4. c.steps = s.steps \o <<step>>
    <3>. HIDE DEF to
    <3>. QED  BY <1>11, <1>15, <2>2, <2>3
  <2>5. c.stop = FALSE /\ c.scale = s.scale
    BY <1>12, <2>1
  <2>. QED  BY <1>6, <2>4, <2>5
<1>17. beyond = pos[n + 1] /\ beyond <= Len(data) /\ code \in Known
  <2>1. Arity(code) = Len(b) - 1 /\ code \in Known
    BY <1>11, <1>14
  <2>. QED  BY <1>4, <1>6, <2>1
<1>18. c.i = pos[n + 1] + 1 /\ c.t = s.t + data[pos[n + 1]] * (10 * dur)
  <2>1. scale = 10 * dur
    BY <1>12, <1>16
  <2>. HIDE DEF scale, beyond, code
  <2>. QED  BY <1>12, <1>17, <2>1
<1>19. n < N => c.t = 10 * dur * M(n + 1)
  <2>1. SUFFICES ASSUME n < N PROVE c.t = 10 * dur * w
    OBVIOUS
  <2>. HIDE DEF w, u
  <2>2. c.t = 10 * dur * u + (w - u) * (10 * dur)
    BY <1>6, <1>9, <1>18, <2>1
  <2>3. \A d, e, f \in Nat : 10 * d * e + (f - e) * (10 * d) = 10 * d * f
    OBVIOUS
  <2>. QED  BY <1>8, <1>9, <2>2, <2>3
<1>20. /\ Len(c.steps) = n /\ c.steps[n] = step
       /\ \A q \in 1 .. m : c.steps[q] = s.steps[q]
  <2>1. c.steps = Append(s.steps, step)
    <3>1. \A e : s.steps \o <<e>> = Append(s.steps, e)
      BY <1>7
    <3>. QED  BY <1>16, <3>1
  <2>2. /\ s.steps \in Seq(Move \cup {step}) /\ step \in Move \cup {step}
    BY <1>7, SeqMonotonic
  <2>3. /\ Len(Append(s.steps, step)) = Len(s.steps) + 1
        /\ \A i \in 1 .. Len(s.steps) : Append(s.steps, step)[i] = s.steps[i]
        /\ Append(s.steps, step)[Len(s.steps) + 1] = step
    BY <2>2, AppendProperties
  <2>. QED  BY <1>6, <2>1, <2>3
<1>21. ASSUME NEW q \in 1 .. n
       PROVE  c.steps[q].t = 10 * dur * M(q) /\ DoneAs(c.steps[q], asked[q])
  <2>1. CASE q = n
    <3>1. c.steps[q] = step /\ step.t = 10 * dur * M(q) /\ DoneAs(step, asked[q])
      BY <1>6, <1>15, <1>20, <2>1 DEF action
    <3>. QED  BY <3>1
  <2>2. CASE q # n
    <3>1. q \in 1 .. m
      BY <1>2, <2>2
    <3>2. s.steps[q].t = 10 * dur * M(q) /\ DoneAs(s.steps[q], asked[q])
      BY <3>1 DEF Along, dur
    <3>. QED  BY <1>20, <3>1, <3>2
  <2>. QED  BY <2>1, <2>2
<1>22. n \in 0 .. N /\ n <= CHOR_MAX_STEPS
  BY <1>1, <1>2
<1>23. Along(c, n, fps, asked, N, pos)
  <2>. HIDE DEF M, n, u, w
  <2>. QED  BY <1>16, <1>18, <1>19, <1>20, <1>21, <1>22 DEF Along, dur, M
<1>. QED  BY <1>10, <1>23

\* The zero behind the last action stops the parser, which takes nothing from it.
LEMMA EndPass ==
    ASSUME NEW data, NEW fps, NEW asked, NEW N, NEW pos, File(data, fps, asked, N, pos),
           NEW s, Parsing(s), Along(s, N, fps, asked, N, pos), N < CHOR_MAX_STEPS
    PROVE  Along(Once(data, s), N, fps, asked, N, pos)
<1>. DEFINE c == Command(data, s)
            x == SubSeq(data, s.i + 1, Len(data))
            at == pos[N + 1]
<1>1. data \in Seq(Byte) /\ N \in Nat \ {0}
  BY DEF File
<1>2. CASE s.stop
  <2>1. Once(data, s) = s
    BY <1>2, Zenon DEF Once
  <2>. QED  BY <2>1
<1>3. CASE ~s.stop
  <2>1. s.stop = FALSE /\ s.i = at + 1 /\ Len(s.steps) = N /\ N \in Nat /\ CHOR_MAX_STEPS \in Nat
    BY <1>1, <1>3, ChorAssumption DEF Along, Parsing
  <2>2. Len(data) \in Nat /\ at \in Nat /\ at + 3 <= Len(data)
    <3>1. N + 1 \in 1 .. N + 1
      BY <1>1
    <3>. QED  BY <3>1, LaidWithin
  <2>3. data[s.i] = 0
    BY <2>1 DEF File, Laid
  <2>4. s.i <= Len(data) /\ Once(data, s) = c
    <3>1. s.i <= Len(data) /\ ~(s.i > Len(data)) /\ ~(Len(s.steps) >= CHOR_MAX_STEPS)
      BY <2>1, <2>2
    <3>. QED  BY <2>1, <3>1, Zenon DEF Once
  <2>. DEFINE code == data[s.i]
              there == Len(x) >= Needed(code)
              to == IF there THEN MovedEars(code, x, s.ears) ELSE s.ears
              scale == IF code = 1 /\ there THEN 10 * x[1] ELSE s.scale
  <2>5. /\ c.stop = (code \notin Known) /\ c.scale = scale
        /\ c.steps = IF there THEN s.steps \o Steps(code, x, s.t, to) ELSE s.steps
    BY <1>1, <2>4, CommandIs
  <2>6. \A y, t, e : Steps(0, y, t, e) = <<>>
    <3>1. 0 # 7 /\ 0 \notin {8, 17} /\ 0 # 9 /\ 0 # 10 /\ 0 # 14
      OBVIOUS
    <3>. QED  BY <3>1, Zenon DEF Steps
  <2>7. s.steps \o <<>> = s.steps
    <3>1. s.steps \in Seq(Move)
      BY DEF Parsing
    <3>. QED  BY <3>1
  <2>8. c.stop = TRUE /\ c.scale = s.scale /\ c.steps = s.steps
    <3>1. code = 0 /\ 0 # 1 /\ 0 \notin Known
      BY <2>3 DEF Known
    <3>2. Steps(code, x, s.t, to) = <<>>
      <4>. HIDE DEF to
      <4>. QED  BY <2>3, <2>6
    <3>. HIDE DEF c, to, there
    <3>3. c.steps = s.steps
      BY <2>5, <2>7, <3>2
    <3>. QED  BY <2>5, <3>1, <3>3
  <2>. HIDE DEF c
  <2>9. Along(c, N, fps, asked, N, pos)
    BY <2>1, <2>8 DEF Along
  <2>. QED  BY <2>4, <2>9
<1>. QED  BY <1>2, <1>3

\* Behind the tempo every pass takes the next action, until there is none or the score
\* is full.
LEMMA DancePass ==
    ASSUME NEW data, NEW fps, NEW asked, NEW N, NEW pos, File(data, fps, asked, N, pos),
           NEW s, Parsing(s), NEW m, Along(s, m, fps, asked, N, pos)
    PROVE  IF m \in {N, CHOR_MAX_STEPS}
           THEN Along(Once(data, s), m, fps, asked, N, pos)
           ELSE m \in 0 .. N - 1 /\ Along(Once(data, s), m + 1, fps, asked, N, pos)
<1>1. N \in Nat \ {0} /\ m \in 0 .. N /\ CHOR_MAX_STEPS \in Nat /\ m <= CHOR_MAX_STEPS /\ Len(s.steps) = m
  BY ChorAssumption DEF File, Along
<1>2. CASE m = CHOR_MAX_STEPS
  <2>1. Len(s.steps) >= CHOR_MAX_STEPS
    BY <1>1, <1>2
  <2>2. Once(data, s) = s
    BY <2>1, Zenon DEF Once
  <2>. QED  BY <1>2, <2>2
<1>3. CASE m # CHOR_MAX_STEPS /\ m = N
  <2>1. N < CHOR_MAX_STEPS
    BY <1>1, <1>3
  <2>. QED  BY <1>3, <2>1, EndPass
<1>4. CASE m # CHOR_MAX_STEPS /\ m # N
  <2>1. m < CHOR_MAX_STEPS /\ m \in 0 .. N - 1
    BY <1>1, <1>4
  <2>. QED  BY <1>4, <2>1, ActionPass
<1>. QED  BY <1>2, <1>3, <1>4

\* All the passes leave all the actions, or as many as the parser takes.
LEMMA DancePasses ==
    ASSUME NEW data, NEW fps, NEW asked, NEW N, NEW pos, File(data, fps, asked, N, pos),
           NEW g, Loops(data, Len(data), g)
    PROVE  \E m \in {N, CHOR_MAX_STEPS} : Along(g[Len(data)], m, fps, asked, N, pos)
<1>. DEFINE L == Len(data)
            A(k, m) == Along(g[k], m, fps, asked, N, pos)
            Far(k) == \E m : A(k, m) /\ (m \in {N, CHOR_MAX_STEPS} \/ pos[m + 1] >= k)
            Bad == {k \in 1 .. L : ~Far(k)}
<1>1. data \in Seq(Byte) /\ N \in Nat \ {0}
  BY DEF File
<1>2. L \in Nat /\ pos[1] = 8 /\ 11 <= L
  <2>1. 1 \in 1 .. N + 1
    BY <1>1
  <2>2. L \in Nat /\ pos[1] = 8 /\ pos[1] + 3 <= L
    BY <2>1, LaidWithin
  <2>. QED  BY <2>2
<1>3. /\ g[0] = Start
      /\ \A k \in 1 .. L : g[k] = Once(data, g[k - 1]) /\ Parsing(g[k])
  <2>1. \A k \in 0 .. L : g[k] = IF k = 0 THEN Start ELSE Once(data, g[k - 1])
    BY DEF Loops
  <2>2. \A k \in 0 .. L : Parsing(g[k])
    BY <1>1, <1>2, LoopsKeep
  <2>. QED  BY <1>2, <2>1, <2>2
<1>4. ASSUME NEW k, NEW m, A(k, m) PROVE m \in 0 .. N
  BY <1>4 DEF Along
<1>5. ASSUME NEW m \in 0 .. N PROVE pos[m + 1] \in Nat /\ pos[m + 1] + 3 <= L
  <2>1. m + 1 \in 1 .. N + 1
    BY <1>1
  <2>. QED  BY <2>1, LaidWithin
<1>6. Bad = {}
  <2>1. SUFFICES ASSUME Bad # {} PROVE FALSE
    OBVIOUS
  <2>2. PICK k \in Bad : \A j \in Bad : k <= j
    <3>1. Bad \in SUBSET Nat
      OBVIOUS
    <3>. HIDE DEF Bad
    <3>. QED  BY <2>1, <3>1, LeastIn
  <2>3. k \in 1 .. L /\ ~Far(k)
    BY <2>2
  <2>4. CASE k = 1
    <3>1. g[k] = Once(data, Start)
      <4>1. k - 1 = 0
        BY <2>4
      <4>. QED  BY <1>3, <2>3, <4>1
    <3>2. A(k, 0)
      BY <3>1, TempoPass
    <3>3. pos[0 + 1] >= k
      BY <1>2, <2>4
    <3>. QED  BY <2>3, <3>2, <3>3
  <2>5. CASE k # 1
    <3>. DEFINE j == k - 1
    <3>1. j \in 1 .. L /\ ~(k <= j) /\ k = j + 1
      BY <1>2, <2>3, <2>5
    <3>2. Far(j)
      BY <2>2, <3>1
    <3>3. g[k] = Once(data, g[j]) /\ Parsing(g[j])
      BY <1>3, <2>3, <3>1
    <3>. HIDE DEF j
    <3>4. PICK m : A(j, m) /\ (m \in {N, CHOR_MAX_STEPS} \/ pos[m + 1] >= j)
      BY <3>2
    <3>5. IF m \in {N, CHOR_MAX_STEPS} THEN A(k, m) ELSE m \in 0 .. N - 1 /\ A(k, m + 1)
      <4>. DEFINE s == g[j]
      <4>1. Parsing(s) /\ Along(s, m, fps, asked, N, pos) /\ g[k] = Once(data, s)
        BY <3>3, <3>4
      <4>. HIDE DEF s
      <4>2. IF m \in {N, CHOR_MAX_STEPS} THEN Along(Once(data, s), m, fps, asked, N, pos)
            ELSE m \in 0 .. N - 1 /\ Along(Once(data, s), m + 1, fps, asked, N, pos)
        BY <4>1, DancePass
      <4>. QED  BY <4>1, <4>2
    <3>. HIDE DEF A
    <3>6. CASE m \in {N, CHOR_MAX_STEPS}
      BY <2>3, <3>5, <3>6
    <3>7. CASE m \notin {N, CHOR_MAX_STEPS}
      <4>1. m \in 0 .. N - 1 /\ A(k, m + 1) /\ pos[m + 1] >= j
        BY <3>4, <3>5, <3>7
      <4>2. pos[(m + 1) + 1] >= k
        <5>1. m + 1 \in 1 .. N /\ m \in 0 .. N
          BY <1>1, <4>1
        <5>2. /\ Len(Bytes(asked[m + 1])) \in Nat /\ pos[(m + 1) + 1] = pos[m + 1] + 1 + Len(Bytes(asked[m + 1]))
          BY <5>1, LaidWithin
        <5>3. pos[m + 1] \in Nat /\ j \in Nat
          BY <1>5, <3>1, <5>1
        <5>. QED  BY <3>1, <4>1, <5>2, <5>3
      <4>. QED  BY <2>3, <4>1, <4>2
    <3>. QED  BY <3>6, <3>7
  <2>. QED  BY <2>4, <2>5
<1>7. PICK m : A(L, m) /\ (m \in {N, CHOR_MAX_STEPS} \/ pos[m + 1] >= L)
  <2>1. L \in 1 .. L /\ L \notin Bad
    BY <1>2, <1>6
  <2>. QED  BY <2>1
<1>8. m \in {N, CHOR_MAX_STEPS}
  <2>1. m \in 0 .. N
    BY <1>4, <1>7
  <2>2. pos[m + 1] \in Nat /\ pos[m + 1] + 3 <= L
    BY <1>5, <2>1
  <2>. QED  BY <1>2, <1>7, <2>2
<1>. QED  BY <1>7, <1>8

\* The dance is the actions of the text, in another order.
LEMMA InOrderOf ==
    ASSUME NEW actions \in Seq(Action)
    PROVE  InOrder(actions) \in Seq(Action) /\ Len(InOrder(actions)) = Len(actions)
<1>. DEFINE asked == InOrder(actions)
            N == Len(actions)
<1>1. N \in Nat /\ DOMAIN actions = 1 .. N
  BY LenProperties
<1>2. ASSUME NEW m \in 1 .. N PROVE asked[m] \in Action
  <2>1. PICK j \in DOMAIN actions : Rank(actions, j) = m
    BY InOrderIs
  <2>2. asked[m] = actions[j]
    BY <2>1, InOrderIs
  <2>. QED  BY <2>2, FiniteActions
<1>3. asked = [k \in 1 .. N |-> asked[k]]
  BY <1>1 DEF InOrder
<1>. HIDE DEF asked, N
<1>4. asked \in [1 .. N -> Action]
  BY <1>2, <1>3
<1>5. asked \in Seq(Action) /\ Len(asked) = N
  BY <1>1, <1>4, FunctionIsSeq
<1>. QED  BY <1>5 DEF asked, N

\* A score does what a text asks for: all of it, or as much as the parser takes.
AsAsked(score, t) ==
    LET asked == InOrder(Asked(t))
    IN \E m \in {Len(asked), CHOR_MAX_STEPS} :
          /\ m \in 1 .. Len(asked) /\ Len(score) = m + 1 /\ score[m + 1].kind = "end"
          /\ \A k \in 1 .. m : OnTime(score[k], asked[k], t[1]) /\ DoneAs(score[k], asked[k])

\* Whatever a text says, if there is a file of it (encode_cdl of clapier-chor), what the
\* rabbit reads in that file (chor_parse of chor.mtl) is what the text asks for: every
\* action in the order of the frames, then of the text, at its frame to half a unit of
\* the delays, however long the dance, with the right led in its colour and the right
\* ear at its angle.
THEOREM ReadAsAsked ==
    ASSUME NEW S, NEW t \in Seq(S), encode_cdl(t) # Rejected, encode_cdl(t) \in Seq(Byte)
    PROVE  chor_parse(encode_cdl(t)) # <<>> /\ AsAsked(chor_parse(encode_cdl(t)), t)
<1>. DEFINE data == encode_cdl(t)
            fps == t[1]
            actions == Actions(t)
            asked == InOrder(actions)
            N == Len(actions)
            score == chor_parse(data)
<1>1. /\ fps \in 1 .. 100 /\ actions \in Seq(Action) /\ actions # <<>>
      /\ \E pos : Laid(data, fps, asked, N, pos)
  BY DanceIsLaid
<1>2. PICK pos : Laid(data, fps, asked, N, pos)
  BY <1>1
<1>3. data \in Seq(Byte)
  OBVIOUS
<1>. HIDE DEF data, fps, actions
<1>4. N \in Nat \ {0}
  BY <1>1, EmptySeq, LenProperties
<1>5. Len(asked) = N /\ \A m \in 1 .. N : asked[m] \in Action
  <2>1. asked \in Seq(Action) /\ Len(asked) = N
    BY <1>1, InOrderOf
  <2>. HIDE DEF asked, N
  <2>. QED  BY <2>1, ElementOfSeq
<1>. HIDE DEF asked, N
<1>6. File(data, fps, asked, N, pos)
  BY <1>1, <1>2, <1>3, <1>4, <1>5 DEF File
<1>7. Len(data) \in Nat /\ ~(Len(data) < 7)
  <2>1. 1 \in 1 .. N + 1
    BY <1>4
  <2>2. Len(data) \in Nat /\ pos[1] = 8 /\ pos[1] + 3 <= Len(data)
    BY <1>6, <2>1, LaidWithin
  <2>. QED  BY <2>2
<1>8. PICK g : /\ Loops(data, Len(data), g)
               /\ score = IF Len(data) < 7 \/ g[Len(data)].steps = <<>> THEN <<>>
                          ELSE Closed(g[Len(data)])
  BY <1>7, ParseLoops
<1>. DEFINE s == g[Len(data)]
            end == EndStep(s.t + 400)
            steps == s.steps
<1>9. Parsing(s)
  BY <1>3, <1>7, <1>8, LoopsKeep
<1>10. PICK m \in {N, CHOR_MAX_STEPS} : Along(s, m, fps, asked, N, pos)
  BY <1>6, <1>8, DancePasses
<1>11. /\ m \in 1 .. N /\ steps \in Seq(Move) /\ Len(steps) = m
       /\ \A q \in 1 .. m : /\ steps[q].t = 10 * frame_dur_10ms(fps) * Moment(asked, q, fps)
                            /\ DoneAs(steps[q], asked[q])
  <2>1. m \in 0 .. N /\ m # 0
    BY <1>4, <1>10, ChorAssumption DEF Along
  <2>2. m \in 1 .. N
    BY <1>4, <2>1
  <2>3. steps \in Seq(Move)
    BY <1>9 DEF Parsing
  <2>. HIDE DEF s
  <2>. QED  BY <1>10, <2>2, <2>3 DEF Along
<1>12. score = Append(steps, end) /\ steps # <<>>
  <2>1. steps # <<>>
    BY <1>11, EmptySeq
  <2>. QED  BY <1>7, <1>8, <2>1, Zenon DEF Closed
<1>. HIDE DEF s, steps, end, score
<1>13. /\ Len(score) = m + 1 /\ score[m + 1] = end
       /\ \A q \in 1 .. m : score[q] = steps[q]
  <2>. DEFINE T == Move \cup {end}
  <2>1. steps \in Seq(T) /\ end \in T
    BY <1>11, SeqMonotonic
  <2>. HIDE DEF T
  <2>. QED  BY <1>11, <1>12, <2>1, AppendProperties
<1>14. end.kind = "end"
  BY DEF end, EndStep, Step
<1>15. ASSUME NEW q \in 1 .. m
       PROVE  OnTime(score[q], asked[q], fps) /\ DoneAs(score[q], asked[q])
  <2>. DEFINE frame == asked[q].frame
              dur == frame_dur_10ms(fps)
              u == frames_in_10ms_unit(frame, fps, dur)
  <2>1. q \in 1 .. N /\ q # 0
    BY <1>4, <1>11
  <2>2. frame \in Nat
    BY <1>5, <2>1 DEF Action
  <2>3. Moment(asked, q, fps) = u
    BY <2>1, Zenon DEF Moment
  <2>4. score[q].t = 10 * dur * u /\ DoneAs(score[q], asked[q])
    BY <1>11, <1>13, <2>3
  <2>. HIDE DEF frame
  <2>5. Within((10 * dur * u) * fps, 1000 * frame, 5 * dur * fps)
    <3>1. fps \in 1 .. 100 /\ frame \in Nat
      BY <1>1, <2>2
    <3>. QED  BY ONLY <3>1, MomentIsClose, Zenon
  <2>. HIDE DEF u, dur
  <2>6. Within(score[q].t * fps, 1000 * frame, 5 * dur * fps)
    BY <2>4, <2>5, Zenon
  <2>. QED  BY <2>4, <2>6, Zenon DEF OnTime, frame, dur
<1>16. score # <<>>
  BY <1>11, <1>13, EmptySeq
<1>17. AsAsked(score, t)
  BY <1>5, <1>10, <1>11, <1>13, <1>14, <1>15, Zenon DEF AsAsked, Asked, asked, fps, actions
<1>. QED  BY <1>16, <1>17 DEF score, data

--------------------------------------------------------------------------------
(* The player.                                                             *)

\* What remains of a score: moves, then its end.
Playable(score) ==
    /\ score \in Seq(AnyStep) /\ Len(score) \in Nat \ {0}
    /\ \A k \in 1 .. Len(score) - 1 : score[k] \in Move
    /\ score[Len(score)] \in Ending

\* What holds in every state, and of what each step leaves to the next.
IInv == TypeOK /\ IdleLooksIdle /\ (cho_steps = <<>> \/ Playable(cho_steps))

\* What is due is a prefix of the score: as long as can be.
LEMMA DueIsAPrefix ==
    ASSUME NEW steps \in Seq(AnyStep), NEW now \in Nat
    PROVE  Due(steps, now) \in 0 .. Len(steps)
<1>. DEFINE L == Len(steps)
            Right(n) == /\ \A k \in 1 .. n : steps[k].t <= now
                        /\ n < L => steps[n + 1].t > now
            Later == {k \in 1 .. L : steps[k].t > now}
<1>1. L \in Nat /\ \A k \in 1 .. L : steps[k].t \in Nat
  <2>1. \A k \in 1 .. L : steps[k] \in AnyStep
    BY ElementOfSeq
  <2>. QED  BY <2>1, LenProperties DEF AnyStep, Move, LedMove, EarMove, Ending
<1>. HIDE DEF L
<1>2. CASE Later = {}
  <2>1. \A k \in 1 .. L : steps[k].t <= now
    BY <1>1, <1>2
  <2>2. L \in 0 .. L /\ Right(L)
    BY <1>1, <2>1
  <2>. HIDE DEF Right
  <2>3. \E n \in 0 .. L : Right(n)
    BY <2>2
  <2>4. (CHOOSE n \in 0 .. L : Right(n)) \in 0 .. L
    BY <2>3
  <2>. QED  BY <2>4 DEF Due, Right, L
<1>3. CASE Later # {}
  <2>1. PICK m \in Later : \A k \in Later : m <= k
    <3>1. Later \in SUBSET Nat
      OBVIOUS
    <3>. HIDE DEF Later
    <3>. QED  BY <1>3, <3>1, LeastIn
  <2>2. m \in 1 .. L /\ steps[m].t > now
    BY <2>1
  <2>3. \A k \in 1 .. m - 1 : steps[k].t <= now
    <3>1. ASSUME NEW k \in 1 .. m - 1 PROVE steps[k].t <= now
      <4>1. k \in 1 .. L /\ k \notin Later
        BY <1>1, <2>1, <2>2
      <4>. QED  BY <1>1, <4>1
    <3>. QED  BY <3>1
  <2>4. m - 1 \in 0 .. L /\ Right(m - 1)
    BY <1>1, <2>2, <2>3
  <2>. HIDE DEF Right
  <2>5. \E n \in 0 .. L : Right(n)
    BY <2>4
  <2>6. (CHOOSE n \in 0 .. L : Right(n)) \in 0 .. L
    BY <2>5
  <2>. QED  BY <2>6 DEF Due, Right, L
<1>. QED  BY <1>2, <1>3

\* The last of the steps that set a led is a colour, the last that set an ear a hole.
LEMMA LastSetIs ==
    ASSUME NEW due \in Seq(AnyStep), NEW a
    PROVE  LastSet(due, "led", a) \subseteq Colours /\ LastSet(due, "ear", a) \subseteq Holes
<1>1. \A k \in DOMAIN due : due[k] \in AnyStep
  BY LenProperties, ElementOfSeq
<1>2. \A s \in AnyStep : /\ s.kind = "led" => s.b \in Colours
                         /\ s.kind = "ear" => s.b \in Holes
  BY DEF AnyStep, Move, LedMove, EarMove, Ending
<1>. QED  BY <1>1, <1>2, Zenon DEF LastSet

\* A score that starts is one, and the look of an idle rabbit is no longer due.
LEMMA PlaysAScore ==
    ASSUME IInv, NEW source, NEW steps, plays < 2, Playable(steps), choreo_play(source, steps)
    PROVE  IInv'
<1>1. steps # <<>>
  BY EmptySeq DEF Playable
<1>2. \A k \in DOMAIN steps : steps[k].t \in Nat
  <2>1. \A k \in DOMAIN steps : steps[k] \in AnyStep
    BY LenProperties, ElementOfSeq DEF Playable
  <2>. QED  BY <2>1 DEF AnyStep, Move, LedMove, EarMove, Ending
<1>3. TypeOK'
  <2>1. /\ cho_steps' = steps /\ elapsed' = 0 /\ breathing' = FALSE /\ plays' = plays + 1
        /\ leds' = leds /\ ears' = ears
    BY DEF choreo_play
  <2>2. /\ leds \in [LedNames -> Colours] /\ ears \in [Ears -> Holes] /\ plays \in 0 .. 2
    BY DEF IInv, TypeOK
  <2>3. plays' \in 0 .. 2
    BY <2>1, <2>2
  <2>. QED  BY <1>2, <2>1, <2>2, <2>3 DEF TypeOK
<1>4. IdleLooksIdle'
  BY <1>1 DEF choreo_play, IdleLooksIdle
<1>. QED  BY <1>3, <1>4 DEF IInv, choreo_play

\* What a pass fires, a prefix of the score, and what is left of it.
Parted(n) ==
    LET L == Len(cho_steps)
        due == SubSeq(cho_steps, 1, n)
        rest == SubSeq(cho_steps, n + 1, L)
    IN /\ n \in 0 .. L /\ L \in Nat \ {0} /\ cho_steps \in Seq(AnyStep)
       /\ due \in Seq(AnyStep) /\ DOMAIN due = 1 .. n /\ \A k \in 1 .. n : due[k] = cho_steps[k]
       /\ Ends(due) <=> n = L
       /\ n # L => /\ Playable(rest) /\ Len(rest) = L - n
                   /\ \A k \in 1 .. L - n : rest[k] = cho_steps[n + k]

\* A pass fires all of the score with its end, or some of it and the rest can still be
\* played.
LEMMA TaskParts ==
    ASSUME IInv, cho_task
    PROVE  \E now \in Nat : cho_advance(now) /\ Parted(Due(cho_steps, now))
<1>1. cho_steps # <<>> /\ Playable(cho_steps)
  BY DEF IInv, cho_task
<1>2. /\ cho_steps \in Seq(AnyStep) /\ Len(cho_steps) \in Nat \ {0}
      /\ \A k \in 1 .. Len(cho_steps) - 1 : cho_steps[k] \in Move
      /\ cho_steps[Len(cho_steps)] \in Ending
      /\ \A k \in 1 .. Len(cho_steps) : cho_steps[k] \in AnyStep
  BY <1>1, ElementOfSeq DEF Playable
<1>3. PICK late \in Lateness : cho_advance(Head(cho_steps).t + late)
  BY DEF cho_task
<1>. DEFINE now == Head(cho_steps).t + late
            n == Due(cho_steps, now)
            due == SubSeq(cho_steps, 1, n)
            L == Len(cho_steps)
            rest == SubSeq(cho_steps, n + 1, L)
<1>4. now \in Nat
  <2>1. Head(cho_steps) \in AnyStep
    BY <1>1, <1>2, HeadTailProperties
  <2>2. Head(cho_steps).t \in Nat
    BY <2>1 DEF AnyStep, Move, LedMove, EarMove, Ending
  <2>3. late \in Nat
    BY DanceAssumption
  <2>. QED  BY <2>2, <2>3
<1>. HIDE DEF now
<1>5. n \in 0 .. L
  BY <1>2, <1>4, DueIsAPrefix
<1>. HIDE DEF n
<1>6. due \in Seq(AnyStep) /\ DOMAIN due = 1 .. n /\ \A k \in 1 .. n : due[k] = cho_steps[k]
  <2>1. \A k \in 1 .. n : cho_steps[k] \in AnyStep
    BY <1>2, <1>5
  <2>2. /\ due \in Seq(AnyStep) /\ Len(due) = IF 1 <= n THEN n - 1 + 1 ELSE 0
        /\ \A k \in 1 .. n - 1 + 1 : due[k] = cho_steps[1 + k - 1]
    BY <1>5, <2>1, SubSeqProperties
  <2>3. Len(due) = n /\ \A k \in 1 .. n : due[k] = cho_steps[k]
    BY <1>5, <2>2
  <2>. QED  BY <2>2, <2>3, LenProperties
<1>7. Ends(due) <=> n = L
  <2>1. \A k \in 1 .. L - 1 : cho_steps[k].kind # "end"
    BY <1>2 DEF Move, LedMove, EarMove
  <2>2. cho_steps[L].kind = "end"
    BY <1>2 DEF Ending
  <2>3. ASSUME n = L PROVE Ends(due)
    BY <1>2, <1>6, <2>2, <2>3 DEF Ends
  <2>4. ASSUME n # L PROVE ~Ends(due)
    <3>1. \A k \in 1 .. n : k \in 1 .. L - 1
      BY <1>2, <1>5, <2>4
    <3>. QED  BY <1>6, <2>1, <3>1 DEF Ends
  <2>. QED  BY <2>3, <2>4
<1>8. ASSUME n # L
      PROVE  Playable(rest) /\ Len(rest) = L - n /\ \A k \in 1 .. L - n : rest[k] = cho_steps[n + k]
  <2>1. L \in Nat /\ n \in 0 .. L - 1
    BY <1>2, <1>5, <1>8
  <2>2. \A k \in n + 1 .. L : cho_steps[k] \in AnyStep
    BY <1>2, <2>1
  <2>3. /\ rest \in Seq(AnyStep) /\ Len(rest) = L - n
        /\ \A k \in 1 .. L - n : rest[k] = cho_steps[n + k]
    <3>1. /\ rest \in Seq(AnyStep) /\ Len(rest) = IF n + 1 <= L THEN L - (n + 1) + 1 ELSE 0
          /\ \A k \in 1 .. L - (n + 1) + 1 : rest[k] = cho_steps[(n + 1) + k - 1]
      BY <2>1, <2>2, SubSeqProperties
    <3>. HIDE DEF L, rest
    <3>2. Len(rest) = L - n /\ L - (n + 1) + 1 = L - n
      BY <2>1, <3>1
    <3>3. \A k \in 1 .. L - n : (n + 1) + k - 1 = n + k
      BY <2>1
    <3>. QED  BY <3>1, <3>2, <3>3
  <2>. HIDE DEF rest
  <2>4. L - n \in 1 .. L - n /\ n + (L - n) = L
    BY <2>1
  <2>5. rest[Len(rest)] \in Ending
    BY <1>2, <2>3, <2>4
  <2>6. \A k \in 1 .. L - n - 1 : k \in 1 .. L - n /\ n + k \in 1 .. L - 1
    BY <2>1
  <2>7. \A k \in 1 .. Len(rest) - 1 : rest[k] \in Move
    BY <1>2, <2>3, <2>6
  <2>8. Len(rest) \in Nat \ {0}
    BY <2>1, <2>3
  <2>9. Playable(rest)
    BY <2>3, <2>5, <2>7, <2>8 DEF Playable
  <2>. QED  BY <2>3, <2>9
<1>9. Parted(n)
  BY <1>2, <1>5, <1>6, <1>7, <1>8, Zenon DEF Parted
<1>10. cho_advance(now)
  BY <1>3 DEF now
<1>. QED  BY <1>4, <1>9, <1>10 DEF n

\* So a pass of the task keeps the invariant.
LEMMA TaskKeeps ==
    ASSUME IInv, cho_task
    PROVE  IInv'
<1>1. cho_steps # <<>>
  BY DEF cho_task
<1>2. PICK now \in Nat : cho_advance(now) /\ Parted(Due(cho_steps, now))
  BY TaskParts
<1>. DEFINE n == Due(cho_steps, now)
            L == Len(cho_steps)
            due == SubSeq(cho_steps, 1, n)
            rest == SubSeq(cho_steps, n + 1, L)
<1>3. cho_advance(now)
  BY <1>2
<1>. HIDE DEF n
<1>4. /\ due \in Seq(AnyStep) /\ (Ends(due) <=> n = L) /\ (n # L => Playable(rest))
  BY <1>2, Zenon DEF Parted, n
<1>5. /\ elapsed' = now
      /\ cho_steps' = IF Ends(due) THEN <<>> ELSE rest
      /\ breathing' = (breathing \/ Ends(due))
      /\ plays' = plays
  BY <1>3 DEF cho_advance, cho_task, n
<1>. DEFINE lit(l) == IF LastSet(due, "led", l) = {} THEN leds[l]
                      ELSE CHOOSE b \in LastSet(due, "led", l) : TRUE
            sent(e) == IF LastSet(due, "ear", e) = {} THEN ears[e]
                       ELSE CHOOSE b \in LastSet(due, "ear", e) : TRUE
<1>6. /\ leds' = [l \in LedNames |-> IF Ends(due) THEN Restored(l, lit(l)) ELSE lit(l)]
       /\ ears' = [e \in Ears |-> sent(e)]
  BY <1>3 DEF cho_advance, n
<1>7. (\A l \in LedNames : lit(l) \in Colours) /\ (\A e \in Ears : sent(e) \in Holes)
  <2>1. (\A l \in LedNames : leds[l] \in Colours) /\ (\A e \in Ears : ears[e] \in Holes)
    BY DEF IInv, TypeOK
  <2>. HIDE DEF due
  <2>2. \A l : LastSet(due, "led", l) \subseteq Colours /\ LastSet(due, "ear", l) \subseteq Holes
    BY <1>4, LastSetIs
  <2>. QED  BY <2>1, <2>2, Zenon
<1>. HIDE DEF lit, sent, due, rest
<1>8. TypeOK'
  <2>1. 0 \in Colours
    BY SMT, ColourIs
  <2>2. leds' \in [LedNames -> Colours] /\ ears' \in [Ears -> Holes]
    BY <1>6, <1>7, <2>1, Zenon DEF Restored
  <2>3. \A k \in DOMAIN cho_steps' : cho_steps'[k].t \in Nat
    <3>1. CASE Ends(due)
      <4>1. cho_steps' = <<>>
        BY <1>5, <3>1
      <4>. QED  BY <4>1
    <3>2. CASE ~Ends(due)
      <4>1. cho_steps' \in Seq(AnyStep)
        BY <1>4, <1>5, <3>2 DEF Playable
      <4>2. \A k \in DOMAIN cho_steps' : cho_steps'[k] \in AnyStep
        BY <4>1, LenProperties, ElementOfSeq
      <4>. QED  BY <4>2 DEF AnyStep, Move, LedMove, EarMove, Ending
    <3>. QED  BY <3>1, <3>2
  <2>4. elapsed' \in Nat /\ plays' \in 0 .. 2 /\ breathing' \in BOOLEAN
    BY <1>4, <1>5 DEF IInv, TypeOK
  <2>. QED  BY <2>2, <2>3, <2>4 DEF TypeOK
<1>9. IdleLooksIdle' /\ (cho_steps' = <<>> \/ Playable(cho_steps)')
  <2>1. ~breathing
    BY <1>1 DEF IInv, IdleLooksIdle
  <2>2. CASE Ends(due)
    <3>1. \A l \in LedNames \ {BASE} : leds'[l] = 0
      BY <1>6, <2>2, Zenon DEF Restored
    <3>2. cho_steps' = <<>> /\ breathing'
      BY <1>5, <2>2
    <3>. QED  BY <3>1, <3>2 DEF IdleLooksIdle
  <2>3. CASE ~Ends(due)
    <3>1. cho_steps' = rest /\ Playable(rest) /\ ~breathing'
      BY <1>4, <1>5, <2>1, <2>3
    <3>2. rest # <<>>
      BY <3>1, EmptySeq DEF Playable
    <3>3. Playable(cho_steps)'
      BY <3>1 DEF Playable
    <3>. QED  BY <3>1, <3>2, <3>3 DEF IdleLooksIdle
  <2>. QED  BY <2>2, <2>3
<1>. QED  BY <1>8, <1>9 DEF IInv

\* The greeting is a score.
LEMMA SalutePlays ==
    ASSUME IInv, plays < 2, Salute
    PROVE  IInv'
<1>. DEFINE a1 == LedStep(0, 0, 8400912)
            a2 == Step(0, "ear", 0, 8)
            a3 == Step(0, "ear", 1, 8)
            a4 == LedStep(700, 1, 8150271)
            a5 == LedStep(1000, 2, 8150271)
            a6 == LedStep(1300, 3, 8150271)
            a7 == LedStep(1900, 1, 0)
            a8 == LedStep(2200, 2, 0)
            a9 == LedStep(2500, 3, 0)
            a10 == Step(2600, "ear", 0, 0)
            a11 == Step(2600, "ear", 1, 0)
            a12 == EndStep(4800)
            s == <<a1, a2, a3, a4, a5, a6, a7, a8, a9, a10, a11, a12>>
<1>1. 0 \in Colours /\ 8400912 \in Colours /\ 8150271 \in Colours
  BY SMT, ColourIs
<1>2. \A t \in Nat, l \in LedNames, c \in Colours : LedStep(t, l, c) \in Move
  BY DEF LedStep, Step, Move, LedMove
<1>3. \A t \in Nat, e \in Ears, h \in Holes : Step(t, "ear", e, h) \in Move
  BY DEF Step, Move, EarMove
<1>4. {0, 1, 2, 3} \subseteq LedNames /\ {0, 1} \subseteq Ears /\ {0, 8} \subseteq Holes
  BY SMT DEF LedNames, Ears, Holes
<1>5. /\ 0 \in Nat /\ 700 \in Nat /\ 1000 \in Nat /\ 1300 \in Nat /\ 1900 \in Nat
      /\ 2200 \in Nat /\ 2500 \in Nat /\ 2600 \in Nat
  BY SMT
<1>6. a1 \in Move /\ a4 \in Move /\ a5 \in Move /\ a6 \in Move
  BY SMT, <1>1, <1>2, <1>4, <1>5
<1>7. a7 \in Move /\ a8 \in Move /\ a9 \in Move
  BY SMT, <1>1, <1>2, <1>4, <1>5
<1>8. a2 \in Move /\ a3 \in Move /\ a10 \in Move /\ a11 \in Move
  BY SMT, <1>3, <1>4, <1>5
<1>9. a12 \in Ending
  BY SMT DEF EndStep, Step, Ending
<1>10. choreo_play(NoText, s)
  BY DEF Salute
<1>. HIDE DEF a1, a2, a3, a4, a5, a6, a7, a8, a9, a10, a11, a12
<1>11. s \in Seq(AnyStep) /\ Len(s) = 12
  BY SMT, <1>6, <1>7, <1>8, <1>9 DEF AnyStep
<1>12. \A k \in 1 .. 11 : s[k] \in Move
  BY SMT, <1>6, <1>7, <1>8
<1>13. s[12] \in Ending
  BY SMT, <1>9
<1>. HIDE DEF s
<1>14. Playable(s)
  BY <1>11, <1>12, <1>13 DEF Playable
<1>. QED  BY <1>10, <1>14, PlaysAScore

\* A text that has a file is a sequence, and the file one of bytes.
LEMMA FilesOfTexts ==
    ASSUME FilesFit, NEW t \in Texts, encode_cdl(t) # Rejected
    PROVE  t \in Seq({t[k] : k \in DOMAIN t}) /\ encode_cdl(t) \in Seq(Byte)
<1>1. t \in Seq({t[k] : k \in DOMAIN t})
  BY DanceAssumption
<1>2. (Len(encode_cdl(t)) - 8) \div 256 ^ 3 < 256
  BY DEF FilesFit
<1>. QED  BY <1>1, <1>2, FilesAreBytes

\* Bytes start a score, if they are worth one.
LEMMA ChorPlays ==
    ASSUME IInv, NEW source, NEW data \in Seq(Byte), plays < 2, Chor(source, data)
    PROVE  IInv'
<1>1. chor_parse(data) # <<>> /\ choreo_play(source, chor_parse(data))
  BY DEF Chor
<1>2. IsScore(chor_parse(data))
  BY <1>1, EveryFileIsAScore
<1>3. Playable(chor_parse(data))
  BY <1>2, ChorAssumption DEF IsScore, Playable
<1>. QED  BY <1>1, <1>3, PlaysAScore

\* The initial state is idle.
LEMMA InitIdle == Init => IInv
<1>1. 0 \in Colours
  BY SMT, ColourIs
<1>. QED  BY <1>1 DEF Init, IInv, TypeOK, IdleLooksIdle, LedNames, Ears, Holes

\* Every step keeps the invariant.
LEMMA NextKeeps == ASSUME FilesFit PROVE IInv /\ [Next]_vars => IInv'
<1>. SUFFICES ASSUME IInv, [Next]_vars PROVE IInv'
  OBVIOUS
<1>1. ASSUME NEW t \in IF plays = 0 THEN Texts ELSE IF plays = 1 THEN Encores ELSE {}, Dance(t)
      PROVE  IInv'
  <2>1. t \in Texts /\ plays < 2
    BY <1>1, DanceAssumption
  <2>2. encode_cdl(t) # Rejected /\ Chor(t, encode_cdl(t))
    BY <1>1 DEF Dance
  <2>3. encode_cdl(t) \in Seq(Byte)
    BY <2>1, <2>2, FilesOfTexts
  <2>. QED  BY <2>1, <2>2, <2>3, ChorPlays
<1>2. ASSUME NEW file \in IF plays = 0 THEN Files ELSE {}, PlayFile(file)
      PROVE  IInv'
  <2>1. file \in Seq(Byte) /\ plays < 2
    BY <1>2, DanceAssumption DEF Byte
  <2>. QED  BY <1>2, <2>1, ChorPlays DEF PlayFile
<1>3. ASSUME plays < 2, Salute PROVE IInv'
  BY <1>3, SalutePlays
<1>4. ASSUME cho_task PROVE IInv'
  BY <1>4, TaskKeeps
<1>5. ASSUME UNCHANGED vars PROVE IInv'
  <2>1. /\ cho_steps' = cho_steps /\ elapsed' = elapsed /\ leds' = leds /\ ears' = ears
        /\ breathing' = breathing /\ plays' = plays
    BY <1>5 DEF vars
  <2>. QED  BY <2>1 DEF IInv, TypeOK, IdleLooksIdle, Playable
<1>. QED  BY <1>1, <1>2, <1>3, <1>4, <1>5 DEF Next

\* Whatever is danced, sent or replaced, and however late cho_task runs, what choreo.mtl
\* has left to play is nothing or moves and their end, and an idle rabbit looks it.
THEOREM Invariance == ASSUME FilesFit PROVE Spec => []IInv
<1>1. Init => IInv
  BY InitIdle
<1>2. IInv /\ [Next]_vars => IInv'
  BY NextKeeps
<1>. QED  BY <1>1, <1>2, PTL DEF Spec

\* The player's state keeps its types: no led in a colour of more than three bytes, no
\* ear to a hole it has not, whatever file chor_parse was given.
THEOREM TypeOKHolds == ASSUME FilesFit PROVE Spec => []TypeOK
<1>1. IInv => TypeOK
  BY DEF IInv
<1>. QED  BY <1>1, Invariance, PTL

\* A rabbit that has nothing left to play breathes with its nose and body dark, and one
\* that plays does not breathe: cho_task comes to no end of a score but the step that
\* puts the leds out, and choreo_play starts nothing without one (choreo.mtl).
THEOREM IdleLooksIdleHolds == ASSUME FilesFit PROVE Spec => []IdleLooksIdle
<1>1. IInv => IdleLooksIdle
  BY DEF IInv
<1>. QED  BY <1>1, Invariance, PTL

--------------------------------------------------------------------------------
(* What is played of a text.                                               *)

\* Of a text's dance, what was fired and what is left to fire are its score.
WholeScore ==
    text # NoText =>
        LET score == chor_parse(encode_cdl(text))
        IN /\ text \in Texts /\ encode_cdl(text) # Rejected /\ score # <<>>
           /\ played \in Seq(AnyStep) /\ cho_steps \in Seq(AnyStep)
           /\ played \o cho_steps = score

DanceInv == IInv /\ WholeScore

\* A dance starts with all of its score to be fired.
LEMMA DanceStarts ==
    ASSUME NEW t \in Texts, encode_cdl(t) \in Seq(Byte), Dance(t)
    PROVE  WholeScore'
<1>. DEFINE score == chor_parse(encode_cdl(t))
<1>1. /\ encode_cdl(t) # Rejected /\ score # <<>>
      /\ text' = t /\ played' = <<>> /\ cho_steps' = score
  BY DEF Dance, Chor, choreo_play
<1>2. score \in Seq(AnyStep)
  BY <1>1, EveryFileIsAScore DEF IsScore
<1>. HIDE DEF score
<1>3. <<>> \in Seq(AnyStep) /\ <<>> \o score = score
  BY <1>2
<1>4. /\ text' \in Texts /\ encode_cdl(text') # Rejected /\ chor_parse(encode_cdl(text')) # <<>>
      /\ played' \in Seq(AnyStep) /\ cho_steps' \in Seq(AnyStep)
      /\ played' \o cho_steps' = chor_parse(encode_cdl(text'))
  BY <1>1, <1>2, <1>3, Zenon DEF score
<1>. QED  BY <1>4, Zenon DEF WholeScore

\* A sequence cut in two.
Cut(whole, n, due, rest) ==
    /\ n \in 0 .. Len(whole) /\ Len(due) = n /\ Len(rest) = Len(whole) - n
    /\ \A k \in 1 .. n : due[k] = whole[k]
    /\ \A k \in 1 .. Len(whole) - n : rest[k] = whole[n + k]

\* It is its two parts.
LEMMA PartsAre ==
    ASSUME NEW S, NEW due \in Seq(S), NEW rest \in Seq(S), NEW whole \in Seq(S),
           NEW n, Cut(whole, n, due, rest)
    PROVE  due \o rest = whole
<1>0. /\ n \in 0 .. Len(whole) /\ Len(due) = n /\ Len(rest) = Len(whole) - n
      /\ \A k \in 1 .. n : due[k] = whole[k]
      /\ \A k \in 1 .. Len(whole) - n : rest[k] = whole[n + k]
  BY DEF Cut
<1>1. /\ due \o rest \in Seq(S) /\ Len(due \o rest) = Len(whole)
      /\ \A i \in 1 .. Len(due) + Len(rest) :
            (due \o rest)[i] = IF i <= Len(due) THEN due[i] ELSE rest[i - Len(due)]
  BY <1>0, ConcatProperties
<1>2. ASSUME NEW i \in 1 .. Len(whole) PROVE (due \o rest)[i] = whole[i]
  <2>1. CASE i <= n
    BY <1>0, <1>1, <2>1
  <2>2. CASE ~(i <= n)
    <3>1. i - n \in 1 .. Len(whole) - n /\ n + (i - n) = i
      BY <1>0, <2>2
    <3>. QED  BY <1>0, <1>1, <2>2, <3>1
  <2>. QED  BY <2>1, <2>2
<1>. QED  BY <1>1, <1>2, SeqEqual

\* A pass of the task takes from the one what it adds to the other.
LEMMA TaskFires ==
    ASSUME DanceInv, cho_task
    PROVE  WholeScore'
<1>. SUFFICES ASSUME text' # NoText PROVE WholeScore'
  BY Zenon DEF WholeScore
<1>1. text' = text
  BY DEF cho_task
<1>2. /\ text \in Texts /\ encode_cdl(text) # Rejected /\ chor_parse(encode_cdl(text)) # <<>>
      /\ played \in Seq(AnyStep) /\ cho_steps \in Seq(AnyStep)
      /\ played \o cho_steps = chor_parse(encode_cdl(text))
  BY <1>1, Zenon DEF DanceInv, WholeScore
<1>3. PICK now \in Nat : cho_advance(now) /\ Parted(Due(cho_steps, now))
  BY TaskParts DEF DanceInv
<1>. DEFINE n == Due(cho_steps, now)
            L == Len(cho_steps)
            due == SubSeq(cho_steps, 1, n)
            rest == SubSeq(cho_steps, n + 1, L)
<1>4. /\ played' = played \o due
      /\ cho_steps' = IF Ends(due) THEN <<>> ELSE rest
  BY <1>3 DEF cho_advance
<1>. HIDE DEF n
<1>5. /\ n \in 0 .. L /\ L \in Nat
      /\ due \in Seq(AnyStep) /\ DOMAIN due = 1 .. n /\ \A k \in 1 .. n : due[k] = cho_steps[k]
      /\ Ends(due) <=> n = L
      /\ n # L => /\ Playable(rest) /\ Len(rest) = L - n
                  /\ \A k \in 1 .. L - n : rest[k] = cho_steps[n + k]
  BY <1>3 DEF Parted, n
<1>. HIDE DEF due, rest
<1>6. Len(due) = n
  BY <1>5, LenProperties
<1>7. /\ cho_steps' \in Seq(AnyStep) /\ Len(cho_steps') = L - n
      /\ \A k \in 1 .. L - n : cho_steps'[k] = cho_steps[n + k]
  <2>1. CASE n = L
    <3>1. cho_steps' = <<>>
      BY <1>4, <1>5, <2>1
    <3>. QED  BY <1>5, <2>1, <3>1
  <2>2. CASE n # L
    <3>1. cho_steps' = rest
      BY <1>4, <1>5, <2>2
    <3>. QED  BY <1>5, <2>2, <3>1 DEF Playable
  <2>. QED  BY <2>1, <2>2
<1>8. played' \in Seq(AnyStep)
  BY <1>2, <1>4, <1>5, ConcatProperties
<1>9. played' \o cho_steps' = played \o cho_steps
  <2>. DEFINE left == cho_steps'
              whole == cho_steps
              front == played
  <2>1. /\ left \in Seq(AnyStep) /\ whole \in Seq(AnyStep) /\ front \in Seq(AnyStep) /\ due \in Seq(AnyStep)
        /\ Cut(whole, n, due, left)
    BY <1>2, <1>5, <1>6, <1>7 DEF Cut
  <2>. HIDE DEF left, whole, front
  <2>2. due \o left = whole
    BY <2>1, PartsAre
  <2>3. (front \o due) \o left = front \o (due \o left)
    BY <2>1, ConcatAssociative
  <2>. QED  BY <1>4, <2>2, <2>3, Zenon DEF left, whole, front
<1>10. /\ text' \in Texts /\ encode_cdl(text') # Rejected /\ chor_parse(encode_cdl(text')) # <<>>
       /\ played' \in Seq(AnyStep) /\ cho_steps' \in Seq(AnyStep)
       /\ played' \o cho_steps' = chor_parse(encode_cdl(text'))
  BY <1>1, <1>2, <1>7, <1>8, <1>9, Zenon
<1>. QED  BY <1>10, Zenon DEF WholeScore

LEMMA DanceInvStarts == Init => DanceInv
BY InitIdle DEF Init, DanceInv, WholeScore

LEMMA DanceInvKeeps == ASSUME FilesFit PROVE DanceInv /\ [Next]_vars => DanceInv'
<1>. SUFFICES ASSUME DanceInv, [Next]_vars PROVE WholeScore'
  BY NextKeeps DEF DanceInv
<1>1. ASSUME NEW t \in IF plays = 0 THEN Texts ELSE IF plays = 1 THEN Encores ELSE {}, Dance(t)
      PROVE  WholeScore'
  <2>1. t \in Texts
    BY <1>1, DanceAssumption
  <2>2. encode_cdl(t) # Rejected
    BY <1>1 DEF Dance
  <2>3. encode_cdl(t) \in Seq(Byte)
    BY <2>1, <2>2, FilesOfTexts
  <2>. QED  BY <1>1, <2>1, <2>3, DanceStarts
<1>2. ASSUME text' = NoText PROVE WholeScore'
  BY <1>2, Zenon DEF WholeScore
<1>3. ASSUME NEW file, PlayFile(file) PROVE WholeScore'
  <2>1. text' = NoText
    BY <1>3 DEF PlayFile, Chor, choreo_play
  <2>. QED  BY <1>2, <2>1
<1>4. ASSUME Salute PROVE WholeScore'
  <2>1. text' = NoText
    BY <1>4 DEF Salute, choreo_play
  <2>. QED  BY <1>2, <2>1
<1>5. ASSUME cho_task PROVE WholeScore'
  BY <1>5, TaskFires
<1>6. ASSUME UNCHANGED vars PROVE WholeScore'
  <2>1. text' = text /\ played' = played /\ cho_steps' = cho_steps
    BY <1>6 DEF vars
  <2>2. WholeScore
    BY DEF DanceInv
  <2>. QED  BY <2>1, <2>2, Zenon DEF WholeScore
<1>. QED  BY <1>1, <1>3, <1>4, <1>5, <1>6 DEF Next

\* What was fired of a text's score is what the text asks for.
LEMMA WholeIsAsAsked == ASSUME FilesFit PROVE DanceInv => PlayedAsAsked
<1>. SUFFICES ASSUME DanceInv, text # NoText PROVE PlayedAsAsked
  BY Zenon DEF PlayedAsAsked
<1>. DEFINE score == chor_parse(encode_cdl(text))
            asked == InOrder(Asked(text))
<1>1. /\ text \in Texts /\ encode_cdl(text) # Rejected
      /\ played \in Seq(AnyStep) /\ cho_steps \in Seq(AnyStep) /\ played \o cho_steps = score
  BY Zenon DEF DanceInv, WholeScore
<1>2. text \in Seq({text[k] : k \in DOMAIN text}) /\ encode_cdl(text) \in Seq(Byte)
  BY <1>1, FilesOfTexts
<1>3. AsAsked(score, text)
  BY <1>1, <1>2, ReadAsAsked
<1>. HIDE DEF score
<1>4. PICK m \in {Len(asked), CHOR_MAX_STEPS} :
          /\ m \in 1 .. Len(asked) /\ Len(score) = m + 1 /\ score[m + 1].kind = "end"
          /\ \A k \in 1 .. m : OnTime(score[k], asked[k], text[1]) /\ DoneAs(score[k], asked[k])
  BY <1>3 DEF AsAsked
<1>5. m \in Nat /\ 1 .. m \subseteq DOMAIN asked
  <2>1. Actions(text) \in Seq(Action)
    BY <1>1, <1>2, DanceIsLaid
  <2>2. asked \in Seq(Action)
    BY <2>1, InOrderOf DEF Asked
  <2>. HIDE DEF asked
  <2>3. Len(asked) \in Nat /\ DOMAIN asked = 1 .. Len(asked)
    BY <2>2, LenProperties
  <2>. QED  BY <1>4, <2>3
<1>. HIDE DEF asked
<1>6. Len(played) \in Nat /\ Len(played) <= m + 1 /\ \A k \in 1 .. Len(played) : played[k] = score[k]
  <2>1. /\ Len(played) \in Nat /\ Len(cho_steps) \in Nat
        /\ Len(played \o cho_steps) = Len(played) + Len(cho_steps)
        /\ \A k \in 1 .. Len(played) + Len(cho_steps) :
              (played \o cho_steps)[k] = IF k <= Len(played) THEN played[k] ELSE cho_steps[k - Len(played)]
    BY <1>1, ConcatProperties, LenProperties
  <2>. QED  BY <1>1, <1>4, <1>5, <2>1
<1>7. ASSUME NEW k \in DOMAIN played
      PROVE  \/ /\ k \in DOMAIN asked
                /\ OnTime(played[k], asked[k], text[1]) /\ DoneAs(played[k], asked[k])
             \/ /\ played[k].kind = "end" /\ k = Len(played)
                /\ k - 1 \in {Len(asked), CHOR_MAX_STEPS}
  <2>1. k \in 1 .. Len(played) /\ played[k] = score[k]
    BY <1>1, <1>6, LenProperties
  <2>2. CASE k \in 1 .. m
    BY <1>4, <1>5, <2>1, <2>2
  <2>3. CASE k \notin 1 .. m
    <3>1. k = m + 1 /\ k = Len(played) /\ k - 1 = m
      BY <1>5, <1>6, <2>1, <2>3
    <3>. QED  BY <1>4, <2>1, <3>1
  <2>. QED  BY <2>2, <2>3
<1>. QED  BY <1>7, Zenon DEF PlayedAsAsked, asked

\* Of a text, however late the task runs and whatever was played before, the rabbit plays
\* what the text asks for (encode_cdl, chor_parse, cho_advance): in order, on time, the
\* right led in its colour and the right ear to its angle, nothing else, and to the last
\* action or to the last the parser takes.
THEOREM PlayedAsAskedHolds == ASSUME FilesFit PROVE Spec => []PlayedAsAsked
<1>1. Init => DanceInv
  BY DanceInvStarts
<1>2. DanceInv /\ [Next]_vars => DanceInv'
  BY DanceInvKeeps
<1>3. DanceInv => PlayedAsAsked
  BY WholeIsAsAsked
<1>. QED  BY <1>1, <1>2, <1>3, PTL DEF Spec

--------------------------------------------------------------------------------
(* An ear.                                                                 *)

\* The part of the state that tells how long the next hole takes.
EarTyped ==
    /\ ear_state \in {"IDLE", "CAL", "MOVE", "BROKEN"}
    /\ hole \in EarHoles /\ ahead \in 1 .. 2 * GAP /\ jammed \in BOOLEAN
    /\ delta \in Nat /\ since \in Nat /\ next \in Nat

\* An ear that turns meets its next hole within two gaps of the last it counted.
HoleInTime == Driven /\ ~jammed /\ delta = 0 => since + ahead <= 2 * GAP

EarInv == EarTyped /\ HoleInTime /\ OnlyJammedBreaks

\* The holes before the k-th whose gap to the next is the wide one.
Wide(k) == {j \in 1 .. k - 1 : ear_mod(hole + j) = EARS_HOLES - 1}

\* The way to the k-th hole: a gap more for each hole before it, two for a wide one.
LEMMA WayIs ==
    ASSUME EarTyped, NEW k \in Nat \ {0}
    PROVE  /\ IsFiniteSet(Wide(k)) /\ Cardinality(Wide(k)) \in Nat
           /\ Way(k) = ahead + GAP * (k - 1 + Cardinality(Wide(k)))
<1>1. IsFiniteSet(1 .. k - 1)
  BY FS_Interval
<1>2. Wide(k) \subseteq 1 .. k - 1
  BY DEF Wide
<1>3. k # 0
  OBVIOUS
<1>4. Way(k) = ahead + GAP * (k - 1 + Cardinality(Wide(k)))
  BY <1>3, Zenon DEF Way, Wide
<1>. QED  BY <1>1, <1>2, <1>4, FS_Subset, FS_CardinalityType

\* Of two holes the second is a gap behind the first, or two if that is the last one.
LEMMA WideGrows ==
    ASSUME EarTyped, NEW k \in Nat \ {0}
    PROVE  Cardinality(Wide(k + 1)) =
               Cardinality(Wide(k)) + (IF ear_mod(hole + k) = EARS_HOLES - 1 THEN 1 ELSE 0)
<1>1. IsFiniteSet(Wide(k)) /\ Cardinality(Wide(k)) \in Nat
  BY WayIs
<1>2. CASE ear_mod(hole + k) = EARS_HOLES - 1
  <2>1. Wide(k + 1) = Wide(k) \cup {k} /\ k \notin Wide(k)
    BY <1>2 DEF Wide
  <2>. QED  BY <1>1, <1>2, <2>1, FS_AddElement
<1>3. CASE ear_mod(hole + k) # EARS_HOLES - 1
  <2>1. Wide(k + 1) = Wide(k)
    BY <1>3 DEF Wide
  <2>. QED  BY <1>1, <1>3, <2>1
<1>. QED  BY <1>2, <1>3

\* No hole is on the way before the first.
LEMMA NoneWide == Cardinality(Wide(1)) = 0
<1>1. Wide(1) = {}
  BY DEF Wide
<1>. QED  BY <1>1, FS_EmptySet

\* The k-th hole is a gap behind the one before it, or two.
LEMMA WayGrows ==
    ASSUME EarTyped
    PROVE  /\ Way(0) = 0 /\ Way(1) = ahead
           /\ \A k \in Nat \ {0} : /\ Way(k) \in Nat /\ k <= Way(k) /\ (k > 1 => GAP < Way(k))
                                   /\ Way(k + 1) <= Way(k) + 2 * GAP
<1>1. GAP \in Nat \ {0} /\ ahead \in Nat \ {0} /\ 0 \in Nat
  BY EarsAssumption DEF EarTyped
<1>2. Way(0) = 0
  BY DEF Way
<1>3. Way(1) = ahead
  <2>1. Way(1) = ahead + GAP * (1 - 1 + Cardinality(Wide(1)))
    BY WayIs
  <2>. QED  BY <1>1, <2>1, NoneWide
<1>4. ASSUME NEW k \in Nat \ {0}
      PROVE  /\ Way(k) \in Nat /\ k <= Way(k) /\ (k > 1 => GAP < Way(k))
             /\ Way(k + 1) <= Way(k) + 2 * GAP
  <2>. DEFINE N == Cardinality(Wide(k))
              M == Cardinality(Wide(k + 1))
              Q == k - 1 + N
  <2>1. N \in Nat /\ M \in Nat /\ k + 1 \in Nat \ {0}
    BY WayIs
  <2>2. M = N \/ M = N + 1
    BY <2>1, WideGrows
  <2>3. Way(k) = ahead + GAP * Q /\ Way(k + 1) = ahead + GAP * (k + 1 - 1 + M)
    BY <2>1, WayIs
  <2>. HIDE DEF N, M
  <2>4. /\ Q \in Nat /\ k + 1 - 1 + M \in {Q + 1, Q + 2} /\ k <= Q + 1
        /\ k > 1 => Q >= 1
    BY <2>1, <2>2
  <2>. HIDE DEF Q
  <2>5. \A g \in Nat \ {0}, q \in Nat : /\ g * q \in Nat /\ q <= g * q /\ (q >= 1 => g <= g * q)
                                        /\ g * (q + 1) = g * q + g /\ g * (q + 2) = g * q + 2 * g
    OBVIOUS
  <2>6. /\ GAP * Q \in Nat /\ Q <= GAP * Q /\ (Q >= 1 => GAP <= GAP * Q)
        /\ GAP * (Q + 1) = GAP * Q + GAP /\ GAP * (Q + 2) = GAP * Q + 2 * GAP
    BY <1>1, <2>4, <2>5
  <2>7. Way(k + 1) \in {ahead + (GAP * Q + GAP), ahead + (GAP * Q + 2 * GAP)}
    BY <2>3, <2>4, <2>6
  <2>. DEFINE P == GAP * Q
  <2>8. /\ P \in Nat /\ Q <= P /\ (Q >= 1 => GAP <= P) /\ Way(k) = ahead + P
        /\ Way(k + 1) \in {ahead + (P + GAP), ahead + (P + 2 * GAP)}
    BY <2>3, <2>6, <2>7
  <2>. HIDE DEF P
  <2>. QED  BY <1>1, <2>4, <2>8
<1>. QED  BY <1>2, <1>3, <1>4

\* The gap from a hole to the next.
Width(h) == IF h = EARS_HOLES - 1 THEN 2 * GAP ELSE GAP

\* The second hole is the width of the first behind it.
LEMMA SecondHole ==
    ASSUME EarTyped
    PROVE  Way(2) = ahead + Width(ear_mod(hole + 1))
<1>1. GAP \in Nat \ {0} /\ ahead \in Nat \ {0}
  BY EarsAssumption DEF EarTyped
<1>2. Cardinality(Wide(1 + 1)) = Cardinality(Wide(1)) + (IF ear_mod(hole + 1) = EARS_HOLES - 1 THEN 1 ELSE 0)
  BY WideGrows
<1>3. Cardinality(Wide(2)) = IF ear_mod(hole + 1) = EARS_HOLES - 1 THEN 1 ELSE 0
  BY <1>2, NoneWide
<1>4. Way(2) = ahead + GAP * (2 - 1 + Cardinality(Wide(2)))
  BY WayIs
<1>. QED  BY <1>1, <1>3, <1>4 DEF Width

\* The holes that pass while the ear turns, and where that leaves it.
LEMMA HolesPass ==
    ASSUME EarTyped, NEW dt \in Nat
    PROVE  /\ Passed(dt) \in Nat
           /\ ~Driven \/ jammed => Passed(dt) = 0
           /\ Driven /\ ~jammed =>
                  /\ Way(Passed(dt)) <= dt /\ dt < Way(Passed(dt) + 1)
                  /\ Way(Passed(dt) + 1) - dt \in 1 .. 2 * GAP
                  /\ Passed(dt) = 0 =>
                         dt < ahead /\ Way(Passed(dt) + 1) - dt = ahead - dt
<1>. DEFINE Bad == {k \in 0 .. dt : dt < Way(k + 1)}
            k == Passed(dt)
<1>1. CASE ~Driven \/ jammed
  BY <1>1 DEF Passed
<1>2. CASE Driven /\ ~jammed
  <2>1. dt \in Bad
    <3>1. dt + 1 \in Nat \ {0}
      OBVIOUS
    <3>2. Way(dt + 1) \in Nat /\ dt + 1 <= Way(dt + 1)
      BY <3>1, WayGrows
    <3>. QED  BY <3>2
  <2>2. PICK m \in Bad : \A j \in Bad : m <= j
    <3>1. Bad \in SUBSET Nat
      OBVIOUS
    <3>. HIDE DEF Bad
    <3>. QED  BY <2>1, <3>1, LeastIn
  <2>3. m \in 0 .. dt /\ dt < Way(m + 1)
    BY <2>2
  <2>4. Way(m) <= dt
    <3>1. CASE m = 0
      BY <3>1, WayGrows
    <3>2. CASE m # 0
      <4>1. m - 1 \in 0 .. dt /\ m - 1 \notin Bad /\ (m - 1) + 1 = m /\ m \in Nat \ {0}
        BY <2>2, <2>3, <3>2
      <4>2. ~(dt < Way(m)) /\ Way(m) \in Nat
        BY <4>1, WayGrows
      <4>. QED  BY <4>2
    <3>. QED  BY <3>1, <3>2
  <2>5. \E i \in 0 .. dt : Way(i) <= dt /\ dt < Way(i + 1)
    BY <2>3, <2>4
  <2>6. k \in 0 .. dt /\ Way(k) <= dt /\ dt < Way(k + 1)
    <3>1. k = CHOOSE i \in 0 .. dt : Way(i) <= dt /\ dt < Way(i + 1)
      BY <1>2 DEF Passed
    <3>. HIDE DEF k
    <3>. QED  BY <2>5, <3>1
  <2>. HIDE DEF k
  <2>7. GAP \in Nat /\ ahead \in 1 .. 2 * GAP /\ Way(0) = 0 /\ Way(1) = ahead
    BY WayGrows, EarsAssumption DEF EarTyped
  <2>8. /\ k \in Nat /\ Way(k + 1) - dt \in 1 .. 2 * GAP
        /\ k = 0 => dt < ahead /\ Way(k + 1) - dt = ahead - dt
    <3>1. CASE k = 0
      <4>1. k + 1 = 1
        BY <3>1
      <4>2. Way(k + 1) = ahead
        BY <2>7, <4>1
      <4>. QED  BY <2>6, <2>7, <3>1, <4>2
    <3>2. CASE k # 0
      <4>1. k \in Nat \ {0} /\ k + 1 \in Nat \ {0}
        BY <2>6, <3>2
      <4>2. Way(k) \in Nat /\ Way(k + 1) \in Nat
            /\ Way(k + 1) <= Way(k) + 2 * GAP
        BY <4>1, WayGrows
      <4>. QED  BY <2>6, <2>7, <3>2, <4>1, <4>2
    <3>. QED  BY <3>1, <3>2
  <2>. QED  BY <1>2, <2>6, <2>8 DEF k
<1>. QED  BY <1>1, <1>2
\* Where a turn leaves the ear: within two gaps of the next hole, and if none passed
\* as much closer to it.
LEMMA TurnKeeps ==
    ASSUME EarTyped, NEW dt \in Nat, Turn(dt)
    PROVE  /\ hole' \in EarHoles /\ ahead' \in 1 .. 2 * GAP /\ jammed' = jammed
           /\ Passed(dt) \in Nat
           /\ Driven /\ ~jammed /\ Passed(dt) = 0 => dt < ahead /\ ahead' = ahead - dt
<1>1. EARS_HOLES \in Nat \ {0} /\ hole \in Nat /\ ahead \in 1 .. 2 * GAP
  BY EarsAssumption DEF EarTyped, EarHoles
<1>2. Passed(dt) \in Nat
  BY HolesPass
<1>3. /\ hole' = ear_mod(hole + Passed(dt)) /\ jammed' = jammed
      /\ ahead' = IF ~Driven \/ jammed THEN ahead ELSE Way(Passed(dt) + 1) - dt
  BY DEF Turn
<1>4. hole' \in EarHoles
  <2>1. \A v \in Nat, h \in Nat \ {0} : v % h \in 0 .. h - 1
    OBVIOUS
  <2>2. hole + Passed(dt) \in Nat
    BY <1>1, <1>2
  <2>. QED  BY <1>1, <1>3, <2>1, <2>2, Zenon DEF ear_mod, EarHoles
<1>. QED  BY <1>1, <1>2, <1>3, <1>4, HolesPass

\* The states ear_tick leaves an ear in; only one that waited too long is given up.
LEMMA TickEnds ==
    ASSUME EarTyped, NEW n \in Nat, NEW waited \in Nat, ear_tick(n, waited)
    PROVE  /\ ear_state' \in {"IDLE", "CAL", "MOVE", "BROKEN"} /\ since' \in Nat
           /\ ear_state' = "BROKEN" =>
                  \/ ear_state = "BROKEN"
                  \/ Driven /\ n = 0 /\ waited > EARS_STALL_MS
           /\ ear_state' \in {"CAL", "MOVE"} =>
                  Driven /\ (since' = 0 \/ (n = 0 /\ since' = waited))
<1>1. ear_state \in {"IDLE", "CAL", "MOVE", "BROKEN"} /\ since \in Nat
  BY DEF EarTyped
<1>2. CASE Driven /\ Heard(n, waited) /\ since' = 0 /\ ear_state = "CAL"
           /\ CalHole(waited)
  <2>1. ear_state' \in {"IDLE", "CAL", "MOVE"}
    BY <1>2 DEF CalHole, Arrive, place
  <2>2. since' = 0 /\ Driven
    BY <1>2
  <2>. QED  BY ONLY <2>1, <2>2
<1>3. CASE Driven /\ Heard(n, waited) /\ since' = 0 /\ ear_state # "CAL"
           /\ MoveHoles(n)
  <2>1. ear_state = "MOVE"
    BY <1>3 DEF Driven
  <2>2. ear_state' \in {"IDLE", "MOVE"}
    BY <1>3, <2>1 DEF MoveHoles, Arrive
  <2>3. since' = 0 /\ Driven
    BY <1>3
  <2>. QED  BY ONLY <2>2, <2>3
<1>4. CASE Driven /\ ~Heard(n, waited) /\ Stalled(waited) /\ since' = 0
           /\ ear_state' = "BROKEN"
  BY <1>4 DEF Heard, Stalled
<1>5. CASE Driven /\ ~Heard(n, waited) /\ since' = waited /\ UNCHANGED place
  <2>1. ear_state' = ear_state
    BY <1>5 DEF place
  <2>. QED  BY <1>1, <1>5, <2>1 DEF Heard, Driven
<1>6. CASE ~Driven /\ ear_state' = ear_state /\ since' = since
  BY <1>1, <1>6 DEF Driven
<1>. QED  BY <1>2, <1>3, <1>4, <1>5, <1>6 DEF ear_tick

\* A pass of the task, on time or late.
LEMMA PassKeeps ==
    ASSUME GapsInTime, EarInv, NEW late \in Nat, Pass(late)
    PROVE  EarInv'
<1>. DEFINE dt == next + late
            k == Passed(dt)
            n == delta + k
            waited == since + dt
<1>1. EarTyped /\ HoleInTime /\ (ear_state = "BROKEN" => jammed)
  BY DEF EarInv, OnlyJammedBreaks
<1>2. /\ delta \in Nat /\ since \in Nat /\ next \in Nat /\ dt \in Nat /\ ahead \in 1 .. 2 * GAP
      /\ jammed \in BOOLEAN /\ GAP \in Nat /\ EARS_STALL_MS \in Nat /\ EARS_TICK_MS \in Nat
      /\ 2 * GAP <= EARS_STALL_MS
  BY <1>1, EarsAssumption DEF EarTyped, GapsInTime
<1>3. Turn(dt) /\ ear_tick(n, waited) /\ delta' = 0 /\ next' = EARS_TICK_MS
  BY DEF Pass
<1>. HIDE DEF dt
<1>4. /\ hole' \in EarHoles /\ ahead' \in 1 .. 2 * GAP /\ jammed' = jammed /\ k \in Nat
      /\ Driven /\ ~jammed /\ k = 0 => dt < ahead /\ ahead' = ahead - dt
  BY <1>1, <1>2, <1>3, TurnKeeps
<1>. HIDE DEF k
<1>5. n \in Nat /\ waited \in Nat /\ (n = 0 => delta = 0 /\ k = 0)
  BY <1>2, <1>4
<1>. HIDE DEF n
<1>6. /\ ear_state' \in {"IDLE", "CAL", "MOVE", "BROKEN"} /\ since' \in Nat
      /\ ear_state' = "BROKEN" =>
             \/ ear_state = "BROKEN"
             \/ Driven /\ n = 0 /\ waited > EARS_STALL_MS
      /\ ear_state' \in {"CAL", "MOVE"} =>
             Driven /\ (since' = 0 \/ (n = 0 /\ since' = waited))
  BY <1>1, <1>3, <1>5, TickEnds
<1>7. EarTyped'
  BY <1>2, <1>3, <1>4, <1>6 DEF EarTyped, EarHoles
<1>8. Driven /\ ~jammed /\ n = 0 =>
          since + ahead <= 2 * GAP /\ dt < ahead /\ ahead' = ahead - dt
  BY <1>1, <1>4, <1>5 DEF HoleInTime
<1>9. HoleInTime'
  <2>. SUFFICES ASSUME ear_state' \in {"CAL", "MOVE"}, ~jammed PROVE since' + ahead' <= 2 * GAP
    BY <1>4 DEF HoleInTime, Driven
  <2>1. CASE since' = 0
    <3>1. ahead' \in Int /\ ahead' <= 2 * GAP
      BY <1>2, <1>4
    <3>2. since' + ahead' = ahead'
      <4>1. since' \in Int
        BY <1>6
      <4>2. \A s, a \in Int : s = 0 => s + a = a
        OBVIOUS
      <4>. QED  BY <2>1, <3>1, <4>1, <4>2, Zenon
    <3>. QED  BY ONLY <3>1, <3>2
  <2>2. CASE since' # 0
    <3>1. Driven /\ n = 0 /\ since' = waited
      BY <1>6, <2>2
    <3>. QED  BY <1>2, <1>4, <1>8, <3>1
  <2>. QED  BY <2>1, <2>2
<1>10. OnlyJammedBreaks'
  <2>. SUFFICES ASSUME ear_state' = "BROKEN", ~jammed PROVE FALSE
    BY <1>2, <1>4 DEF OnlyJammedBreaks
  <2>1. Driven /\ n = 0 /\ waited > EARS_STALL_MS
    BY <1>1, <1>6
  <2>. QED  BY <1>2, <1>8, <2>1
<1>. QED  BY <1>7, <1>9, <1>10 DEF EarInv

\* A command starts the wait for a hole again.
LEMMA GotoKeeps ==
    ASSUME EarInv, NEW target, NEW moment \in Moments, Goto(target, moment)
    PROVE  EarInv'
<1>1. EarTyped /\ moment \in Nat
  BY EarsAssumption DEF EarInv
<1>2. /\ moment <= next /\ Turn(moment) /\ delta' = delta + Passed(moment)
      /\ next' = next - moment
      /\ ear_state # "BROKEN" /\ since' = 0
      /\ ear_state' \in {"IDLE", "CAL", "MOVE"}
  BY DEF Goto, ears_goto, StartCal
<1>3. /\ hole' \in EarHoles /\ ahead' \in 1 .. 2 * GAP /\ jammed' = jammed
      /\ Passed(moment) \in Nat
  BY <1>1, <1>2, TurnKeeps
<1>4. /\ delta \in Nat /\ next \in Nat /\ jammed \in BOOLEAN /\ GAP \in Nat
  BY <1>1, EarsAssumption DEF EarTyped
<1>5. EarTyped'
  BY <1>1, <1>2, <1>3, <1>4 DEF EarTyped, EarHoles
<1>6. since' + ahead' <= 2 * GAP
  <2>1. ahead' \in Int /\ ahead' <= 2 * GAP
    BY <1>3, <1>4
  <2>2. since' = 0
    BY <1>2
  <2>3. since' + ahead' = ahead'
    <3>1. since' \in Int
      BY <2>2
    <3>2. \A s, a \in Int : s = 0 => s + a = a
      OBVIOUS
    <3>. QED  BY <2>1, <2>2, <3>1, <3>2, Zenon
  <2>. QED  BY ONLY <2>1, <2>3
<1>7. HoleInTime'
  BY <1>6, Zenon DEF HoleInTime
<1>8. OnlyJammedBreaks'
  <2>1. ear_state' # "BROKEN"
    BY <1>2
  <2>. QED  BY <2>1, Zenon DEF OnlyJammedBreaks
<1>. QED  BY <1>5, <1>7, <1>8 DEF EarInv

\* A hand moves the ear, and the sensor counts it.
LEMMA HandKeeps ==
    ASSUME EarInv, NEW way \in {1, -1}, NEW rest \in Rests, Hand(way, rest)
    PROVE  EarInv'
<1>1. /\ hole' = ear_mod(hole + way) /\ ahead' = rest /\ delta' = delta + 1
      /\ ear_state' = ear_state /\ since' = since /\ next' = next /\ jammed' = jammed
  BY DEF Hand, place
<1>2. EarTyped /\ EARS_HOLES \in Nat \ {0} /\ GAP \in Nat /\ rest \in 1 .. GAP
  BY EarsAssumption DEF EarInv
<1>3. hole' \in EarHoles
  <2>1. \A v \in Int, h \in Nat \ {0} : v % h \in 0 .. h - 1
    OBVIOUS
  <2>2. hole + way \in Int
    BY <1>2 DEF EarTyped, EarHoles
  <2>. QED  BY <1>1, <1>2, <2>1, <2>2, Zenon DEF ear_mod, EarHoles
<1>4. EarTyped'
  BY <1>1, <1>2, <1>3 DEF EarTyped, EarHoles
<1>5. delta' # 0
  BY <1>1, <1>2 DEF EarTyped
<1>. QED  BY <1>1, <1>4, <1>5 DEF EarInv, HoleInTime, OnlyJammedBreaks

\* An ear at rest, as it is found.
LEMMA EarStarts == EarInit => EarInv
<1>. SUFFICES ASSUME EarInit PROVE EarInv
  OBVIOUS
<1>1. /\ ear_state = "IDLE" /\ delta = 0 /\ since = 0 /\ next = EARS_TICK_MS
      /\ hole \in EarHoles /\ ahead \in Rests /\ jammed = FALSE
  BY DEF EarInit
<1>2. ahead \in 1 .. 2 * GAP /\ EARS_TICK_MS \in Nat
  BY <1>1, EarsAssumption
<1>. QED  BY <1>1, <1>2 DEF EarInv, EarTyped, HoleInTime, OnlyJammedBreaks, Driven

\* Every step keeps the invariant of an ear.
LEMMA EarKeeps ==
    ASSUME GapsInTime PROVE EarInv /\ [EarNext]_ear_vars => EarInv'
<1>. SUFFICES ASSUME EarInv, [EarNext]_ear_vars PROVE EarInv'
  OBVIOUS
<1>1. ASSUME Pass(0) PROVE EarInv'
  BY <1>1, PassKeeps
<1>2. ASSUME Late PROVE EarInv'
  <2>1. PICK late \in Delays : Pass(late)
    BY <1>2 DEF Late
  <2>2. late \in Nat
    BY EarsAssumption
  <2>. QED  BY <2>1, <2>2, PassKeeps
<1>3. ASSUME Jam PROVE EarInv'
  BY <1>3 DEF Jam, place, EarInv, EarTyped, HoleInTime, OnlyJammedBreaks
<1>4. ASSUME NEW target \in Targets, NEW moment \in Moments, Goto(target, moment)
      PROVE  EarInv'
  BY <1>4, GotoKeeps
<1>5. ASSUME NEW way \in {1, -1}, NEW rest \in Rests, Hand(way, rest) PROVE EarInv'
  BY <1>5, HandKeeps
<1>6. ASSUME UNCHANGED ear_vars PROVE EarInv'
  BY <1>6 DEF ear_vars, place, ear, EarInv, EarTyped, HoleInTime,
              OnlyJammedBreaks, Driven
<1>. QED  BY <1>1, <1>2, <1>3, <1>4, <1>5, <1>6 DEF EarNext

\* _ear_tick gives up no ear that turns (ears.mtl): a late pass finds the holes that
\* went by and counts them before it looks at the time, and a command that sets the
\* ear off again starts the wait afresh.
THEOREM OnlyJammedBreaksHolds ==
    ASSUME GapsInTime PROVE EarSpec => []OnlyJammedBreaks
<1>1. EarInit => EarInv
  BY EarStarts
<1>2. EarInv /\ [EarNext]_ear_vars => EarInv'
  BY EarKeeps
<1>3. EarInv => OnlyJammedBreaks
  BY DEF EarInv
<1>. QED  BY <1>1, <1>2, <1>3, PTL DEF EarSpec

--------------------------------------------------------------------------------
(* Where the ear is.                                                       *)

\* What is less than h is the rest of a division by h.
LEMMA ModIs == ASSUME NEW h \in Nat \ {0}, NEW q \in Int, NEW r \in 0 .. h - 1 PROVE (h * q + r) % h = r
OBVIOUS

\* What is small is its own rest.
LEMMA ModSmall == ASSUME NEW h \in Nat \ {0}, NEW r \in 0 .. h - 1 PROVE r % h = r
<1>1. (h * 0 + r) % h = r
  BY ModIs
<1>. QED  BY <1>1

\* A number is so many times h and a rest.
LEMMA ModSplit == ASSUME NEW a \in Int, NEW h \in Nat \ {0}
  PROVE a % h \in 0 .. h - 1 /\ a \div h \in Int /\ a = h * (a \div h) + (a % h)
OBVIOUS

\* It does not matter when one wraps.
LEMMA ModPlus == ASSUME NEW a \in Int, NEW b \in Int, NEW h \in Nat \ {0}
  PROVE  ((a % h) + b) % h = (a + b) % h
<1>. DEFINE q == a \div h
            r == a % h
            p == (r + b) \div h
            z == (r + b) % h
<1>1. r \in 0 .. h - 1 /\ q \in Int /\ a = h * q + r
  BY ModSplit
<1>. HIDE DEF q, r
<1>2. z \in 0 .. h - 1 /\ p \in Int /\ r + b = h * p + z
  <2>1. r + b \in Int
    BY <1>1
  <2>. HIDE DEF p, z
  <2>2. \A v \in Int : v % h \in 0 .. h - 1 /\ v \div h \in Int /\ v = h * (v \div h) + (v % h)
    BY ModSplit
  <2>. QED  BY <2>1, <2>2, Zenon DEF p, z
<1>. HIDE DEF p, z
<1>3. h * q + h * p = h * (q + p) /\ h * q \in Int /\ h * p \in Int
  BY <1>1, <1>2
<1>4. a + b = h * (q + p) + z /\ q + p \in Int
  BY <1>1, <1>2, <1>3
<1>5. (h * (q + p) + z) % h = z
  BY <1>2, <1>4, ModIs
<1>. QED  BY <1>4, <1>5 DEF z, r

\* How long before the last pass the hole behind the ear went by.
Lag == Width(hole) - (since + ahead)

\* What so many gaps of a calibration leave of the average, at the least: the first may
\* be half of one, and each is off by how late the passes saw its two holes.
Paced(gaps, avg, lag) ==
    \/ gaps = 1 /\ 2 * avg >= GAP + 2 * lag
    \/ gaps = 2 /\ 8 * avg >= 5 * GAP + 2 * lag - 6
    \/ gaps >= 3 /\ 32 * avg >= 23 * GAP - 2 * EARS_TICK_MS - 40

PlaceTyped ==
    /\ EarTyped /\ next <= EARS_TICK_MS
    /\ ear_pos \in {None} \cup EarHoles /\ ear_dirty \in BOOLEAN /\ trusted \in BOOLEAN
    /\ ear_gaps \in Nat /\ ear_avg_ms \in Int
    /\ ear_state = "CAL" => Lost
    /\ ear_state = "MOVE" => ~Lost

\* A calibration by the rules, from its start and from hole to hole.
Timing ==
    trusted /\ ear_state = "CAL" =>
        /\ delta = 0
        /\ ~jammed => \/ ear_gaps = 0 /\ ear_avg_ms = None /\ 2 * (since + ahead) >= GAP
                      \/ /\ ear_avg_ms \in Nat /\ Lag \in 0 .. EARS_TICK_MS - 1
                         /\ Paced(ear_gaps, ear_avg_ms, Lag)

PlaceInv == PlaceTyped /\ Timing /\ KnowsItsPlace

\* One more gap, wide or not, keeps the average above its least, and only a wide one
\* exceeds it by three quarters.
LEMMA Averaged ==
    ASSUME GapsTell, NEW gaps \in Nat, NEW avg \in Nat, NEW lag \in 0 .. EARS_TICK_MS - 1,
           NEW new \in 0 .. EARS_TICK_MS - 1, NEW wide \in {GAP, 2 * GAP},
           Paced(gaps, avg, lag), NEW gap, gap = wide - lag + new
    PROVE  /\ gap \in Nat /\ (avg * 3 + gap) \div 4 \in Nat
           /\ Paced(IF gaps < EARS_CAL_MIN_GAPS THEN gaps + 1 ELSE gaps, (avg * 3 + gap) \div 4, new)
           /\ gaps >= EARS_CAL_MIN_GAPS /\ gap > (avg * 7) \div 4 => wide = 2 * GAP
<1>. DEFINE T == EARS_TICK_MS
            C == EARS_CAL_MIN_GAPS
            a == (avg * 3 + gap) \div 4
            b == (avg * 7) \div 4
<1>1. /\ T \in Nat /\ GAP \in Nat /\ C \in Nat /\ C >= 3 /\ 142 * T + 152 <= 33 * GAP
      /\ lag \in 0 .. T - 1 /\ new \in 0 .. T - 1
  BY EarsAssumption DEF GapsTell
<1>2. gap \in Nat /\ gap >= GAP - lag + new
  BY <1>1
<1>3. a \in Nat /\ 4 * a <= avg * 3 + gap /\ avg * 3 + gap <= 4 * a + 3
  BY <1>2
<1>4. b \in Nat /\ avg * 7 <= 4 * b + 3 /\ 4 * b <= avg * 7
  BY <1>2
<1>5. \/ gaps = 1 /\ 2 * avg >= GAP + 2 * lag
      \/ gaps = 2 /\ 8 * avg >= 5 * GAP + 2 * lag - 6
      \/ gaps >= 3 /\ 32 * avg >= 23 * GAP - 2 * T - 40
  BY DEF Paced
<1>. HIDE DEF T, C, a, b
<1>6. CASE gaps = 1 /\ 2 * avg >= GAP + 2 * lag
  <2>1. gaps + 1 = 2 /\ gaps < C /\ 8 * a >= 5 * GAP + 2 * new - 6
    BY <1>1, <1>2, <1>3, <1>6
  <2>2. Paced(gaps + 1, a, new)
    BY <2>1 DEF Paced
  <2>. QED  BY <1>1, <1>2, <1>3, <1>6, <2>1, <2>2 DEF a, b, C
<1>7. CASE gaps = 2 /\ 8 * avg >= 5 * GAP + 2 * lag - 6
  <2>1. gaps + 1 = 3 /\ gaps < C /\ 32 * a >= 23 * GAP - 2 * T - 40
    BY <1>1, <1>2, <1>3, <1>7
  <2>2. Paced(gaps + 1, a, new)
    BY <2>1 DEF Paced, T
  <2>. QED  BY <1>1, <1>2, <1>3, <1>7, <2>1, <2>2 DEF a, b, C
<1>8. CASE gaps >= 3 /\ 32 * avg >= 23 * GAP - 2 * T - 40
  <2>1. 32 * a >= 23 * GAP - 2 * T - 40
    BY <1>1, <1>2, <1>3, <1>8
  <2>2. gaps + 1 >= 3 /\ gaps >= 3
    BY <1>8
  <2>3. Paced(gaps + 1, a, new) /\ Paced(gaps, a, new)
    BY <2>1, <2>2 DEF Paced, T
  <2>4. gap > b => wide = 2 * GAP
    <3>. SUFFICES ASSUME wide = GAP PROVE gap <= b
      BY <1>2, <1>4
    <3>1. gap <= GAP + T - 1
      BY <1>1
    <3>2. 7 * avg >= 4 * gap
      BY <1>1, <1>2, <1>8, <3>1
    <3>. QED  BY <1>2, <1>4, <3>2
  <2>. QED  BY <1>2, <1>3, <2>3, <2>4 DEF a, b, C
<1>. QED  BY <1>5, <1>6, <1>7, <1>8

\* In a pass that is not late an ear that turns meets one hole at most.
LEMMA OneHole ==
    ASSUME EarTyped, Driven, ~jammed, NEW dt \in Nat, dt <= GAP, Turn(dt)
    PROVE  \/ Passed(dt) = 0 /\ hole' = hole /\ dt < ahead /\ ahead' = ahead - dt
           \/ /\ Passed(dt) = 1 /\ hole' = ear_mod(hole + 1)
              /\ ahead <= dt /\ ahead' = ahead + Width(hole') - dt
<1>. DEFINE k == Passed(dt)
<1>1. /\ k \in Nat /\ Way(k) <= dt /\ dt < Way(k + 1)
  BY HolesPass
<1>2. hole' = ear_mod(hole + k) /\ ahead' = Way(k + 1) - dt
  BY DEF Turn
<1>3. /\ Way(0) = 0 /\ Way(1) = ahead
      /\ \A j \in Nat \ {0} : Way(j) \in Nat /\ (j > 1 => GAP < Way(j))
  BY WayGrows
<1>4. GAP \in Nat /\ EARS_HOLES \in Nat \ {0} /\ hole \in 0 .. EARS_HOLES - 1
  BY EarsAssumption DEF EarTyped, EarHoles
<1>. HIDE DEF k
<1>5. k = 0 \/ k = 1
  <2>. SUFFICES ASSUME k > 1 PROVE FALSE
    BY <1>1
  <2>1. k \in Nat \ {0}
    BY <1>1
  <2>2. Way(k) \in Nat /\ GAP < Way(k)
    BY <1>3, <2>1
  <2>. QED  BY <1>1, <1>4, <2>2
<1>6. CASE k = 0
  <2>1. hole' = hole % EARS_HOLES
    BY <1>2, <1>4, <1>6 DEF ear_mod
  <2>2. hole % EARS_HOLES = hole
    BY <1>4, ModSmall
  <2>3. Way(k + 1) = ahead
    BY <1>3, <1>6
  <2>. QED  BY <1>1, <1>2, <1>6, <2>1, <2>2, <2>3 DEF k
<1>7. CASE k = 1
  <2>1. hole' = ear_mod(hole + 1)
    BY <1>2, <1>7
  <2>2. Way(k) = ahead /\ Way(k + 1) = ahead + Width(hole')
    BY <1>3, <1>7, <2>1, SecondHole
  <2>3. ahead <= dt /\ ahead' = ahead + Width(hole') - dt
    <3>1. ahead <= dt
      BY <1>1, <2>2
    <3>2. ahead' = Way(k + 1) - dt
      BY <1>2
    <3>3. Width(hole') \in Nat /\ ahead \in Nat
      BY <1>4 DEF Width, EarTyped
    <3>. QED  BY <2>2, <3>1, <3>2, <3>3
  <2>4. Passed(dt) = 1
    BY <1>7 DEF k
  <2>. QED  BY <2>1, <2>3, <2>4
<1>. QED  BY <1>5, <1>6, <1>7

\* A pass on time in a calibration by the rules: what it hears is one gap, timed to a
\* period, and if it takes that for the wide one it is, and the ear is at zero.
LEMMA CalPass ==
    ASSUME GapsTell, PlaceInv, trusted, ear_state = "CAL", Pass(0)
    PROVE  Timing' /\ KnowsItsPlace'
<1>. DEFINE k == Passed(next)
            waited == since + next
            e == next - ahead
<1>1. /\ delta = 0 /\ EarTyped /\ Driven
      /\ since \in Nat /\ next \in Nat /\ ahead \in Nat /\ hole \in 0 .. EARS_HOLES - 1
      /\ next <= EARS_TICK_MS /\ ear_gaps \in Nat /\ jammed \in BOOLEAN
  BY EarsAssumption DEF PlaceInv, PlaceTyped, Timing, EarTyped, Driven, EarHoles
<1>2. /\ next + 0 = next /\ delta + k = k /\ k \in Nat
      /\ EARS_TICK_MS \in Nat /\ GAP \in Nat /\ EARS_HOLES \in Nat \ {0} /\ EARS_TICK_MS <= GAP
      /\ EARS_CAL_MIN_GAPS \in Nat /\ EARS_CAL_MIN_GAPS >= 3
  BY <1>1, EarsAssumption, HolesPass DEF GapsTell
<1>3. /\ Turn(next) /\ ear_tick(k, waited) /\ delta' = 0 /\ next' = EARS_TICK_MS
      /\ trusted' = trusted /\ jammed' = jammed
  BY <1>1, <1>2, Zenon DEF Pass, Turn
<1>. HIDE DEF k
<1>4. CASE k = 0
  <2>1. \/ since' = 0 /\ ear_state' = "BROKEN"
        \/ since' = waited /\ UNCHANGED <<place, rhythm>>
    BY <1>1, <1>3, <1>4 DEF ear_tick, Heard
  <2>2. CASE ear_state' = "BROKEN"
    BY <2>2 DEF Timing, KnowsItsPlace
  <2>3. CASE since' = waited /\ UNCHANGED <<place, rhythm>>
    <3>1. ear_state' = "CAL" /\ ear_gaps' = ear_gaps /\ ear_avg_ms' = ear_avg_ms
      BY <2>3 DEF place, rhythm
    <3>2. ASSUME ~jammed PROVE hole' = hole /\ ahead' = ahead - next
      BY <1>1, <1>2, <1>3, <1>4, <3>2, OneHole DEF k
    <3>3. ~jammed => since' + ahead' = since + ahead /\ hole' = hole
      BY <1>1, <2>3, <3>2
    <3>4. Timing'
      BY <1>3, <3>1, <3>3 DEF PlaceInv, Timing, Lag
    <3>. QED  BY <3>1, <3>4 DEF KnowsItsPlace
  <2>. QED  BY <2>1, <2>2, <2>3
<1>5. CASE k # 0
  <2>1. ~jammed
    BY <1>1, <1>5, HolesPass DEF k
  <2>2. /\ k = 1 /\ hole' = ear_mod(hole + 1) /\ ahead <= next
        /\ ahead' = ahead + Width(hole') - next
    BY <1>1, <1>2, <1>3, <1>5, <2>1, OneHole DEF k
  <2>3. since' = 0 /\ CalHole(waited)
    BY <1>1, <1>2, <1>3, <1>5 DEF ear_tick, Heard
  <2>4. /\ Width(hole) \in {GAP, 2 * GAP} /\ Width(hole') \in {GAP, 2 * GAP}
    BY DEF Width
  <2>5. e \in 0 .. EARS_TICK_MS - 1 /\ waited = since + ahead + e /\ Lag' = e
    <3>1. ahead >= 1
      BY <1>1 DEF EarTyped
    <3>. QED  BY <1>1, <1>2, <2>2, <2>3, <2>4, <3>1 DEF Lag
  <2>6. \/ ear_gaps = 0 /\ ear_avg_ms = None /\ 2 * (since + ahead) >= GAP
        \/ /\ ear_avg_ms \in Nat /\ Lag \in 0 .. EARS_TICK_MS - 1
           /\ Paced(ear_gaps, ear_avg_ms, Lag)
    BY <2>1 DEF PlaceInv, Timing
  <2>. HIDE DEF e, waited
  <2>7. CASE ear_gaps = 0 /\ ear_avg_ms = None /\ 2 * (since + ahead) >= GAP
    <3>1. ~Notch(waited)
      BY <2>7 DEF Notch
    <3>2. ear_avg_ms' = waited /\ ear_gaps' = 1 /\ UNCHANGED place
      BY <1>2, <2>3, <2>7, <3>1 DEF CalHole
    <3>3. waited \in Nat /\ 2 * waited >= GAP + 2 * e
      BY <1>1, <1>2, <2>5, <2>7
    <3>4. Paced(ear_gaps', ear_avg_ms', Lag')
      BY <2>5, <3>2, <3>3 DEF Paced
    <3>5. ear_state' = "CAL"
      BY <3>2 DEF place
    <3>6. Timing'
      BY <1>3, <2>5, <3>2, <3>3, <3>4, Zenon DEF Timing
    <3>. QED  BY <3>5, <3>6 DEF KnowsItsPlace
  <2>8. CASE /\ ear_avg_ms \in Nat /\ Lag \in 0 .. EARS_TICK_MS - 1
             /\ Paced(ear_gaps, ear_avg_ms, Lag)
    <3>1. waited = Width(hole) - Lag + e
      BY <1>1, <1>2, <2>4, <2>5 DEF Lag
    <3>. DEFINE avg == (ear_avg_ms * 3 + waited) \div 4
                gaps == IF ear_gaps < EARS_CAL_MIN_GAPS THEN ear_gaps + 1 ELSE ear_gaps
    <3>2. /\ avg \in Nat /\ Paced(gaps, avg, e)
          /\ ear_gaps >= EARS_CAL_MIN_GAPS /\ waited > (ear_avg_ms * 7) \div 4 => Width(hole) = 2 * GAP
      BY <1>1, <2>4, <2>5, <2>8, <3>1, Averaged
    <3>. HIDE DEF avg, gaps
    <3>3. CASE Notch(waited)
      <4>1. Width(hole) = 2 * GAP
        BY <3>2, <3>3 DEF Notch
      <4>2. hole = EARS_HOLES - 1
        BY <1>2, <4>1, EarsAssumption DEF Width
      <4>3. hole' = 0
        <5>1. (EARS_HOLES * 1 + 0) % EARS_HOLES = 0
          BY <1>2, ModIs
        <5>2. hole + 1 = EARS_HOLES * 1 + 0
          BY <1>2, <4>2
        <5>. QED  BY <2>2, <5>1, <5>2, Zenon DEF ear_mod
      <4>4. ear_pos' = 0 /\ ear_state' # "CAL"
        BY <2>3, <3>3 DEF CalHole, Arrive
      <4>5. ear_mod(ear_pos' + delta') = hole'
        <5>1. 0 % EARS_HOLES = 0 /\ 0 + 0 = 0
          BY <1>2, ModSmall
        <5>. QED  BY <1>3, <4>3, <4>4, <5>1, Zenon DEF ear_mod
      <4>. QED  BY <4>4, <4>5 DEF Timing, KnowsItsPlace
    <3>4. CASE ~Notch(waited)
      <4>1. ear_avg_ms' = avg /\ ear_gaps' = gaps /\ UNCHANGED place
        <5>1. ear_avg_ms # None
          BY <2>8 DEF None
        <5>. QED  BY <2>3, <3>4, <5>1 DEF CalHole, avg, gaps
      <4>2. ear_state' = "CAL"
        BY <4>1 DEF place
      <4>3. Timing'
        BY <1>3, <2>5, <3>2, <4>1, Zenon DEF Timing
      <4>. QED  BY <4>2, <4>3 DEF KnowsItsPlace
    <3>. QED  BY <3>3, <3>4
  <2>. QED  BY <2>6, <2>7, <2>8
<1>. QED  BY <1>4, <1>5

\* The types that a pass leaves behind, and that it knows where it is once it moves.
LEMMA PassTyped ==
    ASSUME PlaceInv, NEW late \in Nat, Pass(late)
    PROVE  PlaceTyped'
<1>. DEFINE dt == next + late
            n == delta + Passed(dt)
            waited == since + dt
<1>1. /\ EarTyped /\ dt \in Nat /\ n \in Nat /\ waited \in Nat
      /\ EARS_HOLES \in Nat \ {0} /\ EARS_TICK_MS \in Nat
  BY EarsAssumption, HolesPass DEF PlaceInv, PlaceTyped, EarTyped
<1>2. /\ Turn(dt) /\ ear_tick(n, waited) /\ delta' = 0 /\ next' = EARS_TICK_MS
      /\ trusted' = (trusted /\ (late = 0 \/ ear_state # "CAL"))
  BY Zenon DEF Pass
<1>. HIDE DEF dt, n, waited
<1>3. /\ hole' \in EarHoles /\ ahead' \in 1 .. 2 * GAP /\ jammed' = jammed
  BY <1>1, <1>2, TurnKeeps
<1>4. /\ ear_state' \in {"IDLE", "CAL", "MOVE", "BROKEN"} /\ since' \in Nat
  BY <1>1, <1>2, TickEnds
<1>5. EarTyped'
  BY <1>1, <1>2, <1>3, <1>4 DEF EarTyped
<1>6. /\ ear_pos \in {None} \cup EarHoles /\ ear_dirty \in BOOLEAN /\ trusted \in BOOLEAN
      /\ ear_gaps \in Nat /\ ear_avg_ms \in Int
      /\ ear_state = "CAL" => Lost
      /\ ear_state = "MOVE" => ~Lost
  BY DEF PlaceInv, PlaceTyped
<1>7. 0 \in EarHoles /\ 0 # None /\ \A v \in EarHoles : v # None /\ v \in Nat
  BY <1>1 DEF EarHoles, None
<1>. DEFINE Fits == /\ ear_pos' \in {None} \cup EarHoles /\ ear_dirty' \in BOOLEAN
                    /\ ear_gaps' \in Nat /\ ear_avg_ms' \in Int
                    /\ ear_state' = "CAL" => Lost'
                    /\ ear_state' = "MOVE" => ~Lost'
<1>14. trusted' \in BOOLEAN /\ next' <= EARS_TICK_MS
  BY <1>1, <1>2
<1>. SUFFICES Fits
  BY <1>5, <1>14 DEF PlaceTyped
<1>8. CASE Driven /\ ear_state = "CAL" /\ CalHole(waited)
  <2>1. CASE Notch(waited) /\ ear_pos' = 0 /\ ear_dirty' = FALSE /\ ear_state' # "CAL" /\ UNCHANGED rhythm
    BY <1>6, <1>7, <2>1 DEF Lost, rhythm
  <2>2. CASE /\ UNCHANGED place /\ ear_gaps' \in {ear_gaps, ear_gaps + 1}
             /\ ear_avg_ms' \in {waited, (ear_avg_ms * 3 + waited) \div 4}
    <3>1. (ear_avg_ms * 3 + waited) \div 4 \in Int
      BY <1>1, <1>6
    <3>. QED  BY <1>1, <1>6, <2>2, <3>1 DEF Lost, place
  <2>. QED  BY <1>8, <2>1, <2>2 DEF CalHole, Arrive
<1>9. CASE Driven /\ ear_state # "CAL" /\ MoveHoles(n)
  <2>1. ear_state = "MOVE" /\ ear_pos \in EarHoles /\ ear_dirty = FALSE
    BY <1>6, <1>9 DEF Driven, Lost
  <2>2. ear_pos' \in EarHoles
    <3>1. ear_pos + n \in Int
      BY <1>1, <1>7, <2>1
    <3>2. \A v \in Int : v % EARS_HOLES \in 0 .. EARS_HOLES - 1
      BY <1>1
    <3>. QED  BY <1>9, <3>1, <3>2, Zenon DEF MoveHoles, ear_mod, EarHoles
  <2>3. ear_dirty' = FALSE /\ UNCHANGED rhythm /\ ear_state' \in {"IDLE", "MOVE"}
    BY <1>9, <2>1 DEF MoveHoles, Arrive
  <2>. QED  BY <1>6, <1>7, <2>2, <2>3 DEF Lost, rhythm
<1>10. CASE ear_state' = "BROKEN" /\ UNCHANGED <<ear_pos, ear_target, ear_dirty, rhythm>>
  BY <1>6, <1>10 DEF rhythm
<1>11. CASE UNCHANGED <<place, rhythm>>
  BY <1>6, <1>11 DEF place, rhythm, Lost
<1>12. CASE ~Driven /\ ear_dirty' = TRUE /\ UNCHANGED <<ear_state, ear_pos, ear_target, rhythm>>
  BY <1>6, <1>12 DEF Driven, rhythm, Lost
<1>. QED  BY <1>2, <1>8, <1>9, <1>10, <1>11, <1>12 DEF ear_tick

\* A pass while the ear moves: the holes it counts are the holes it went by.
LEMMA MovePass ==
    ASSUME PlaceInv, ear_state = "MOVE", NEW late \in Nat, Pass(late)
    PROVE  Timing' /\ KnowsItsPlace'
<1>. DEFINE dt == next + late
            k == Passed(dt)
            n == delta + k
            waited == since + dt
<1>1. /\ EarTyped /\ dt \in Nat /\ k \in Nat /\ delta \in Nat /\ ear_pos \in Nat /\ hole \in Nat
      /\ EARS_HOLES \in Nat \ {0} /\ Driven /\ ~Lost
  BY EarsAssumption, HolesPass DEF PlaceInv, PlaceTyped, EarTyped, Driven, Lost, EarHoles, None
<1>2. /\ Turn(dt) /\ ear_tick(n, waited) /\ delta' = 0
      /\ trusted' = (trusted /\ (late = 0 \/ ear_state # "CAL"))
  BY Zenon DEF Pass
<1>. HIDE DEF dt
<1>3. hole' = ear_mod(hole + k)
  BY <1>2 DEF Turn
<1>. HIDE DEF k
<1>. DEFINE Right == trusted => ear_mod(ear_pos + n) = hole'
<1>4. Right
  <2>. SUFFICES ASSUME trusted PROVE ear_mod(ear_pos + n) = hole'
    OBVIOUS
  <2>1. ear_mod(ear_pos + delta) = hole
    <3>1. ear_pos # None /\ ear_dirty = FALSE
      BY <1>1 DEF PlaceInv, PlaceTyped, Lost
    <3>. QED  BY <1>1, <3>1 DEF PlaceInv, KnowsItsPlace
  <2>2. ear_pos + n = (ear_pos + delta) + k /\ ear_pos + delta \in Int /\ k \in Int
    BY <1>1
  <2>3. (((ear_pos + delta) % EARS_HOLES) + k) % EARS_HOLES = ((ear_pos + delta) + k) % EARS_HOLES
    BY <1>1, <2>2, ModPlus
  <2>. QED  BY <1>3, <2>1, <2>2, <2>3, Zenon DEF ear_mod
<1>5. n \in Nat
  BY <1>1
<1>. HIDE DEF n
<1>6. CASE n > 0 /\ MoveHoles(n)
  <2>1. ear_pos' = ear_mod(ear_pos + n) /\ ear_state' \in {"IDLE", "MOVE"}
    BY <1>6 DEF MoveHoles, Arrive
  <2>2. ear_pos' \in 0 .. EARS_HOLES - 1
    <3>1. ear_pos + n \in Int
      BY <1>1, <1>5
    <3>2. \A v \in Int : v % EARS_HOLES \in 0 .. EARS_HOLES - 1
      BY <1>1
    <3>. QED  BY <2>1, <3>1, <3>2, Zenon DEF ear_mod
  <2>3. ear_mod(ear_pos' + delta') = ear_pos'
    <3>1. ear_pos' % EARS_HOLES = ear_pos'
      BY <1>1, <2>2, ModSmall, Zenon
    <3>2. ear_pos' + 0 = ear_pos'
      <4>1. \A v \in 0 .. EARS_HOLES - 1 : v + 0 = v
        BY <1>1
      <4>. QED  BY <2>2, <4>1, Zenon
    <3>. QED  BY <1>2, <3>1, <3>2, Zenon DEF ear_mod
  <2>. QED  BY <1>2, <1>4, <2>1, <2>3 DEF Timing, KnowsItsPlace
<1>7. CASE n = 0 /\ ear_state' = "BROKEN"
  BY <1>7 DEF Timing, KnowsItsPlace
<1>8. CASE n = 0 /\ UNCHANGED <<place, rhythm>>
  <2>1. ear_state' = "MOVE" /\ ear_pos' = ear_pos
    BY <1>8 DEF place
  <2>. QED  BY <1>2, <1>4, <1>8, <2>1 DEF Timing, KnowsItsPlace
<1>. QED  BY <1>1, <1>2, <1>5, <1>6, <1>7, <1>8 DEF ear_tick, Heard

\* A pass, on time or late.
LEMMA PlacePass ==
    ASSUME GapsTell, PlaceInv, NEW late \in Nat, Pass(late)
    PROVE  PlaceInv'
<1>1. PlaceTyped'
  BY PassTyped
<1>2. ear_state \in {"IDLE", "CAL", "MOVE", "BROKEN"} /\ trusted \in BOOLEAN
  BY DEF PlaceInv, PlaceTyped, EarTyped
<1>3. trusted' = (trusted /\ (late = 0 \/ ear_state # "CAL"))
  BY Zenon DEF Pass
<1>4. CASE ear_state = "CAL" /\ trusted /\ late = 0
  BY <1>1, <1>4, CalPass DEF PlaceInv
<1>5. CASE ear_state = "CAL" /\ ~(trusted /\ late = 0)
  BY <1>1, <1>3, <1>5 DEF PlaceInv, Timing, KnowsItsPlace
<1>6. CASE ear_state = "MOVE"
  BY <1>1, <1>6, MovePass DEF PlaceInv
<1>7. CASE ~Driven
  <2>1. ear_dirty' = TRUE /\ ear_state' = ear_state
    BY <1>7, Zenon DEF Pass, ear_tick
  <2>. QED  BY <1>1, <1>7, <2>1 DEF PlaceInv, Timing, KnowsItsPlace, Driven
<1>. QED  BY <1>2, <1>4, <1>5, <1>6, <1>7 DEF Driven

\* A command that finds the ear lost sets off a calibration, and one that finds it in
\* its place lets it go on.
LEMMA PlaceGoto ==
    ASSUME PlaceInv, NEW target \in Targets, NEW moment \in Moments, Goto(target, moment)
    PROVE  PlaceInv'
<1>. DEFINE k == Passed(moment)
<1>1. /\ EarTyped /\ moment \in Nat /\ next \in Nat /\ delta \in Nat /\ next <= EARS_TICK_MS
      /\ EARS_HOLES \in Nat \ {0} /\ EARS_TICK_MS \in Nat
      /\ k \in Nat /\ (~Driven => k = 0)
  BY EarsAssumption, HolesPass DEF PlaceInv, PlaceTyped, EarTyped
<1>2. /\ moment <= next /\ Turn(moment) /\ delta' = delta + k /\ next' = next - moment
      /\ ears_goto(target)
  BY DEF Goto
<1>3. /\ hole' \in EarHoles /\ ahead' \in 1 .. 2 * GAP /\ jammed' = jammed /\ hole' = ear_mod(hole + k)
  BY <1>1, <1>2, TurnKeeps DEF Turn
<1>. HIDE DEF k
<1>4. /\ since' = 0 /\ ear_state # "BROKEN" /\ ear_pos' = ear_pos /\ ear_dirty' = ear_dirty
      /\ Lost => StartCal
      /\ ~Lost => /\ ear_state' \in {"IDLE", "MOVE"} /\ UNCHANGED rhythm
                  /\ trusted' = (trusted /\ (Driven \/ delta = 0))
  BY <1>2 DEF ears_goto
<1>5. ear_state' \in {"IDLE", "CAL", "MOVE", "BROKEN"}
  BY <1>4 DEF StartCal
<1>6. EarTyped'
  <2>1. next' \in Nat /\ delta' \in Nat /\ since' \in Nat
    BY <1>1, <1>2, <1>4
  <2>. QED  BY <1>1, <1>3, <1>5, <2>1 DEF EarTyped
<1>7. next' <= EARS_TICK_MS
  BY <1>1, <1>2
<1>8. /\ ear_pos \in {None} \cup EarHoles /\ ear_dirty \in BOOLEAN /\ trusted \in BOOLEAN
      /\ ear_gaps \in Nat /\ ear_avg_ms \in Int
  BY DEF PlaceInv, PlaceTyped
<1>9. CASE Lost
  <2>1. /\ ear_state' = "CAL" /\ ear_gaps' = 0 /\ ear_avg_ms' = None /\ Lost'
        /\ trusted' = (delta' = 0 /\ 2 * ahead' >= GAP)
    BY <1>4, <1>9 DEF StartCal, Lost
  <2>2. None \in Int
    BY DEF None
  <2>3. PlaceTyped'
    BY <1>4, <1>6, <1>7, <1>8, <2>1, <2>2 DEF PlaceTyped
  <2>4. since' + ahead' = ahead'
    <3>1. since' \in Int /\ ahead' \in Int
      BY <1>3, <1>4, EarsAssumption
    <3>2. \A s, a \in Int : s = 0 => s + a = a
      OBVIOUS
    <3>. QED  BY <1>4, <3>1, <3>2, Zenon
  <2>5. Timing'
    BY <2>1, <2>4 DEF Timing
  <2>. QED  BY <2>1, <2>3, <2>5 DEF PlaceInv, KnowsItsPlace
<1>10. CASE ~Lost
  <2>1. ear_state \in {"IDLE", "MOVE"} /\ ear_pos \in Nat /\ ear_dirty = FALSE /\ ear_pos # None
    BY <1>4, <1>8, <1>10 DEF PlaceInv, PlaceTyped, EarTyped, Lost, EarHoles
  <2>2. /\ ear_state' \in {"IDLE", "MOVE"} /\ ear_gaps' = ear_gaps /\ ear_avg_ms' = ear_avg_ms
        /\ trusted' = (trusted /\ (Driven \/ delta = 0)) /\ ~Lost'
    BY <1>4, <1>10 DEF rhythm, Lost
  <2>3. PlaceTyped'
    BY <1>4, <1>6, <1>7, <1>8, <2>2 DEF PlaceTyped
  <2>4. trusted' => ear_mod(ear_pos + delta') = hole'
    <3>. SUFFICES ASSUME trusted' PROVE ear_mod(ear_pos + delta') = hole'
      OBVIOUS
    <3>1. ear_mod(ear_pos + delta) = hole
      BY <1>8, <2>1, <2>2 DEF PlaceInv, KnowsItsPlace
    <3>2. ear_pos + delta' = (ear_pos + delta) + k /\ ear_pos + delta \in Int /\ k \in Int
      BY <1>1, <1>2, <2>1
    <3>3. (((ear_pos + delta) % EARS_HOLES) + k) % EARS_HOLES = ((ear_pos + delta) + k) % EARS_HOLES
      BY <1>1, <3>2, ModPlus
    <3>. QED  BY <1>3, <3>1, <3>2, <3>3, Zenon DEF ear_mod
  <2>. QED  BY <1>4, <2>2, <2>3, <2>4 DEF PlaceInv, Timing, KnowsItsPlace
<1>. QED  BY <1>9, <1>10

\* A hand at an ear at rest: the next pass finds that its place is gone.
LEMMA PlaceHand ==
    ASSUME PlaceInv, NEW way \in {1, -1}, NEW rest \in Rests, Hand(way, rest)
    PROVE  PlaceInv'
<1>1. /\ hole' = ear_mod(hole + way) /\ ahead' = rest /\ delta' = delta + 1
      /\ trusted' = (trusted /\ ~Driven)
      /\ ear_state' = ear_state /\ ear_pos' = ear_pos /\ ear_dirty' = ear_dirty
      /\ ear_gaps' = ear_gaps /\ ear_avg_ms' = ear_avg_ms
      /\ since' = since /\ next' = next /\ jammed' = jammed
  BY DEF Hand, place, rhythm
<1>2. EarTyped /\ EARS_HOLES \in Nat \ {0} /\ GAP \in Nat /\ rest \in 1 .. GAP
  BY EarsAssumption DEF PlaceInv, PlaceTyped
<1>3. hole' \in EarHoles
  <2>1. \A v \in Int : v % EARS_HOLES \in 0 .. EARS_HOLES - 1
    BY <1>2
  <2>2. hole + way \in Int
    BY <1>2 DEF EarTyped, EarHoles
  <2>. QED  BY <1>1, <2>1, <2>2, Zenon DEF ear_mod, EarHoles
<1>4. EarTyped'
  BY <1>1, <1>2, <1>3 DEF EarTyped
<1>5. PlaceTyped'
  BY <1>1, <1>4 DEF PlaceInv, PlaceTyped, Lost
<1>6. delta' # 0
  BY <1>1, <1>2 DEF EarTyped
<1>. QED  BY <1>1, <1>5, <1>6 DEF PlaceInv, Timing, KnowsItsPlace, Driven

\* What jams the ear, and a step that is none of its own, leave it where it is.
LEMMA PlaceJam ==
    ASSUME PlaceInv, Jam \/ UNCHANGED ear_vars
    PROVE  PlaceInv'
<1>1. /\ hole' = hole /\ ahead' = ahead /\ delta' = delta /\ trusted' = trusted
      /\ ear_state' = ear_state /\ ear_pos' = ear_pos /\ ear_dirty' = ear_dirty
      /\ ear_gaps' = ear_gaps /\ ear_avg_ms' = ear_avg_ms
      /\ since' = since /\ next' = next /\ (jammed' = TRUE \/ jammed' = jammed)
  BY DEF Jam, ear_vars, place, rhythm, ear
<1>2. PlaceTyped'
  BY <1>1 DEF PlaceInv, PlaceTyped, EarTyped, EarHoles, Lost
<1>3. Timing'
  BY <1>1 DEF PlaceInv, Timing, Lag, Width, Paced
<1>4. KnowsItsPlace'
  BY <1>1 DEF PlaceInv, KnowsItsPlace, Driven
<1>. QED  BY <1>2, <1>3, <1>4 DEF PlaceInv

\* An ear nobody has calibrated knows nothing.
LEMMA PlaceStarts == EarInit => PlaceInv
<1>. SUFFICES ASSUME EarInit PROVE PlaceInv
  OBVIOUS
<1>1. EarTyped
  BY EarStarts DEF EarInv
<1>2. None \in Int /\ EARS_TICK_MS \in Nat
  BY EarsAssumption DEF None
<1>3. PlaceTyped
  <2>1. next = EARS_TICK_MS /\ ear_pos = None /\ ear_dirty = FALSE /\ trusted = FALSE
        /\ ear_gaps = 0 /\ ear_avg_ms = None /\ ear_state = "IDLE"
    BY DEF EarInit
  <2>2. next <= EARS_TICK_MS
    BY <1>2, <2>1
  <2>. QED  BY <1>1, <1>2, <2>1, <2>2 DEF PlaceTyped
<1>4. Timing /\ KnowsItsPlace
  BY DEF EarInit, Timing, KnowsItsPlace
<1>. QED  BY <1>3, <1>4 DEF PlaceInv

\* Every step keeps an ear that knows its place in it.
LEMMA PlaceKeeps == ASSUME GapsTell PROVE PlaceInv /\ [EarNext]_ear_vars => PlaceInv'
<1>. SUFFICES ASSUME PlaceInv, [EarNext]_ear_vars PROVE PlaceInv'
  OBVIOUS
<1>1. ASSUME Pass(0) PROVE PlaceInv'
  BY <1>1, PlacePass
<1>2. ASSUME Late PROVE PlaceInv'
  <2>1. PICK late \in Delays : Pass(late)
    BY <1>2 DEF Late
  <2>2. late \in Nat
    BY EarsAssumption
  <2>. QED  BY <2>1, <2>2, PlacePass
<1>. QED  BY <1>1, <1>2, PlaceGoto, PlaceHand, PlaceJam DEF EarNext

\* An ear that believes to know where it is is there (ears.mtl): a calibration that kept
\* the rules takes no hole for its zero but the one behind the wide gap, whatever the
\* average made of half a gap at its start and of passes that see holes late; from then
\* on what it counts is what it went by, through commands, late passes and touches.
THEOREM KnowsItsPlaceHolds == ASSUME GapsTell PROVE EarSpec => []KnowsItsPlace
<1>1. EarInit => PlaceInv
  BY PlaceStarts
<1>2. PlaceInv /\ [EarNext]_ear_vars => PlaceInv'
  BY PlaceKeeps
<1>3. PlaceInv => KnowsItsPlace
  BY DEF PlaceInv
<1>. QED  BY <1>1, <1>2, <1>3, PTL DEF EarSpec
================================================================================
