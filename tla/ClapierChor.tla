------------------------------ MODULE ClapierChor ------------------------------
(***************************************************************************)
(* encode_cdl (crates/clapier-chor): a choreography in the text of the     *)
(* Violet API, to the bytes the rabbit's player reads.                     *)
(*                                                                         *)
(* A text is the sequence of its tokens: numbers, the three words that     *)
(* name an action, and anything else. Why a text is rejected is left out.  *)
(***************************************************************************)
EXTENDS Naturals, Sequences, FiniteSets, SequencesExt

CONSTANTS Led, Motor, Palette,   \* the words of the text
          Rejected               \* what encode_cdl makes of a bad text

ASSUME WordsAssumption == Led # Motor /\ Led # Palette /\ Motor # Palette

CMD_TEMPO == 1
CMD_LED == 7
CMD_MOTOR == 8
CMD_PALETTE == 14
PALETTE_0 == 240
TEETH == 20

Words == {Led, Motor, Palette}

--------------------------------------------------------------------------------
(* The text.                                                               *)

\* The arguments of an action and their bounds; a motor's delay is any number.
Unbounded == 0
Bounds(word) == CASE word = Led -> <<4, 255, 255, 255>>
                  [] word = Motor -> <<1, 360, Unbounded, 1>>
                  [] word = Palette -> <<4, 7>>

\* An action is a frame, a word and its arguments: it starts at token i.
WellFormed(text, i) ==
    /\ i + 1 <= Len(text) /\ text[i] \in Nat /\ text[i + 1] \in Words
    /\ LET max == Bounds(text[i + 1])
       IN /\ i + 1 + Len(max) <= Len(text)
          /\ \A k \in DOMAIN max : /\ text[i + 1 + k] \in Nat
                                   /\ max[k] = Unbounded \/ text[i + 1 + k] <= max[k]

ActionAt(text, i) ==
    [frame |-> text[i], word |-> text[i + 1],
     args |-> SubSeq(text, i + 2, i + 1 + Len(Bounds(text[i + 1])))]

\* The actions of a text, in its order, or Rejected.
Actions(text) ==
    LET from[i \in 2 .. Len(text) + 1] ==
            IF i > Len(text) THEN <<>>
            ELSE IF ~WellFormed(text, i) THEN Rejected
            ELSE LET action == ActionAt(text, i)
                     rest == from[i + 2 + Len(action.args)]
                 IN IF rest = Rejected THEN Rejected ELSE <<action>> \o rest
    IN IF text = <<>> THEN Rejected ELSE from[2]

--------------------------------------------------------------------------------
(* Time.                                                                   *)

Round(n, d) == (2 * n + d) \div (2 * d)

\* The duration of a frame in hundredths of a second: the unit of the delays.
frame_dur_10ms(fps) == Round(100, fps)

\* A frame's moment in that unit.
frames_in_10ms_unit(frame, fps, dur) == Round(100 * frame, fps * dur)

--------------------------------------------------------------------------------
(* The bytes.                                                              *)

Bytes(action) ==
    LET a == action.args
    IN CASE action.word = Led -> <<CMD_LED>> \o a \o <<0, 0>>
         [] action.word = Motor -> <<CMD_MOTOR, a[1], (a[2] * TEETH) \div 360, a[4]>>
         [] action.word = Palette -> <<CMD_PALETTE, a[1], PALETTE_0 + a[2]>>

BigEndian(n) == <<n \div 256 ^ 3, (n \div 256 ^ 2) % 256, (n \div 256) % 256, n % 256>>

\* A set of numbers in its order.
Ascending(S) == CHOOSE s \in [1 .. Cardinality(S) -> S] :
                    \A j, k \in 1 .. Cardinality(S) : j < k => s[j] < s[k]

\* The frames in their order, each once.
Ticks(actions) == Ascending({actions[i].frame : i \in DOMAIN actions})

\* The delay before the k-th of them, since the one before it.
Delay(ticks, k, fps, dur) ==
    LET At(j) == IF j = 0 THEN 0 ELSE frames_in_10ms_unit(ticks[j], fps, dur)
    IN At(k) - At(k - 1)

\* The actions of one frame, in the order of the text: the first one waits.
Chunk(actions, tick, dt) ==
    LET shared == Ascending({i \in DOMAIN actions : actions[i].frame = tick})
    IN FlattenSeq([j \in DOMAIN shared |->
                      <<IF j = 1 THEN dt ELSE 0>> \o Bytes(actions[shared[j]])])

Scorable(text) ==
    LET actions == Actions(text)
    IN /\ text # <<>> /\ text[1] \in 1 .. 100
       /\ actions # Rejected /\ actions # <<>>

\* Mutant: a gap that does not fit is cut to its low byte, as Violet did.
encode_cdlWrap(text) ==
    LET actions == Actions(text)
        ticks == Ticks(actions)
        dur == frame_dur_10ms(text[1])
        dt(k) == Delay(ticks, k, text[1], dur) % 256
        body == <<0, CMD_TEMPO, dur>>
                \o FlattenSeq([k \in DOMAIN ticks |-> Chunk(actions, ticks[k], dt(k))])
                \o <<0, 0, 0, 0>>
    IN IF Scorable(text) THEN BigEndian(Len(body) - 4) \o body ELSE Rejected

\* The file: its size, a byte the player skips, the tempo, the actions each with
\* its delay before it, and four zeros that stop the player.
encode_cdl(text) ==
    LET actions == Actions(text)
        ticks == Ticks(actions)
        dur == frame_dur_10ms(text[1])
        dt(k) == Delay(ticks, k, text[1], dur)
        body == <<0, CMD_TEMPO, dur>>
                \o FlattenSeq([k \in DOMAIN ticks |-> Chunk(actions, ticks[k], dt(k))])
                \o <<0, 0, 0, 0>>
    IN IF Scorable(text) /\ \A k \in DOMAIN ticks : dt(k) <= 255
       THEN BigEndian(Len(body) - 4) \o body ELSE Rejected
================================================================================
