--------------------------- MODULE GarenneAudioProofs --------------------------
(***************************************************************************)
(* Proofs about the player and the stream behind it, for every mark,       *)
(* window and length of a song. The handlers are functions of the machine, *)
(* so the lemmas go from the operators up: what each may change of a       *)
(* machine (Calm, Quiet, TookOne, Ended), and what that keeps.             *)
(***************************************************************************)
EXTENDS GarenneAudio, SequenceTheorems, TLAPS

--------------------------------------------------------------------------------
(* The invariant.                                                          *)

TcpStates == {"unused", "ARP_WAIT", "SYN_SENT", "ESTAB", "CLOSE_WAIT", "LAST_ACK",
              "FIN_WAIT_1", "FIN_WAIT_2", "CLOSED"}
Segments == {None, SYN, Request, FIN}
Conn == [state : TcpStates, unacked : Segments, retries : Nat, rcv : Nat, rwnd : Nat,
         push : BOOLEAN, close_after : BOOLEAN]
Ack == [ack : Nat, wnd : Nat]
Player == [state : {"AUD_IDLE", "AUD_BUFFER", "AUD_PLAY"}, queue : Seq(Plays \X Nat),
           eof : BOOLEAN, conn : Plays \cup {NoPlay}]
ServerSide == [heard : Segments, status : Statuses, sent : Nat, una : Nat, wnd : Nat]
Machines == [conns : [Plays -> Conn], said : [Plays -> SUBSET Segments],
             acks : [Plays -> SUBSET Ack], aud : Player, srv : [Plays -> ServerSide],
             broken : BOOLEAN]

Alive(c) == c.state \notin {"unused", "CLOSED"}

\* How far a connection is that nobody asked to close: the response is still to
\* come, or all of it came.
Early(c) == c.state \in {"ARP_WAIT", "SYN_SENT", "ESTAB"} /\ ~c.close_after
Finned(c) == c.state \in {"CLOSE_WAIT", "LAST_ACK"}

\* What was never played has left no trace.
Fresh(m, p) ==
    \A s \in Plays : /\ s > p <=> m.conns[s].state = "unused"
                     /\ s > p => m.srv[s] = NewServer /\ m.acks[s] = {}

\* StreamBehindPlayer and ShutWindowReopens, with what makes them inductive: the
\* player's connection is the last one that was opened, and a prebuffer that is
\* not full shuts no window.
Behind(m, p) ==
    /\ m.aud.conn # NoPlay => /\ m.aud.conn = p /\ Alive(m.conns[p])
                              /\ m.aud.state # "AUD_IDLE" /\ ~m.aud.eof
    /\ m.aud.state # "AUD_IDLE" /\ ~m.aud.eof => m.aud.conn # NoPlay
    /\ m.aud.state = "AUD_BUFFER" => ~m.aud.eof /\ Len(m.aud.queue) < AUDIO_PREBUFFER
    /\ m.aud.conn # NoPlay /\ m.conns[p].rwnd = 0 =>
          m.aud.state = "AUD_PLAY" /\ Len(m.aud.queue) >= AUDIO_BUF_LOW

BodyOf(m, s) == IF m.srv[s].status = 200 THEN BodyLen[s] ELSE PageLen

\* The ends of the windows the server may still fill, and of what it has filled.
Edges(m, s) == {m.srv[s].sent, m.srv[s].una + m.srv[s].wnd} \cup {a.ack + a.wnd : a \in m.acks[s]}

\* The account of the player's connection, when n units were heard of its song:
\* every unit that came was heard; and no window reaches further than the
\* queue, as long as it was when the window shut, leaves room for.
Account(m, p, n) ==
    LET c == m.conns[p]
        queued == Len(m.aud.queue)
    IN /\ Early(c) \/ Finned(c)
       /\ c.rcv <= m.srv[p].sent /\ m.srv[p].sent <= BodyOf(m, p) + 2
       /\ Early(c) => c.rcv <= BodyOf(m, p) + 1 /\ n = IF c.rcv = 0 THEN 0 ELSE c.rcv - 1
       /\ Finned(c) => c.rcv = BodyOf(m, p) + 2 /\ n = BodyOf(m, p)
       /\ c.rwnd \in {0, AUDIO_WND}
       /\ c.rwnd # 0 => queued <= AUDIO_BUF_HIGH
       /\ \A e \in Edges(m, p) :
             /\ e <= c.rcv + AUDIO_WND
             /\ c.rwnd = 0 => e + queued <= c.rcv + AUDIO_BUF_HIGH + 1 + AUDIO_WND

\* As long as no play crossed another: the one stream there is, of the play p,
\* when the codec has taken h of its song.
Single(m, p, h) ==
    LET heard == h \o m.aud.queue
    IN /\ \A s \in Plays : Alive(m.conns[s]) => s = p
       /\ m.aud.state # "AUD_IDLE" /\ m.aud.conn = NoPlay => \A s \in Plays : ~Alive(m.conns[s])
       /\ \A i \in 1 .. Len(heard) : heard[i] = <<p, i>>
       /\ Len(m.aud.queue) <= AUDIO_MAX_BUF
       /\ ~m.broken /\ m.aud.state # "AUD_IDLE" /\ m.aud.eof => Len(heard) = BodyOf(m, p)
       /\ m.aud.conn # NoPlay => Account(m, p, Len(heard))

Typed ==
    /\ Machine \in Machines
    /\ plays \in Plays \cup {NoPlay} /\ fed \in Seq(Plays \X Nat)

IInv ==
    /\ Typed /\ Fresh(Machine, plays) /\ Behind(Machine, plays)
    /\ ~crossed => Single(Machine, plays, fed)

--------------------------------------------------------------------------------
(* Numbers, and machines.                                                  *)

LEMMA Marks ==
    /\ AUDIO_PREBUFFER \in Nat /\ AUDIO_MAX_BUF \in Nat /\ AUDIO_WND \in Nat
    /\ AUDIO_BUF_HIGH \in Nat /\ AUDIO_BUF_LOW \in Nat /\ TCP_WINDOW \in Nat /\ MaxRetries \in Nat
    /\ AUDIO_PREBUFFER > 0 /\ AUDIO_WND > 0 /\ AUDIO_BUF_LOW > 0 /\ TCP_WINDOW > 0
    /\ AUDIO_PREBUFFER <= AUDIO_BUF_HIGH /\ AUDIO_BUF_LOW <= AUDIO_BUF_HIGH
    /\ AUDIO_BUF_HIGH + 1 + AUDIO_WND <= AUDIO_MAX_BUF
    /\ Plays \subseteq Nat \ {0} /\ NoPlay \notin Plays /\ NoPlay = 0
    /\ \A s \in Plays : BodyLen[s] \in Nat
    /\ PageLen \in Nat
<1>1. Plays = 1 .. Len(BodyLen) /\ \A s \in Plays : BodyLen[s] \in Nat
  BY AudioAssumption DEF Plays
<1>. QED  BY <1>1, AudioAssumption DEF NoPlay

LEMMA Parts ==
    ASSUME NEW m \in Machines, NEW s \in Plays
    PROVE  /\ m.conns \in [Plays -> Conn] /\ m.conns[s] \in Conn
           /\ m.said[s] \in SUBSET Segments /\ m.acks[s] \in SUBSET Ack
           /\ m.aud \in Player /\ m.srv[s] \in ServerSide /\ m.broken \in BOOLEAN
           /\ BodyOf(m, s) \in Nat
<1>1. /\ m.conns \in [Plays -> Conn] /\ m.conns[s] \in Conn
      /\ m.said[s] \in SUBSET Segments /\ m.acks[s] \in SUBSET Ack
      /\ m.aud \in Player /\ m.srv[s] \in ServerSide /\ m.broken \in BOOLEAN
  BY DEF Machines
<1>2. BodyOf(m, s) \in Nat
  BY Marks DEF BodyOf
<1>. QED  BY <1>1, <1>2

--------------------------------------------------------------------------------
(* What tells the stream nothing: acknowledgements, the rabbit's own       *)
(* segments, and the states they lead to.                                  *)

\* A machine whose connections all live on as they are, and whose player is left
\* alone: what Fresh and Behind look at.
Calm(m, n) ==
    /\ n \in Machines
    /\ n.aud = m.aud /\ n.srv = m.srv /\ n.broken = m.broken
    /\ \A s \in Plays :
          /\ n.conns[s].rwnd = m.conns[s].rwnd
          /\ Alive(n.conns[s]) <=> Alive(m.conns[s])
          /\ n.conns[s].state = "unused" <=> m.conns[s].state = "unused"
          /\ ~Alive(m.conns[s]) => n.acks[s] = m.acks[s]

\* And nothing of the response was taken, nor the connection left.
Silently(m, n, s) ==
    /\ n.conns[s].rcv = m.conns[s].rcv
    /\ Early(m.conns[s]) => Early(n.conns[s])
    /\ Finned(m.conns[s]) => Finned(n.conns[s])
    /\ \A a \in n.acks[s] :
          a \in m.acks[s] \/ (a.ack = m.conns[s].rcv /\ a.wnd = m.conns[s].rwnd)

Quiet(m, n) == Calm(m, n) /\ \A s \in Plays : Silently(m, n, s)

\* Only the connection s is touched.
OnlyAt(m, n, s) == /\ n.conns = [m.conns EXCEPT ![s] = n.conns[s]]
                   /\ \A t \in Plays \ {s} : n.said[t] = m.said[t] /\ n.acks[t] = m.acks[t]

LEMMA CalmRefl == ASSUME NEW m \in Machines PROVE Calm(m, m)
BY DEF Calm

LEMMA CalmTrans ==
    ASSUME NEW m, NEW n, NEW k, Calm(m, n), Calm(n, k)
    PROVE  Calm(m, k)
BY DEF Calm

LEMMA QuietRefl == ASSUME NEW m \in Machines PROVE Quiet(m, m)
BY CalmRefl DEF Quiet, Silently

LEMMA QuietTrans ==
    ASSUME NEW m, NEW n, NEW k, Quiet(m, n), Quiet(n, k)
    PROVE  Quiet(m, k)
<1>1. Calm(m, k)
  BY CalmTrans DEF Quiet
<1>2. ASSUME NEW s \in Plays
      PROVE  Silently(m, k, s)
  <2>1. Silently(m, n, s) /\ Silently(n, k, s) /\ n.conns[s].rwnd = m.conns[s].rwnd
    BY DEF Quiet, Calm
  <2>. QED  BY <2>1 DEF Silently
<1>. QED  BY <1>1, <1>2 DEF Quiet

\* One connection moved on; the rest of the machine is as it was.
LEMMA CalmOne ==
    ASSUME NEW m \in Machines, NEW n \in Machines, NEW s \in Plays,
           n.aud = m.aud, n.srv = m.srv, n.broken = m.broken, OnlyAt(m, n, s),
           Alive(m.conns[s]), Alive(n.conns[s]), n.conns[s].rwnd = m.conns[s].rwnd
    PROVE  Calm(m, n)
<1>1. \A t \in Plays \ {s} : n.conns[t] = m.conns[t]
  BY Parts DEF OnlyAt, Machines
<1>. QED  BY <1>1 DEF Calm, OnlyAt, Alive

LEMMA QuietOne ==
    ASSUME NEW m \in Machines, NEW n \in Machines, NEW s \in Plays,
           n.aud = m.aud, n.srv = m.srv, n.broken = m.broken, OnlyAt(m, n, s),
           Alive(m.conns[s]), Alive(n.conns[s]), n.conns[s].rwnd = m.conns[s].rwnd,
           Silently(m, n, s)
    PROVE  Quiet(m, n)
<1>1. \A t \in Plays \ {s} : n.conns[t] = m.conns[t]
  BY Parts DEF OnlyAt, Machines
<1>2. Calm(m, n)
  BY CalmOne
<1>. QED  BY <1>1, <1>2 DEF Quiet, Silently, OnlyAt

LEMMA OnlyAtTrans ==
    ASSUME NEW m \in Machines, NEW n, NEW k, NEW s \in Plays, OnlyAt(m, n, s), OnlyAt(n, k, s)
    PROVE  OnlyAt(m, k, s)
BY DEF OnlyAt, Machines

\* One connection's record changed.
LEMMA SetConn ==
    ASSUME NEW m \in Machines, NEW s \in Plays, NEW c \in Conn
    PROVE  LET n == [m EXCEPT !.conns[s] = c]
           IN /\ n \in Machines /\ n.conns[s] = c /\ OnlyAt(m, n, s)
              /\ n.said = m.said /\ n.acks = m.acks /\ n.aud = m.aud /\ n.srv = m.srv
              /\ n.broken = m.broken
BY DEF Machines, OnlyAt

LEMMA SendAckQuiet ==
    ASSUME NEW m \in Machines, NEW s \in Plays, Alive(m.conns[s])
    PROVE  /\ Quiet(m, SendAck(m, s)) /\ OnlyAt(m, SendAck(m, s), s)
           /\ SendAck(m, s).conns = m.conns
<1>. DEFINE new == [ack |-> m.conns[s].rcv, wnd |-> m.conns[s].rwnd]
            told == Telling(srv[s].una, srv[s].wnd, {new})
<1>1. m.conns[s] \in Conn /\ new \in Ack
  BY Parts DEF Conn, Ack
<1>2. told \subseteq {new}
  BY DEF Telling
<1>. HIDE DEF told
<1>. DEFINE n == [m EXCEPT !.acks[s] = @ \cup told]
<1>3. SendAck(m, s) = n
  BY DEF SendAck, told
<1>4. /\ n \in Machines /\ n.conns = m.conns /\ n.aud = m.aud /\ n.srv = m.srv
      /\ n.broken = m.broken /\ n.acks[s] = m.acks[s] \cup told /\ n.said = m.said
      /\ \A t \in Plays \ {s} : n.acks[t] = m.acks[t]
  <2>. HIDE DEF new
  <2>. QED  BY <1>1, <1>2 DEF Machines
<1>. HIDE DEF n
<1>5. Silently(m, n, s)
  BY <1>2, <1>4 DEF Silently
<1>6. OnlyAt(m, n, s)
  BY <1>4 DEF OnlyAt, Machines
<1>7. Quiet(m, n)
  BY <1>4, <1>5, <1>6, QuietOne
<1>. QED  BY <1>3, <1>4, <1>6, <1>7

LEMMA SendRelQuiet ==
    ASSUME NEW m \in Machines, NEW s \in Plays, NEW segment \in Segments, Alive(m.conns[s])
    PROVE  LET n == SendRel(m, s, segment)
           IN /\ Quiet(m, n) /\ OnlyAt(m, n, s)
              /\ n.conns[s].state = m.conns[s].state
              /\ n.conns[s].close_after = m.conns[s].close_after
              /\ segment = SYN => n.acks = m.acks
<1>. DEFINE c == [m.conns[s] EXCEPT !.unacked = segment, !.retries = 0]
            kept == [m EXCEPT !.said[s] = @ \cup {segment}, !.conns[s] = c]
            n == SendRel(m, s, segment)
<1>1. /\ m.conns[s] \in Conn /\ c \in Conn /\ c.state = m.conns[s].state /\ c.rcv = m.conns[s].rcv
      /\ c.rwnd = m.conns[s].rwnd /\ c.close_after = m.conns[s].close_after
  BY Parts DEF Conn
<1>2. n = IF segment = SYN THEN kept ELSE SendAck(kept, s)
  <2>1. kept = [m EXCEPT !.said[s] = @ \cup {segment},
                         !.conns[s].unacked = segment, !.conns[s].retries = 0]
    BY <1>1, Parts DEF Machines
  <2>. HIDE DEF kept
  <2>. QED  BY <2>1 DEF SendRel
<1>. HIDE DEF c
<1>3. /\ kept \in Machines /\ kept.conns[s] = c /\ kept.aud = m.aud /\ kept.srv = m.srv
      /\ kept.broken = m.broken /\ kept.acks = m.acks /\ OnlyAt(m, kept, s)
  BY <1>1, Parts DEF Machines, OnlyAt
<1>. HIDE DEF kept
<1>4. Silently(m, kept, s) /\ Alive(kept.conns[s])
  BY <1>1, <1>3 DEF Silently, Early, Finned, Alive
<1>5. Quiet(m, kept)
  BY <1>1, <1>3, <1>4, QuietOne
<1>6. /\ Quiet(kept, SendAck(kept, s)) /\ OnlyAt(kept, SendAck(kept, s), s)
      /\ SendAck(kept, s).conns[s] = c
  BY <1>3, <1>4, SendAckQuiet
<1>7. CASE segment = SYN
  BY <1>1, <1>2, <1>3, <1>5, <1>7
<1>8. CASE segment # SYN
  BY <1>1, <1>2, <1>3, <1>5, <1>6, <1>8, QuietTrans, OnlyAtTrans
<1>. QED  BY <1>7, <1>8

LEMMA KickQuiet ==
    ASSUME NEW m \in Machines, NEW s \in Plays, Alive(m.conns[s])
    PROVE  /\ Quiet(m, Kick(m, s)) /\ OnlyAt(m, Kick(m, s), s)
           /\ Kick(m, s).conns[s].state \in {m.conns[s].state, "LAST_ACK", "FIN_WAIT_1"}
           /\ Kick(m, s).conns[s].state # "CLOSED"
<1>. DEFINE c == [m.conns[s] EXCEPT !.state = IF @ = "CLOSE_WAIT" THEN "LAST_ACK"
                                              ELSE "FIN_WAIT_1"]
            left == [m EXCEPT !.conns[s] = c]
            goes == /\ m.conns[s].state \in Open /\ m.conns[s].unacked = None
                    /\ m.conns[s].close_after
<1>1. /\ m.conns[s] \in Conn /\ c \in Conn /\ c.rcv = m.conns[s].rcv
      /\ c.rwnd = m.conns[s].rwnd /\ c.close_after = m.conns[s].close_after
      /\ c.state = IF m.conns[s].state = "CLOSE_WAIT" THEN "LAST_ACK" ELSE "FIN_WAIT_1"
  BY Parts DEF Conn, TcpStates
<1>2. Kick(m, s) = IF goes THEN SendRel(left, s, FIN) ELSE m
  <2>1. left = [m EXCEPT !.conns[s].state = IF @ = "CLOSE_WAIT" THEN "LAST_ACK"
                                             ELSE "FIN_WAIT_1"]
    BY <1>1, Parts DEF Machines
  <2>. HIDE DEF left
  <2>. QED  BY <2>1 DEF Kick
<1>. HIDE DEF c
<1>3. /\ left \in Machines /\ left.conns[s] = c /\ OnlyAt(m, left, s) /\ left.aud = m.aud
      /\ left.srv = m.srv /\ left.broken = m.broken /\ left.acks = m.acks
  BY <1>1, SetConn
<1>. HIDE DEF left
<1>4. CASE goes
  <2>1. Silently(m, left, s) /\ Alive(c) /\ c.state # "CLOSED"
    <3>1. ~Early(m.conns[s])
      BY <1>4, Zenon DEF Early
    <3>. Finned(m.conns[s]) => Finned(c)
      BY <1>1, <1>4 DEF Finned, Open
    <3>2. Alive(c) /\ c.state # "CLOSED"
      BY <1>1 DEF Alive
    <3>. QED  BY <1>1, <1>3, <3>1, <3>2 DEF Silently
  <2>2. Quiet(m, left)
    BY <1>1, <1>3, <2>1, QuietOne
  <2>3. /\ Quiet(left, SendRel(left, s, FIN)) /\ OnlyAt(left, SendRel(left, s, FIN), s)
        /\ SendRel(left, s, FIN).conns[s].state = c.state
    BY <1>3, <2>1, SendRelQuiet DEF Segments
  <2>4. Kick(m, s) = SendRel(left, s, FIN) /\ c.state \in {"LAST_ACK", "FIN_WAIT_1"}
    BY <1>1, <1>2, <1>4
  <2>. HIDE DEF goes
  <2>. QED  BY <1>3, <2>1, <2>2, <2>3, <2>4, QuietTrans, OnlyAtTrans
<1>5. CASE ~goes
  BY <1>2, <1>5, QuietRefl DEF OnlyAt, Machines, Alive
<1>. QED  BY <1>4, <1>5

LEMMA CloseCalm ==
    ASSUME NEW m \in Machines, NEW s \in Plays, Alive(m.conns[s])
    PROVE  Calm(m, tcp_close(m, s))
<1>. DEFINE c == [m.conns[s] EXCEPT !.close_after = TRUE]
            asked == [m EXCEPT !.conns[s] = c]
<1>1. /\ m.conns[s] \in Conn /\ c \in Conn /\ c.rcv = m.conns[s].rcv
      /\ c.rwnd = m.conns[s].rwnd /\ c.state = m.conns[s].state
  BY Parts DEF Conn
<1>2. tcp_close(m, s) = IF m.conns[s].state \in Open THEN Kick(asked, s) ELSE m
  <2>1. asked = [m EXCEPT !.conns[s].close_after = TRUE]
    BY <1>1, Parts DEF Machines
  <2>. HIDE DEF asked
  <2>. QED  BY <2>1 DEF tcp_close
<1>. HIDE DEF c
<1>3. /\ asked \in Machines /\ asked.conns[s] = c /\ OnlyAt(m, asked, s) /\ asked.aud = m.aud
      /\ asked.srv = m.srv /\ asked.broken = m.broken /\ asked.acks = m.acks
  BY <1>1, SetConn
<1>. HIDE DEF asked
<1>4. Calm(m, asked) /\ Alive(asked.conns[s])
  BY <1>1, <1>3, CalmOne DEF Alive
<1>5. Calm(asked, Kick(asked, s))
  BY <1>3, <1>4, KickQuiet DEF Quiet
<1>. QED  BY <1>2, <1>4, <1>5, CalmTrans, CalmRefl

LEMMA TryArpQuiet ==
    ASSUME NEW m \in Machines, NEW s \in Plays, NEW known \in BOOLEAN,
           m.conns[s].state = "ARP_WAIT"
    PROVE  /\ Quiet(m, TryArp(m, s, known)) /\ OnlyAt(m, TryArp(m, s, known), s)
           /\ TryArp(m, s, known).conns[s].state # "CLOSED"
           /\ TryArp(m, s, known).acks = m.acks
<1>. DEFINE c == [m.conns[s] EXCEPT !.state = "SYN_SENT"]
            asked == [m EXCEPT !.conns[s] = c]
<1>1. /\ m.conns[s] \in Conn /\ c \in Conn /\ c.rcv = m.conns[s].rcv
      /\ c.rwnd = m.conns[s].rwnd /\ c.state = "SYN_SENT"
      /\ c.close_after = m.conns[s].close_after
  BY Parts DEF Conn, TcpStates
<1>2. TryArp(m, s, known) = IF known THEN SendRel(asked, s, SYN) ELSE m
  <2>1. asked = [m EXCEPT !.conns[s].state = "SYN_SENT"]
    BY <1>1, Parts DEF Machines
  <2>. HIDE DEF asked
  <2>. QED  BY <2>1 DEF TryArp
<1>. HIDE DEF c
<1>3. /\ asked \in Machines /\ asked.conns[s] = c /\ OnlyAt(m, asked, s) /\ asked.aud = m.aud
      /\ asked.srv = m.srv /\ asked.broken = m.broken /\ asked.acks = m.acks
  BY <1>1, SetConn
<1>. HIDE DEF asked
<1>4. Silently(m, asked, s) /\ Alive(m.conns[s]) /\ Alive(c)
  BY <1>1, <1>3 DEF Silently, Early, Finned, Alive
<1>5. Quiet(m, asked)
  BY <1>1, <1>3, <1>4, QuietOne
<1>6. /\ Quiet(asked, SendRel(asked, s, SYN)) /\ OnlyAt(asked, SendRel(asked, s, SYN), s)
      /\ SendRel(asked, s, SYN).conns[s].state = c.state
      /\ SendRel(asked, s, SYN).acks = asked.acks
  BY <1>3, <1>4, SendRelQuiet DEF Segments
<1>7. Quiet(m, m) /\ OnlyAt(m, m, s)
  BY QuietRefl DEF OnlyAt, Machines
<1>. QED  BY <1>1, <1>2, <1>3, <1>5, <1>6, <1>7, QuietTrans, OnlyAtTrans

--------------------------------------------------------------------------------
(* The end of a stream.                                                    *)

\* The connections E are gone, and the player knows. What the others say to the
\* server meanwhile is Quiet.
Ended(m, n, E) ==
    /\ n \in Machines
    /\ n.aud.queue = m.aud.queue /\ n.aud.eof /\ n.aud.conn = NoPlay
    /\ n.aud.state # "AUD_BUFFER" /\ (m.aud.state = "AUD_IDLE" => n.aud.state = "AUD_IDLE")
    /\ E # {} /\ E \subseteq Plays
    /\ \A s \in E : Alive(m.conns[s]) /\ ~Alive(n.conns[s])
    /\ \A s \in Plays :
          /\ n.conns[s].state = "unused" <=> m.conns[s].state = "unused"
          /\ s \notin E => (Alive(n.conns[s]) <=> Alive(m.conns[s]))
          /\ ~Alive(m.conns[s]) => n.acks[s] = m.acks[s] /\ n.srv[s] = m.srv[s]
          /\ n.srv[s].status = m.srv[s].status

LEMMA QuietThenEnded ==
    ASSUME NEW m, NEW n, NEW k, NEW E, Quiet(m, n), Ended(n, k, E)
    PROVE  Ended(m, k, E)
BY DEF Quiet, Calm, Ended

LEMMA NewConnTyped ==
    ASSUME NEW state \in TcpStates
    PROVE  /\ NewConn(state) \in Conn /\ NewConn(state).state = state
           /\ NewConn(state).rcv = 0 /\ NewConn(state).rwnd = TCP_WINDOW
           /\ NewConn(state).close_after = FALSE
BY Marks DEF NewConn, Conn, Segments

\* aud_done, of a machine whose connection s was just forgotten.
LEMMA DoneEnds ==
    ASSUME NEW m \in Machines, m.srv = srv, NEW s \in Plays, Alive(m.conns[s]), NEW status
    PROVE  LET n == aud_done(Forget(m, s), status)
           IN Ended(m, n, {s}) /\ n.broken = m.broken /\ n.conns[s].state = "CLOSED"
<1>. DEFINE c == NewConn("CLOSED")
            v == [NewServer EXCEPT !.status = srv[s].status]
            f == Forget(m, s)
            a == [f.aud EXCEPT !.eof = TRUE, !.conn = NoPlay,
                               !.state = IF @ # "AUD_BUFFER" THEN @
                                         ELSE IF Bytes(f) > 0 /\ status = 200 THEN "AUD_PLAY"
                                         ELSE "AUD_IDLE"]
            n == aud_done(f, status)
<1>1. c \in Conn /\ c.state = "CLOSED"
  BY NewConnTyped DEF TcpStates
<1>2. v \in ServerSide /\ v.status = m.srv[s].status
  <2>1. NewServer \in ServerSide /\ srv[s].status \in Statuses
    BY Parts DEF NewServer, ServerSide, Segments, Statuses
  <2>. QED  BY <2>1 DEF ServerSide
<1>. HIDE DEF c, v
<1>3. /\ f \in Machines /\ f.conns[s] = c /\ f.acks[s] = {} /\ f.srv[s] = v /\ f.aud = m.aud
      /\ f.broken = m.broken
      /\ \A t \in Plays \ {s} : /\ f.conns[t] = m.conns[t] /\ f.acks[t] = m.acks[t]
                                /\ f.srv[t] = m.srv[t]
  <2>1. f = [m EXCEPT !.conns[s] = c, !.said[s] = {}, !.acks[s] = {}, !.srv[s] = v]
    BY DEF Forget, c, v
  <2>. HIDE DEF f
  <2>. QED  BY <1>1, <1>2, <2>1 DEF Machines
<1>. HIDE DEF f
<1>4. /\ a \in Player /\ a.queue = m.aud.queue /\ a.eof = TRUE /\ a.conn = NoPlay
      /\ a.state # "AUD_BUFFER" /\ (m.aud.state = "AUD_IDLE" => a.state = "AUD_IDLE")
  <2>1. f.aud \in Player
    BY <1>3, Parts
  <2>. QED  BY <1>3, <2>1 DEF Player
<1>5. n = [f EXCEPT !.aud = a]
  BY <1>3 DEF aud_done, Machines
<1>. HIDE DEF a
<1>6. /\ n \in Machines /\ n.aud = a /\ n.conns = f.conns /\ n.acks = f.acks /\ n.srv = f.srv
      /\ n.broken = f.broken
  BY <1>3, <1>4, <1>5 DEF Machines
<1>. HIDE DEF n
<1>7. ~Alive(c) /\ c.state # "unused" /\ m.conns[s].state # "unused"
  BY <1>1 DEF Alive
<1>8. Ended(m, n, {s})
  BY <1>2, <1>3, <1>4, <1>6, <1>7 DEF Ended
<1>9. n.broken = m.broken /\ n.conns[s].state = "CLOSED"
  BY <1>1, <1>3, <1>6
<1>. QED  BY <1>8, <1>9 DEF n, f

LEMMA CloseEnds ==
    ASSUME NEW m \in Machines, m.srv = srv, NEW s \in Plays, Alive(m.conns[s])
    PROVE  /\ Ended(m, Close(m, s), {s}) /\ Close(m, s).broken = m.broken
           /\ Close(m, s).conns[s].state = "CLOSED"
BY DoneEnds DEF Close

LEMMA FailEnds ==
    ASSUME NEW m \in Machines, m.srv = srv, NEW s \in Plays, Alive(m.conns[s])
    PROVE  /\ Ended(m, Fail(m, s), {s}) /\ Fail(m, s).conns[s].state = "CLOSED"
           /\ s = plays => Fail(m, s).broken
<1>. DEFINE d == aud_done(Forget(m, s), -1)
            n == Fail(m, s)
<1>1. Ended(m, d, {s}) /\ d.conns[s].state = "CLOSED" /\ d \in Machines
  BY DoneEnds DEF Ended
<1>2. n = [d EXCEPT !.broken = @ \/ s = plays]
  BY DEF Fail
<1>. HIDE DEF d, n
<1>3. /\ n \in Machines /\ n.aud = d.aud /\ n.conns = d.conns /\ n.acks = d.acks /\ n.srv = d.srv
      /\ s = plays => n.broken
  BY <1>1, <1>2 DEF Machines
<1>4. Ended(m, n, {s}) /\ n.conns[s].state = "CLOSED" /\ (s = plays => n.broken)
  BY <1>1, <1>3 DEF Ended
<1>. QED  BY <1>4 DEF n

LEMMA AckInOutcome ==
    ASSUME NEW m \in Machines, m.srv = srv, NEW s \in Plays, Alive(m.conns[s]), NEW level
    PROVE  LET n == AckIn(m, s, level)
           IN \/ /\ Quiet(m, n) /\ n.conns[s].state # "CLOSED"
                 /\ n.conns[s].state \in {m.conns[s].state, "LAST_ACK", "FIN_WAIT_1", "FIN_WAIT_2"}
              \/ /\ m.conns[s].state = "LAST_ACK" /\ n.conns[s].state = "CLOSED"
                 /\ Ended(m, n, {s}) /\ n.broken = m.broken
<1>. DEFINE c == [m.conns[s] EXCEPT !.unacked = None]
            acked == [m EXCEPT !.conns[s] = c]
            d == [c EXCEPT !.state = "FIN_WAIT_2"]
            n == AckIn(m, s, level)
<1>1. /\ m.conns[s] \in Conn /\ c \in Conn /\ c.rcv = m.conns[s].rcv
      /\ c.rwnd = m.conns[s].rwnd /\ c.close_after = m.conns[s].close_after
      /\ c.state = m.conns[s].state
      /\ d \in Conn /\ d.rcv = c.rcv /\ d.rwnd = c.rwnd /\ d.state = "FIN_WAIT_2"
  BY Parts DEF Conn, Segments, TcpStates
<1>2. acked = [m EXCEPT !.conns[s].unacked = None]
  BY <1>1, Parts DEF Machines
<1>. HIDE DEF c
<1>3. /\ acked \in Machines /\ acked.conns[s] = c /\ OnlyAt(m, acked, s) /\ acked.aud = m.aud
      /\ acked.srv = m.srv /\ acked.broken = m.broken /\ acked.acks = m.acks
  BY <1>1, SetConn
<1>. HIDE DEF acked
<1>4. Quiet(m, acked) /\ Alive(acked.conns[s])
  <2>1. Silently(m, acked, s) /\ Alive(c)
    BY <1>1, <1>3 DEF Silently, Early, Finned, Alive
  <2>. QED  BY <1>1, <1>3, <2>1, QuietOne
<1>5. Quiet(m, m) /\ m.conns[s].state # "CLOSED"
  BY QuietRefl DEF Alive
<1>6. CASE m.conns[s].unacked = None \/ level < m.conns[s].unacked
  BY <1>5, <1>6 DEF AckIn
<1>7. CASE ~(m.conns[s].unacked = None \/ level < m.conns[s].unacked)
  <2>1. CASE m.conns[s].state = "FIN_WAIT_1"
    <3>. DEFINE w == [acked EXCEPT !.conns[s] = d]
    <3>1. n = [acked EXCEPT !.conns[s].state = "FIN_WAIT_2"]
      BY <1>2, <1>7, <2>1 DEF AckIn
    <3>2. n = w
      BY <3>1, <1>3, Parts DEF Machines
    <3>3. /\ w \in Machines /\ w.conns[s] = d /\ OnlyAt(acked, w, s) /\ w.aud = acked.aud
          /\ w.srv = acked.srv /\ w.broken = acked.broken /\ w.acks = acked.acks
      BY <1>1, <1>3, SetConn
    <3>. HIDE DEF w
    <3>4. Silently(acked, w, s) /\ Alive(d) /\ d.state = "FIN_WAIT_2"
      <4>1. ~Early(c) /\ ~Finned(c)
        BY <1>1, <2>1 DEF Early, Finned
      <4>. HIDE DEF d
      <4>. QED  BY <1>1, <1>3, <3>3, <4>1 DEF Silently, Alive
    <3>. HIDE DEF d
    <3>5. Quiet(acked, w)
      BY <1>1, <1>3, <1>4, <3>3, <3>4, QuietOne
    <3>. QED  BY <1>4, <3>2, <3>3, <3>4, <3>5, QuietTrans
  <2>2. CASE m.conns[s].state = "LAST_ACK"
    <3>1. n = Close(acked, s)
      BY <1>2, <1>7, <2>2 DEF AckIn
    <3>2. /\ Ended(acked, Close(acked, s), {s}) /\ Close(acked, s).broken = acked.broken
          /\ Close(acked, s).conns[s].state = "CLOSED"
      BY <1>3, <1>4, CloseEnds
    <3>. QED  BY <1>3, <1>4, <2>2, <3>1, <3>2, QuietThenEnded
  <2>3. CASE m.conns[s].state \notin {"FIN_WAIT_1", "LAST_ACK"}
    <3>1. n = Kick(acked, s)
      BY <1>2, <1>7, <2>3 DEF AckIn
    <3>2. /\ Quiet(acked, Kick(acked, s)) /\ Kick(acked, s).conns[s].state # "CLOSED"
          /\ Kick(acked, s).conns[s].state \in {c.state, "LAST_ACK", "FIN_WAIT_1"}
      BY <1>3, <1>4, KickQuiet
    <3>. QED  BY <1>1, <1>4, <3>1, <3>2, QuietTrans
  <2>. QED  BY <2>1, <2>2, <2>3
<1>. QED  BY <1>6, <1>7

--------------------------------------------------------------------------------
(* What keeps the invariant.                                               *)

\* The player's connection is one that was played.
LEMMA ConnIsPlay ==
    ASSUME NEW m \in Machines, NEW p, Behind(m, p), m.aud.conn # NoPlay
    PROVE  p \in Plays /\ m.aud.conn = p
BY Parts DEF Behind, Player, Machines

LEMMA CalmKeeps ==
    ASSUME NEW m \in Machines, NEW n, NEW p, Calm(m, n)
    PROVE  /\ Fresh(m, p) => Fresh(n, p)
           /\ Behind(m, p) => Behind(n, p)
<1>1. ASSUME Fresh(m, p) PROVE Fresh(n, p)
  BY <1>1 DEF Calm, Fresh, Alive
<1>2. ASSUME Behind(m, p) PROVE Behind(n, p)
  <2>1. CASE m.aud.conn = NoPlay
    BY <1>2, <2>1 DEF Calm, Behind
  <2>2. CASE m.aud.conn # NoPlay
    <3>1. p \in Plays
      BY <1>2, <2>2, ConnIsPlay
    <3>2. n.aud = m.aud /\ n.conns[p].rwnd = m.conns[p].rwnd /\ (Alive(n.conns[p]) <=> Alive(m.conns[p]))
      BY <3>1 DEF Calm
    <3>. QED  BY <1>2, <3>2 DEF Behind
  <2>. QED  BY <2>1, <2>2
<1>. QED  BY <1>1, <1>2

\* An acknowledgement opens no window wider than the rabbit's own.
LEMMA QuietAccount ==
    ASSUME NEW m \in Machines, NEW n \in Machines, NEW p \in Plays, NEW h \in Nat,
           Quiet(m, n), Account(m, p, h)
    PROVE  Account(n, p, h)
<1>. DEFINE c == m.conns[p]
            d == n.conns[p]
            q == Len(m.aud.queue)
<1>1. /\ d.rcv = c.rcv /\ d.rwnd = c.rwnd /\ n.aud = m.aud /\ n.srv = m.srv
      /\ (Early(c) => Early(d)) /\ (Finned(c) => Finned(d))
      /\ Early(c) \/ Finned(c)
  BY DEF Quiet, Calm, Silently, Account
<1>2. BodyOf(n, p) = BodyOf(m, p)
  BY <1>1 DEF BodyOf
<1>3. /\ c \in Conn /\ c.rcv \in Nat /\ c.rwnd \in Nat /\ m.srv[p].sent \in Nat
      /\ q \in Nat /\ BodyOf(m, p) \in Nat
  BY Parts DEF Conn, ServerSide, Player
<1>4. ~(Early(c) /\ Finned(d)) /\ ~(Early(d) /\ Finned(c))
  <2>1. ~(Early(d) /\ Finned(d)) /\ ~(Early(c) /\ Finned(c))
    BY DEF Early, Finned
  <2>. QED  BY <1>1, <2>1
<1>5. ASSUME NEW e \in Edges(n, p)
      PROVE  /\ e <= c.rcv + AUDIO_WND
             /\ c.rwnd = 0 => e + q <= c.rcv + AUDIO_BUF_HIGH + 1 + AUDIO_WND
  <2>1. CASE e \in Edges(m, p)
    BY <2>1 DEF Account
  <2>2. CASE e \notin Edges(m, p)
    <3>1. PICK a \in n.acks[p] : e = a.ack + a.wnd /\ a \notin m.acks[p]
      BY <1>1, <2>2 DEF Edges
    <3>2. e = c.rcv + c.rwnd
      BY <3>1 DEF Quiet, Silently
    <3>3. c.rwnd \in {0, AUDIO_WND} /\ c.rcv <= m.srv[p].sent
      BY DEF Account
    <3>4. c.rwnd = 0 => m.srv[p].sent + q <= c.rcv + AUDIO_BUF_HIGH + 1 + AUDIO_WND
      BY DEF Account, Edges
    <3>. HIDE DEF c, q
    <3>. QED  BY <1>3, <3>2, <3>3, <3>4, Marks
  <2>. QED  BY <2>1, <2>2
<1>6. /\ c.rcv <= m.srv[p].sent /\ m.srv[p].sent <= BodyOf(m, p) + 2
      /\ Early(c) => c.rcv <= BodyOf(m, p) + 1 /\ h = IF c.rcv = 0 THEN 0 ELSE c.rcv - 1
      /\ Finned(c) => c.rcv = BodyOf(m, p) + 2 /\ h = BodyOf(m, p)
      /\ c.rwnd \in {0, AUDIO_WND} /\ (c.rwnd # 0 => q <= AUDIO_BUF_HIGH)
  BY DEF Account
<1>7. /\ Early(d) => Early(c)
      /\ Finned(d) => Finned(c)
  BY <1>1, <1>4
<1>. QED  BY <1>1, <1>2, <1>5, <1>6, <1>7 DEF Account

LEMMA QuietKeeps ==
    ASSUME NEW m \in Machines, NEW n, NEW p, NEW h \in Seq(Plays \X Nat), Quiet(m, n),
           Behind(m, p), Single(m, p, h)
    PROVE  Single(n, p, h)
<1>1. /\ n \in Machines /\ n.aud = m.aud /\ n.srv = m.srv /\ n.broken = m.broken
      /\ \A s \in Plays : Alive(n.conns[s]) <=> Alive(m.conns[s])
      /\ BodyOf(n, p) = BodyOf(m, p)
  BY DEF Quiet, Calm, BodyOf
<1>2. ASSUME m.aud.conn # NoPlay PROVE Account(n, p, Len(h \o m.aud.queue))
  <2>1. p \in Plays
    BY <1>2, ConnIsPlay
  <2>2. Len(h \o m.aud.queue) \in Nat
    <3>1. m.aud.queue \in Seq(Plays \X Nat)
      BY Parts DEF Player, Machines
    <3>. QED  BY <3>1, ConcatProperties, LenProperties
  <2>. QED  BY <1>1, <1>2, <2>1, <2>2, QuietAccount DEF Single
<1>. QED  BY <1>1, <1>2 DEF Single

\* A stream may end when it broke, when all of it was heard, or when nobody listens.
LEMMA EndedKeeps ==
    ASSUME NEW m \in Machines, NEW n, NEW E, NEW p, Ended(m, n, E), Behind(m, p)
    PROVE  /\ Fresh(m, p) => Fresh(n, p)
           /\ Behind(n, p)
           /\ \A h : /\ Single(m, p, h)
                     /\ n.broken \/ Finned(m.conns[p]) \/ m.aud.state = "AUD_IDLE"
                     => Single(n, p, h)
<1>1. ASSUME Fresh(m, p) PROVE Fresh(n, p)
  BY <1>1 DEF Ended, Fresh, Alive
<1>2. Behind(n, p)
  BY DEF Ended, Behind
<1>3. ASSUME NEW h, Single(m, p, h),
             n.broken \/ Finned(m.conns[p]) \/ m.aud.state = "AUD_IDLE"
      PROVE  Single(n, p, h)
  <2>1. PICK s \in E : s \in Plays /\ Alive(m.conns[s])
    BY DEF Ended
  <2>2. s = p /\ \A t \in Plays : ~Alive(n.conns[t])
    BY <1>3, <2>1 DEF Ended, Single
  <2>3. m.aud.state # "AUD_IDLE" => m.aud.conn # NoPlay
    BY <1>3, <2>1 DEF Single
  <2>4. n.aud.queue = m.aud.queue /\ n.aud.conn = NoPlay /\ BodyOf(n, p) = BodyOf(m, p)
    BY <2>1, <2>2 DEF Ended, BodyOf
  <2>5. ASSUME ~n.broken, n.aud.state # "AUD_IDLE"
        PROVE  Len(h \o m.aud.queue) = BodyOf(m, p)
    <3>1. m.aud.state # "AUD_IDLE" /\ m.aud.conn # NoPlay
      BY <2>3, <2>5 DEF Ended
    <3>. QED  BY <1>3, <2>5, <3>1 DEF Single, Account
  <2>. QED  BY <1>3, <2>2, <2>4, <2>5 DEF Single
<1>. QED  BY <1>1, <1>2, <1>3

--------------------------------------------------------------------------------
(* A unit of the song.                                                     *)

LEMMA SetRwnd ==
    ASSUME NEW m \in Machines, NEW s \in Plays, NEW wnd \in Nat
    PROVE  LET n == tcp_set_rwnd(m, s, wnd)
           IN /\ n \in Machines /\ OnlyAt(m, n, s) /\ n.conns[s].rwnd = wnd
              /\ n.conns[s].state = m.conns[s].state /\ n.conns[s].rcv = m.conns[s].rcv
              /\ n.conns[s].close_after = m.conns[s].close_after
              /\ n.acks = m.acks /\ n.aud = m.aud /\ n.srv = m.srv /\ n.broken = m.broken
<1>. DEFINE b == m.conns[s].push \/ (wnd > m.conns[s].rwnd /\ m.conns[s].state \in Open)
            c == [m.conns[s] EXCEPT !.rwnd = wnd, !.push = b]
            n == [m EXCEPT !.conns[s] = c]
<1>1. m.conns[s] \in Conn /\ b \in BOOLEAN
  BY Parts DEF Conn
<1>. HIDE DEF b
<1>2. /\ c \in Conn /\ c.rwnd = wnd /\ c.state = m.conns[s].state /\ c.rcv = m.conns[s].rcv
      /\ c.close_after = m.conns[s].close_after
  BY <1>1 DEF Conn
<1>3. tcp_set_rwnd(m, s, wnd) = n
  <2>1. tcp_set_rwnd(m, s, wnd) = [m EXCEPT !.conns[s].rwnd = wnd, !.conns[s].push = b]
    BY <1>1, Parts DEF tcp_set_rwnd, b, Machines, Conn
  <2>. QED  BY <1>1, <2>1, Parts DEF Machines
<1>. HIDE DEF c
<1>4. /\ n \in Machines /\ n.conns[s] = c /\ OnlyAt(m, n, s) /\ n.acks = m.acks /\ n.aud = m.aud
      /\ n.srv = m.srv /\ n.broken = m.broken
  BY <1>2, SetConn
<1>. HIDE DEF n
<1>. QED  BY <1>2, <1>3, <1>4

\* The player lets its connection go.
LEMMA DropConnLeaves ==
    ASSUME NEW m \in Machines, m.aud.conn # NoPlay => Alive(m.conns[m.aud.conn])
    PROVE  LET n == DropConn(m)
               k == [n EXCEPT !.aud = m.aud]
           IN /\ Calm(m, k) /\ n \in Machines
              /\ n.aud = [m.aud EXCEPT !.conn = NoPlay]
              /\ n.conns = k.conns /\ n.acks = k.acks /\ n.srv = k.srv /\ n.broken = k.broken
<1>1. m.aud \in Player
  BY Parts DEF Machines
<1>2. CASE m.aud.conn = NoPlay
  <2>1. m.aud = [m.aud EXCEPT !.conn = NoPlay]
    BY <1>1, <1>2 DEF Player
  <2>2. DropConn(m) = m /\ [m EXCEPT !.aud = m.aud] = m
    BY <1>2 DEF DropConn, Machines
  <2>. QED  BY <1>2, <2>1, <2>2, CalmRefl
<1>3. CASE m.aud.conn # NoPlay
  <2>. DEFINE j == tcp_close(m, m.aud.conn)
              b == [m.aud EXCEPT !.conn = NoPlay]
              n == DropConn(m)
              k == [n EXCEPT !.aud = m.aud]
  <2>1. m.aud.conn \in Plays /\ b \in Player
    BY <1>1, <1>3 DEF Player
  <2>2. Calm(m, j) /\ j \in Machines /\ j.aud = m.aud
    <3>1. Calm(m, j)
      BY <1>3, <2>1, CloseCalm
    <3>. QED  BY <3>1 DEF Calm
  <2>. HIDE DEF b
  <2>3. n = [j EXCEPT !.aud = b]
    <3>1. n = [j EXCEPT !.aud.conn = NoPlay]
      BY <1>3 DEF DropConn
    <3>. HIDE DEF n, j
    <3>. QED  BY <2>2, <3>1 DEF b, Machines
  <2>. HIDE DEF n, j
  <2>4. /\ n \in Machines /\ n.aud = b /\ n.conns = j.conns /\ n.acks = j.acks /\ n.srv = j.srv
        /\ n.broken = j.broken
    BY <2>1, <2>2, <2>3 DEF Machines
  <2>5. k = j
    BY <2>2, <2>3 DEF Machines
  <2>. QED  BY <2>2, <2>4, <2>5 DEF n, b
<1>. QED  BY <1>2, <1>3

LEMMA ChunkOutcome ==
    ASSUME NEW m \in Machines, NEW p, Behind(m, p), NEW entry \in Plays \X Nat
    PROVE  LET n == aud_chunk(m, entry)
               q == Len(m.aud.queue) + 1
           IN /\ n \in Machines /\ n.srv = m.srv /\ n.broken = m.broken /\ Behind(n, p)
              /\ Fresh(m, p) => Fresh(n, p)
              /\ m.aud.state = "AUD_IDLE" => n = m
              /\ m.aud.state # "AUD_IDLE" /\ q <= AUDIO_MAX_BUF =>
                    /\ n.aud.queue = Append(m.aud.queue, entry) /\ n.aud.state # "AUD_IDLE"
                    /\ n.aud.conn = m.aud.conn /\ n.aud.eof = m.aud.eof /\ n.acks = m.acks
                    /\ \A s \in Plays : /\ n.conns[s].rcv = m.conns[s].rcv
                                        /\ n.conns[s].state = m.conns[s].state
                                        /\ n.conns[s].close_after = m.conns[s].close_after
                    /\ m.aud.conn # NoPlay =>
                          n.conns[p].rwnd = IF m.conns[p].rwnd # 0 /\ q > AUDIO_BUF_HIGH THEN 0
                                            ELSE m.conns[p].rwnd
<1>. DEFINE n == aud_chunk(m, entry)
            b == [m.aud EXCEPT !.queue = Append(@, entry)]
            got == [m EXCEPT !.aud = b]
            q == Len(m.aud.queue) + 1
            shuts == m.aud.conn # NoPlay /\ q > AUDIO_BUF_HIGH /\ m.conns[m.aud.conn].rwnd # 0
<1>1. /\ m.aud \in Player /\ b \in Player /\ b.state = m.aud.state /\ b.conn = m.aud.conn
      /\ b.eof = m.aud.eof /\ b.queue = Append(m.aud.queue, entry) /\ Len(b.queue) = q
      /\ Len(m.aud.queue) \in Nat
  <2>1. m.aud \in Player /\ m.aud.queue \in Seq(Plays \X Nat)
    BY Parts DEF Player, Machines
  <2>2. /\ Append(m.aud.queue, entry) \in Seq(Plays \X Nat)
        /\ Len(Append(m.aud.queue, entry)) = q /\ Len(m.aud.queue) \in Nat
    BY <2>1, AppendProperties, LenProperties
  <2>. HIDE DEF q
  <2>. QED  BY <2>1, <2>2 DEF Player
<1>2. got = [m EXCEPT !.aud.queue = Append(@, entry)]
  BY <1>1 DEF Machines
<1>. HIDE DEF b
<1>3. /\ got \in Machines /\ got.aud = b /\ got.conns = m.conns /\ got.acks = m.acks
      /\ got.srv = m.srv /\ got.broken = m.broken
  BY <1>1 DEF Machines
<1>. HIDE DEF got
<1>4. Bytes(got) = q
  BY <1>1, <1>3 DEF Bytes
<1>5. n = CASE m.aud.state = "AUD_IDLE" -> m
            [] m.aud.state # "AUD_IDLE" /\ q > AUDIO_MAX_BUF -> Cut(got)
            [] m.aud.state # "AUD_IDLE" /\ q <= AUDIO_MAX_BUF /\ shuts ->
                  tcp_set_rwnd(got, m.aud.conn, 0)
            [] m.aud.state = "AUD_BUFFER" /\ q <= AUDIO_MAX_BUF /\ ~shuts
                  /\ q >= AUDIO_PREBUFFER -> [got EXCEPT !.aud.state = "AUD_PLAY"]
            [] OTHER -> got
  BY <1>2, <1>4 DEF aud_chunk
<1>. HIDE DEF n
<1>6. m.aud.conn # NoPlay =>
         /\ p \in Plays /\ m.aud.conn = p /\ Alive(m.conns[p]) /\ m.aud.state # "AUD_IDLE"
         /\ ~m.aud.eof
  BY ConnIsPlay DEF Behind
<1>7. /\ m.aud.state = "AUD_BUFFER" => /\ ~m.aud.eof /\ q <= AUDIO_PREBUFFER
                                       /\ m.aud.conn # NoPlay /\ m.conns[p].rwnd # 0
      /\ m.aud.conn # NoPlay /\ m.conns[p].rwnd = 0 => m.aud.state = "AUD_PLAY" /\ q >= AUDIO_BUF_LOW
      /\ m.aud.state # "AUD_IDLE" /\ ~m.aud.eof => m.aud.conn # NoPlay
      /\ q \in Nat /\ m.aud.state \in {"AUD_IDLE", "AUD_BUFFER", "AUD_PLAY"}
  BY <1>1, Marks DEF Behind, Player
<1>. HIDE DEF q
<1>8. Fresh(m, p) => Fresh(got, p)
  BY <1>3 DEF Fresh
<1>. DEFINE Fine == /\ n \in Machines /\ n.srv = m.srv /\ n.broken = m.broken /\ Behind(n, p)
                    /\ Fresh(m, p) => Fresh(n, p)
            Grown == /\ n.aud.queue = Append(m.aud.queue, entry) /\ n.aud.state # "AUD_IDLE"
                     /\ n.aud.conn = m.aud.conn /\ n.aud.eof = m.aud.eof /\ n.acks = m.acks
                     /\ \A s \in Plays : /\ n.conns[s].rcv = m.conns[s].rcv
                                         /\ n.conns[s].state = m.conns[s].state
                                         /\ n.conns[s].close_after = m.conns[s].close_after
                     /\ m.aud.conn # NoPlay =>
                           n.conns[p].rwnd = IF m.conns[p].rwnd # 0 /\ q > AUDIO_BUF_HIGH THEN 0
                                             ELSE m.conns[p].rwnd
<1>9. CASE m.aud.state = "AUD_IDLE"
  <2>1. n = m
    BY <1>5, <1>9
  <2>. QED  BY <1>9, <2>1 DEF n, q
<1>10. CASE m.aud.state # "AUD_IDLE" /\ q > AUDIO_MAX_BUF
  <2>. DEFINE e == [b EXCEPT !.eof = TRUE]
              ended == [got EXCEPT !.aud = e]
              k == [n EXCEPT !.aud = ended.aud]
  <2>1. m.aud.state = "AUD_PLAY"
    BY <1>1, <1>7, <1>10, Marks
  <2>2. e \in Player /\ e.state = "AUD_PLAY" /\ e.conn = m.aud.conn /\ e.eof = TRUE
    BY <1>1, <2>1 DEF Player
  <2>. HIDE DEF e
  <2>3. /\ ended \in Machines /\ ended.aud = e /\ ended.conns = m.conns /\ ended.acks = m.acks
        /\ ended.srv = m.srv /\ ended.broken = m.broken
    BY <1>3, <2>2 DEF Machines
  <2>4. n = DropConn(ended)
    <3>1. [got EXCEPT !.aud.eof = TRUE] = ended
      BY <1>3 DEF Machines, e
    <3>. HIDE DEF ended
    <3>2. n = Cut(got)
      <4>. HIDE DEF got, shuts
      <4>. QED  BY <1>5, <1>7, <1>10, Marks
    <3>. QED  BY <3>1, <3>2 DEF Cut
  <2>. HIDE DEF ended
  <2>5. /\ Calm(ended, k) /\ n \in Machines /\ n.aud = [e EXCEPT !.conn = NoPlay]
        /\ n.conns = k.conns /\ n.acks = k.acks /\ n.srv = k.srv /\ n.broken = k.broken
    BY <1>6, <2>2, <2>3, <2>4, DropConnLeaves
  <2>. HIDE DEF k
  <2>6. n.aud.conn = NoPlay /\ n.aud.state = "AUD_PLAY" /\ n.aud.eof = TRUE
    BY <2>2, <2>5 DEF Player
  <2>7. Behind(n, p)
    BY <2>6 DEF Behind
  <2>8. Fresh(m, p) => Fresh(n, p)
    <3>1. Fresh(m, p) => Fresh(ended, p)
      BY <2>3 DEF Fresh
    <3>2. Fresh(ended, p) => Fresh(k, p)
      BY <2>3, <2>5, CalmKeeps
    <3>3. Fresh(k, p) => Fresh(n, p)
      BY <2>5 DEF Fresh
    <3>. QED  BY <3>1, <3>2, <3>3
  <2>9. n.srv = m.srv /\ n.broken = m.broken
    BY <2>3, <2>5 DEF Calm
  <2>10. ~(q <= AUDIO_MAX_BUF)
    BY <1>7, <1>10, Marks
  <2>. QED  BY <1>10, <2>5, <2>7, <2>8, <2>9, <2>10 DEF n, q
<1>11. CASE m.aud.state # "AUD_IDLE" /\ q <= AUDIO_MAX_BUF /\ shuts
  <2>1. p \in Plays /\ m.aud.conn = p
    BY <1>6, <1>11
  <2>2. m.aud.state = "AUD_PLAY" /\ q >= AUDIO_BUF_LOW /\ ~m.aud.eof
    BY <1>6, <1>7, <1>11, Marks
  <2>3. ~(q > AUDIO_MAX_BUF)
    BY <1>7, <1>11, Marks
  <2>4. n = tcp_set_rwnd(got, p, 0)
    BY <1>5, <1>11, <2>1, <2>3
  <2>5. /\ n \in Machines /\ OnlyAt(got, n, p) /\ n.conns[p].rwnd = 0
        /\ n.conns[p].state = m.conns[p].state /\ n.conns[p].rcv = m.conns[p].rcv
        /\ n.conns[p].close_after = m.conns[p].close_after
        /\ n.acks = m.acks /\ n.aud = b /\ n.srv = m.srv /\ n.broken = m.broken
    <3>. HIDE DEF n, got
    <3>1. 0 \in Nat
      OBVIOUS
    <3>. DEFINE k == tcp_set_rwnd(got, p, 0)
    <3>2. /\ k \in Machines /\ OnlyAt(got, k, p) /\ k.conns[p].rwnd = 0
          /\ k.conns[p].state = got.conns[p].state /\ k.conns[p].rcv = got.conns[p].rcv
          /\ k.conns[p].close_after = got.conns[p].close_after
          /\ k.acks = got.acks /\ k.aud = got.aud /\ k.srv = got.srv /\ k.broken = got.broken
      <4>1. got \in Machines
        BY <1>3
      <4>. QED  BY <2>1, <3>1, <4>1, SetRwnd
    <3>3. n = k
      BY <2>4
    <3>. HIDE DEF k
    <3>. QED  BY <1>3, <3>2, <3>3
  <2>6. \A t \in Plays \ {p} : n.conns[t] = m.conns[t]
    BY <1>3, <2>1, <2>5 DEF OnlyAt, Machines
  <2>7. Fresh(m, p) => Fresh(n, p)
    BY <2>5, <2>6 DEF Fresh
  <2>8. Behind(n, p)
    BY <1>1, <1>6, <2>1, <2>2, <2>5 DEF Behind, Alive
  <2>9. Grown
    BY <1>1, <1>11, <2>1, <2>2, <2>5, <2>6
  <2>. QED  BY <1>11, <2>5, <2>7, <2>8, <2>9 DEF n, q
<1>12. CASE m.aud.state = "AUD_BUFFER" /\ q <= AUDIO_MAX_BUF /\ ~shuts /\ q >= AUDIO_PREBUFFER
  <2>. DEFINE e == [b EXCEPT !.state = "AUD_PLAY"]
  <2>1. /\ e \in Player /\ e.state = "AUD_PLAY" /\ e.conn = b.conn /\ e.eof = b.eof
        /\ e.queue = b.queue
    BY <1>1 DEF Player
  <2>2. n = [got EXCEPT !.aud = e]
    <3>1. ~(q > AUDIO_MAX_BUF) /\ m.aud.state # "AUD_IDLE"
      BY <1>7, <1>12, Marks
    <3>2. n = [got EXCEPT !.aud.state = "AUD_PLAY"]
      BY <1>5, <1>12, <3>1
    <3>. QED  BY <3>2, <1>3 DEF Machines
  <2>. HIDE DEF e
  <2>3. /\ n \in Machines /\ n.aud = e /\ n.conns = m.conns /\ n.acks = m.acks /\ n.srv = m.srv
        /\ n.broken = m.broken
    BY <1>3, <2>1, <2>2 DEF Machines
  <2>4. Behind(n, p)
    BY <1>1, <1>6, <1>7, <1>12, <2>1, <2>3 DEF Behind
  <2>5. Fresh(m, p) => Fresh(n, p)
    BY <2>3 DEF Fresh
  <2>6. Grown
    BY <1>1, <1>6, <1>12, <2>1, <2>3
  <2>. QED  BY <1>12, <2>3, <2>4, <2>5, <2>6 DEF n, q
<1>13. CASE /\ m.aud.state # "AUD_IDLE" /\ q <= AUDIO_MAX_BUF /\ ~shuts
            /\ ~(m.aud.state = "AUD_BUFFER" /\ q >= AUDIO_PREBUFFER)
  <2>1. n = got
    <3>1. ~(q > AUDIO_MAX_BUF)
      BY <1>7, <1>13, Marks
    <3>. QED  BY <1>5, <1>13, <3>1
  <2>2. Behind(n, p)
    <3>1. m.aud.state = "AUD_BUFFER" => q < AUDIO_PREBUFFER
      BY <1>7, <1>13, Marks
    <3>. QED  BY <1>1, <1>3, <1>6, <1>7, <2>1, <3>1 DEF Behind
  <2>3. Grown
    BY <1>1, <1>3, <1>6, <1>13, <2>1
  <2>. QED  BY <1>3, <1>8, <1>13, <2>1, <2>2, <2>3 DEF n, q
<1>. QED
  <2>1. q <= AUDIO_MAX_BUF \/ q > AUDIO_MAX_BUF
    BY <1>7, Marks
  <2>. QED  BY <1>9, <1>10, <1>11, <1>12, <1>13, <2>1

\* The queue has room for what the window let through.
LEMMA Room ==
    ASSUME NEW m \in Machines, NEW p \in Plays, NEW h, Account(m, p, h),
           m.conns[p].rcv < m.srv[p].sent
    PROVE  /\ Len(m.aud.queue) + 1 <= AUDIO_MAX_BUF
           /\ Len(m.aud.queue) <= AUDIO_BUF_HIGH + AUDIO_WND
<1>. DEFINE c == m.conns[p]
            v == m.srv[p]
            q == Len(m.aud.queue)
<1>1. c.rcv \in Nat /\ c.rwnd \in Nat /\ v.sent \in Nat /\ q \in Nat
  <2>1. m.aud.queue \in Seq(Plays \X Nat) /\ c \in Conn /\ v \in ServerSide
    BY Parts DEF Player, Machines
  <2>. QED  BY <2>1, LenProperties DEF Conn, ServerSide
<1>2. /\ c.rwnd # 0 => q <= AUDIO_BUF_HIGH
      /\ c.rwnd = 0 => v.sent + q <= c.rcv + AUDIO_BUF_HIGH + 1 + AUDIO_WND
  BY DEF Account, Edges
<1>. HIDE DEF c, v, q
<1>3. c.rcv < v.sent
  BY DEF c, v
<1>4. q <= AUDIO_BUF_HIGH + AUDIO_WND /\ q + 1 <= AUDIO_MAX_BUF
  BY <1>1, <1>2, <1>3, Marks
<1>. QED  BY <1>4 DEF q

LEMMA OneMore ==
    ASSUME NEW e \in Nat, NEW q \in Nat, NEW r \in Nat, NEW t \in Nat, NEW H \in Nat, NEW W \in Nat,
           q = r \/ q = r + 1, e + r <= t + H + 1 + W
    PROVE  e + q <= t + 1 + H + 1 + W
OBVIOUS

\* The connection p has taken a unit that was in turn, into the queue or not.
TookOne(m, n, p) ==
    /\ Early(m.conns[p]) /\ m.conns[p].rcv < m.srv[p].sent /\ n.srv = m.srv
    /\ n.conns[p].rcv = m.conns[p].rcv + 1
    /\ Len(n.aud.queue) = Len(m.aud.queue) \/ Len(n.aud.queue) = Len(m.aud.queue) + 1
    /\ n.conns[p].rwnd = IF m.conns[p].rwnd # 0 /\ Len(n.aud.queue) > AUDIO_BUF_HIGH THEN 0
                         ELSE m.conns[p].rwnd
    /\ \A a \in n.acks[p] : \/ a \in m.acks[p]
                            \/ a.ack = m.conns[p].rcv + 1 /\ a.wnd = m.conns[p].rwnd

LEMMA TakenAccount ==
    ASSUME NEW m \in Machines, NEW n \in Machines, NEW p \in Plays, NEW h \in Nat, NEW g,
           Account(m, p, h), TookOne(m, n, p),
           \/ m.conns[p].rcv <= BodyOf(m, p) /\ Early(n.conns[p]) /\ g = m.conns[p].rcv
           \/ m.conns[p].rcv = BodyOf(m, p) + 1 /\ Finned(n.conns[p]) /\ g = h
    PROVE  Account(n, p, g)
<1>. DEFINE c == m.conns[p]
            d == n.conns[p]
            v == m.srv[p]
            r == Len(m.aud.queue)
            q == Len(n.aud.queue)
            B == BodyOf(m, p)
<1>0. /\ Early(c) /\ c.rcv < v.sent /\ n.srv = m.srv /\ d.rcv = c.rcv + 1
      /\ q = r \/ q = r + 1
      /\ d.rwnd = IF c.rwnd # 0 /\ q > AUDIO_BUF_HIGH THEN 0 ELSE c.rwnd
      /\ \A a \in n.acks[p] : a \in m.acks[p] \/ (a.ack = c.rcv + 1 /\ a.wnd = c.rwnd)
  BY DEF TookOne
<1>1. /\ c.rcv \in Nat /\ c.rwnd \in Nat /\ v.sent \in Nat /\ v.una \in Nat /\ v.wnd \in Nat
      /\ r \in Nat /\ q \in Nat /\ B \in Nat
  <2>1. /\ m.aud.queue \in Seq(Plays \X Nat) /\ c \in Conn /\ v \in ServerSide
        /\ n.aud.queue \in Seq(Plays \X Nat) /\ B \in Nat
    BY Parts DEF Player, Machines
  <2>2. r \in Nat /\ q \in Nat
    BY <2>1, LenProperties
  <2>. QED  BY <2>1, <2>2 DEF Conn, ServerSide
<1>2. /\ r <= AUDIO_BUF_HIGH + AUDIO_WND
      /\ v.sent <= B + 2 /\ (Early(c) => c.rcv <= B + 1 /\ h = IF c.rcv = 0 THEN 0 ELSE c.rcv - 1)
      /\ c.rwnd \in {0, AUDIO_WND} /\ (c.rwnd # 0 => r <= AUDIO_BUF_HIGH)
  BY <1>0, Room DEF Account
<1>3. BodyOf(n, p) = B /\ n.srv[p] = v
  BY <1>0 DEF BodyOf
<1>4. ASSUME NEW e \in Edges(n, p)
      PROVE  /\ e <= c.rcv + 1 + AUDIO_WND
             /\ d.rwnd = 0 => e + q <= c.rcv + 1 + AUDIO_BUF_HIGH + 1 + AUDIO_WND
  <2>1. CASE e \in Edges(m, p)
    <3>1. e \in Nat
      <4>1. m.acks[p] \subseteq Ack
        BY Parts
      <4>. QED  BY <1>1, <2>1, <4>1 DEF Edges, Ack
    <3>2. /\ e <= c.rcv + AUDIO_WND
          /\ c.rwnd = 0 => e + r <= c.rcv + AUDIO_BUF_HIGH + 1 + AUDIO_WND
      BY <2>1 DEF Account
    <3>3. d.rwnd = 0 => c.rwnd = 0 \/ r <= AUDIO_BUF_HIGH
      BY <1>0, <1>2
    <3>4. q = r \/ q = r + 1
      BY <1>0
    <3>5. AUDIO_WND \in Nat /\ AUDIO_BUF_HIGH \in Nat /\ c.rcv \in Nat /\ r \in Nat /\ q \in Nat
      BY <1>1, Marks
    <3>. HIDE DEF c, d, r, v, B, q
    <3>6. e <= c.rcv + 1 + AUDIO_WND
      BY <3>1, <3>2, <3>5
    <3>7. d.rwnd = 0 => e + r <= c.rcv + AUDIO_BUF_HIGH + 1 + AUDIO_WND
      BY <3>1, <3>2, <3>3, <3>5
    <3>8. d.rwnd = 0 => e + q <= c.rcv + 1 + AUDIO_BUF_HIGH + 1 + AUDIO_WND
      BY <3>1, <3>4, <3>5, <3>7, OneMore
    <3>. QED  BY <3>6, <3>8
  <2>2. CASE e \notin Edges(m, p)
    <3>1. PICK a \in n.acks[p] : e = a.ack + a.wnd /\ a \notin m.acks[p]
      BY <1>3, <2>2 DEF Edges
    <3>2. e = c.rcv + 1 + c.rwnd
      BY <1>0, <3>1
    <3>3. d.rwnd = 0 => c.rwnd = 0 \/ (c.rwnd = AUDIO_WND /\ r <= AUDIO_BUF_HIGH)
      BY <1>0, <1>2
    <3>4. q = r \/ q = r + 1
      BY <1>0
    <3>5. /\ AUDIO_WND \in Nat /\ AUDIO_BUF_HIGH \in Nat /\ c.rcv \in Nat /\ r \in Nat /\ q \in Nat
          /\ c.rwnd \in {0, AUDIO_WND} /\ r <= AUDIO_BUF_HIGH + AUDIO_WND
      BY <1>1, <1>2, Marks
    <3>. HIDE DEF c, d, r, v, B, q
    <3>6. e <= c.rcv + 1 + AUDIO_WND
      BY <3>2, <3>5
    <3>7. e \in Nat /\ (d.rwnd = 0 => e + r <= c.rcv + AUDIO_BUF_HIGH + 1 + AUDIO_WND)
      <4>1. e \in Nat
        BY <3>2, <3>5
      <4>2. CASE c.rwnd = 0
        BY <3>2, <3>5, <4>2
      <4>3. CASE c.rwnd = AUDIO_WND /\ r <= AUDIO_BUF_HIGH
        BY <3>2, <3>5, <4>3
      <4>. QED  BY <3>3, <4>1, <4>2, <4>3
    <3>8. d.rwnd = 0 => e + q <= c.rcv + 1 + AUDIO_BUF_HIGH + 1 + AUDIO_WND
      BY <3>4, <3>5, <3>7, OneMore
    <3>. QED  BY <3>6, <3>8
  <2>. QED  BY <2>1, <2>2
<1>5. Early(d) \/ Finned(d)
  OBVIOUS
<1>6. /\ Early(d) => d.rcv <= B + 1 /\ g = IF d.rcv = 0 THEN 0 ELSE d.rcv - 1
      /\ Finned(d) => d.rcv = B + 2 /\ g = B
  <2>1. ~(Early(d) /\ Finned(d))
    BY DEF Early, Finned
  <2>2. /\ d.rcv = c.rcv + 1 /\ Early(c)
        /\ \/ c.rcv <= B /\ Early(d) /\ g = c.rcv
           \/ c.rcv = B + 1 /\ Finned(d) /\ g = h
    BY <1>0
  <2>. HIDE DEF c, d, B
  <2>. QED  BY <1>1, <1>2, <2>1, <2>2
<1>7. d.rwnd \in {0, AUDIO_WND} /\ (d.rwnd # 0 => q <= AUDIO_BUF_HIGH)
  <2>1. d.rwnd = IF c.rwnd # 0 /\ q > AUDIO_BUF_HIGH THEN 0 ELSE c.rwnd
    BY <1>0
  <2>. HIDE DEF c, d
  <2>. QED  BY <1>1, <1>2, <2>1, Marks
<1>8. d.rcv = c.rcv + 1 /\ d.rcv <= v.sent
  <2>1. d.rcv = c.rcv + 1 /\ c.rcv < v.sent
    BY <1>0
  <2>. HIDE DEF c, d, v
  <2>. QED  BY <1>1, <2>1
<1>. QED
  <2>. HIDE DEF v, B
  <2>. QED  BY <1>0, <1>2, <1>3, <1>4, <1>5, <1>6, <1>7, <1>8 DEF Account

LEMMA HeardGrows ==
    ASSUME NEW S, NEW h \in Seq(S), NEW q \in Seq(S), NEW e \in S
    PROVE  /\ Len(h \o q) \in Nat /\ Len(h \o Append(q, e)) = Len(h \o q) + 1
           /\ \A i \in 1 .. Len(h \o q) : (h \o Append(q, e))[i] = (h \o q)[i]
           /\ (h \o Append(q, e))[Len(h \o q) + 1] = e
<1>1. Append(q, e) \in Seq(S) /\ Len(Append(q, e)) = Len(q) + 1
  BY AppendProperties
<1>2. /\ \A i \in 1 .. Len(q) : Append(q, e)[i] = q[i]
      /\ Append(q, e)[Len(q) + 1] = e
  BY AppendProperties
<1>3. /\ Len(h) \in Nat /\ Len(q) \in Nat /\ Len(h \o q) = Len(h) + Len(q)
      /\ \A i \in 1 .. Len(h) + Len(q) : (h \o q)[i] = IF i <= Len(h) THEN h[i] ELSE q[i - Len(h)]
  BY ConcatProperties, LenProperties
<1>4. /\ Len(h \o Append(q, e)) = Len(h) + Len(q) + 1
      /\ \A i \in 1 .. Len(h) + Len(q) + 1 :
            (h \o Append(q, e))[i] = IF i <= Len(h) THEN h[i] ELSE Append(q, e)[i - Len(h)]
  BY <1>1, <1>3, ConcatProperties
<1>. QED  BY <1>1, <1>2, <1>3, <1>4

LEMMA HeardMoves ==
    ASSUME NEW S, NEW h \in Seq(S), NEW q \in Seq(S), q # <<>>
    PROVE  Append(h, Head(q)) \o Tail(q) = h \o q /\ Len(Tail(q)) = Len(q) - 1
<1>1. /\ Head(q) \in S /\ Tail(q) \in Seq(S) /\ Len(Tail(q)) = Len(q) - 1 /\ Head(q) = q[1]
      /\ \A i \in 1 .. Len(q) - 1 : Tail(q)[i] = q[i + 1]
      /\ Len(q) \in Nat /\ Len(q) > 0 /\ Len(h) \in Nat
  BY HeadTailProperties, LenProperties, EmptySeq
<1>2. /\ Append(h, Head(q)) \in Seq(S) /\ Len(Append(h, Head(q))) = Len(h) + 1
      /\ \A i \in 1 .. Len(h) : Append(h, Head(q))[i] = h[i]
      /\ Append(h, Head(q))[Len(h) + 1] = Head(q)
  BY <1>1, AppendProperties
<1>. DEFINE a == Append(h, Head(q)) \o Tail(q)
            b == h \o q
<1>3. /\ a \in Seq(S) /\ Len(a) = Len(h) + Len(q)
      /\ \A i \in 1 .. Len(h) + Len(q) :
            a[i] = IF i <= Len(h) + 1 THEN Append(h, Head(q))[i] ELSE Tail(q)[i - (Len(h) + 1)]
  BY <1>1, <1>2, ConcatProperties
<1>4. /\ b \in Seq(S) /\ Len(b) = Len(h) + Len(q)
      /\ \A i \in 1 .. Len(h) + Len(q) : b[i] = IF i <= Len(h) THEN h[i] ELSE q[i - Len(h)]
  BY <1>1, ConcatProperties
<1>5. ASSUME NEW i \in 1 .. Len(h) + Len(q) PROVE a[i] = b[i]
  <2>1. CASE i <= Len(h)
    BY <1>1, <1>2, <1>3, <1>4, <2>1
  <2>2. CASE i = Len(h) + 1
    BY <1>1, <1>2, <1>3, <1>4, <2>2
  <2>3. CASE i > Len(h) + 1
    <3>1. a[i] = Tail(q)[i - (Len(h) + 1)] /\ b[i] = q[i - Len(h)]
      BY <1>1, <1>3, <1>4, <2>3
    <3>2. i - (Len(h) + 1) \in 1 .. Len(q) - 1 /\ i - (Len(h) + 1) + 1 = i - Len(h)
      BY <1>1, <2>3
    <3>. QED  BY <1>1, <3>1, <3>2
  <2>. QED  BY <1>1, <2>1, <2>2, <2>3
<1>. HIDE DEF a, b
<1>6. a = b
  BY <1>1, <1>3, <1>4, <1>5, SeqEqual
<1>. QED  BY <1>1, <1>6 DEF a, b

\* A machine that is Calm keeps Single when the account does.
LEMMA CalmSingle ==
    ASSUME NEW m \in Machines, NEW n, NEW p, NEW h, Calm(m, n), Single(m, p, h),
           m.aud.conn # NoPlay => Account(n, p, Len(h \o m.aud.queue))
    PROVE  Single(n, p, h)
<1>1. /\ n.aud = m.aud /\ n.broken = m.broken /\ BodyOf(n, p) = BodyOf(m, p)
      /\ \A s \in Plays : Alive(n.conns[s]) <=> Alive(m.conns[s])
  BY DEF Calm, BodyOf
<1>. QED  BY <1>1 DEF Single

\* Who hears a unit that is in turn, as long as no play crossed another.
LEMMA Listener ==
    ASSUME NEW m \in Machines, NEW s \in Plays, NEW p, NEW h, Behind(m, p), Single(m, p, h),
           Alive(m.conns[s]), m.conns[s].state \notin {"ARP_WAIT", "SYN_SENT"},
           m.conns[s].rcv < m.srv[s].sent
    PROVE  /\ s = p
           /\ \/ m.aud.conn = NoPlay /\ m.aud.state = "AUD_IDLE"
              \/ /\ m.aud.conn # NoPlay /\ m.aud.state # "AUD_IDLE" /\ ~m.aud.eof
                 /\ Account(m, p, Len(h \o m.aud.queue)) /\ Early(m.conns[p])
                 /\ m.conns[p].state = "ESTAB" /\ m.conns[p].rcv <= BodyOf(m, p) + 1
<1>1. s = p
  BY DEF Single
<1>2. CASE m.aud.conn = NoPlay
  BY <1>1, <1>2 DEF Single
<1>3. CASE m.aud.conn # NoPlay
  <2>1. Account(m, p, Len(h \o m.aud.queue)) /\ m.aud.state # "AUD_IDLE" /\ ~m.aud.eof
    BY <1>3 DEF Single, Behind
  <2>2. m.conns[p].rcv \in Nat /\ m.srv[p].sent \in Nat /\ BodyOf(m, p) \in Nat
    BY <1>1, Parts DEF Conn, ServerSide
  <2>3. /\ m.conns[p].rcv < m.srv[p].sent /\ m.srv[p].sent <= BodyOf(m, p) + 2
        /\ Finned(m.conns[p]) => m.conns[p].rcv = BodyOf(m, p) + 2
        /\ Early(m.conns[p]) \/ Finned(m.conns[p])
        /\ Early(m.conns[p]) => m.conns[p].rcv <= BodyOf(m, p) + 1
    BY <1>1, <2>1 DEF Account
  <2>4. Early(m.conns[p])
    BY <2>2, <2>3
  <2>5. m.conns[p].state = "ESTAB"
    BY <1>1, <2>4 DEF Early
  <2>. QED  BY <1>1, <1>3, <2>1, <2>3, <2>4, <2>5
<1>. QED  BY <1>1, <1>2, <1>3

\* The end of the response.
LEMMA FinInKeeps ==
    ASSUME NEW m \in Machines, m.srv = srv, NEW s \in Plays, Alive(m.conns[s]),
           m.conns[s].state \notin {"ARP_WAIT", "SYN_SENT"}, m.conns[s].rcv < m.srv[s].sent,
           m.conns[s].rcv = BodyOf(m, s) + 1,
           NEW p, Fresh(m, p), Behind(m, p), NEW h \in Seq(Plays \X Nat),
           NEW got \in Machines, Calm(m, got), OnlyAt(m, got, s),
           got.conns[s] = [m.conns[s] EXCEPT !.rcv = @ + 1], got.acks = m.acks
    PROVE  LET n == FinIn(got, s)
           IN /\ n \in Machines /\ Fresh(n, p) /\ Behind(n, p)
              /\ Single(m, p, h) => Single(n, p, h)
<1>. DEFINE c == m.conns[s]
            g == got.conns[s]
            n == FinIn(got, s)
            f == IF g.unacked = None THEN [g EXCEPT !.state = "LAST_ACK"]
                 ELSE [g EXCEPT !.state = "CLOSE_WAIT", !.close_after = TRUE]
            k == [got EXCEPT !.conns[s] = f]
<1>1. /\ c \in Conn /\ g \in Conn /\ g.rcv = c.rcv + 1 /\ g.rwnd = c.rwnd /\ g.state = c.state
  BY Parts DEF Conn
<1>2. Fresh(got, p) /\ Behind(got, p) /\ Alive(g) /\ got.aud = m.aud /\ got.srv = m.srv
  BY CalmKeeps DEF Calm
<1>3. CASE c.state = "ESTAB"
  <2>1. /\ f \in Conn /\ f.rcv = g.rcv /\ f.rwnd = g.rwnd /\ Finned(f) /\ Alive(f)
        /\ f.state = IF g.unacked = None THEN "LAST_ACK" ELSE "CLOSE_WAIT"
    BY <1>1 DEF Conn, TcpStates, Finned, Alive
  <2>2. n = IF g.unacked = None THEN SendRel(k, s, FIN) ELSE SendAck(k, s)
    <3>1. CASE g.unacked = None
      <4>1. [got EXCEPT !.conns[s].state = "LAST_ACK"] = k
        BY <1>1, <3>1, Parts DEF Machines
      <4>. HIDE DEF k
      <4>. QED  BY <1>1, <1>3, <3>1, <4>1 DEF FinIn
    <3>2. CASE g.unacked # None
      <4>1. [got EXCEPT !.conns[s].state = "CLOSE_WAIT", !.conns[s].close_after = TRUE] = k
        BY <1>1, <3>2, Parts DEF Machines
      <4>. HIDE DEF k
      <4>. QED  BY <1>1, <1>3, <3>2, <4>1 DEF FinIn
    <3>. QED  BY <3>1, <3>2
  <2>. HIDE DEF f
  <2>3. /\ k \in Machines /\ k.conns[s] = f /\ OnlyAt(got, k, s) /\ k.aud = got.aud
        /\ k.srv = got.srv /\ k.broken = got.broken /\ k.acks = got.acks
    BY <2>1, SetConn
  <2>. HIDE DEF k, n, g
  <2>4. Calm(got, k)
    BY <1>2, <2>1, <2>3, CalmOne DEF g
  <2>5. Quiet(k, n)
    BY <2>1, <2>2, <2>3, SendRelQuiet, SendAckQuiet DEF Segments
  <2>6. Fresh(k, p) /\ Behind(k, p) /\ Calm(m, k) /\ k.broken = m.broken
    BY <1>2, <2>3, <2>4, CalmKeeps, CalmTrans DEF Calm
  <2>7. n \in Machines /\ Fresh(n, p) /\ Behind(n, p)
    BY <2>3, <2>5, <2>6, CalmKeeps DEF Quiet, Calm
  <2>8. ASSUME Single(m, p, h) PROVE Single(n, p, h)
    <3>1. ASSUME m.aud.conn # NoPlay PROVE Account(k, p, Len(h \o m.aud.queue))
      <4>1. /\ s = p /\ Account(m, p, Len(h \o m.aud.queue)) /\ Early(m.conns[p])
            /\ m.conns[p].rcv = BodyOf(m, p) + 1
        BY <2>8, <3>1, Listener
      <4>2. Len(h \o m.aud.queue) \in Nat /\ Len(m.aud.queue) \in Nat
        <5>1. m.aud.queue \in Seq(Plays \X Nat)
          BY Parts DEF Player, Machines
        <5>. QED  BY <5>1, ConcatProperties, LenProperties
      <4>3. k.conns[p].rcv = m.conns[p].rcv + 1 /\ k.conns[p].rwnd = m.conns[p].rwnd
        BY <1>1, <2>1, <2>3, <4>1
      <4>4. m.conns[p].rwnd # 0 => Len(m.aud.queue) <= AUDIO_BUF_HIGH
        BY <4>1 DEF Account
      <4>5. m.conns[p].rwnd = IF m.conns[p].rwnd # 0 /\ Len(m.aud.queue) > AUDIO_BUF_HIGH THEN 0
                              ELSE m.conns[p].rwnd
        BY <4>2, <4>4, Marks
      <4>6. TookOne(m, k, p)
        BY <1>2, <2>3, <4>1, <4>3, <4>5 DEF TookOne
      <4>. QED  BY <2>1, <2>3, <4>1, <4>2, <4>6, TakenAccount
    <3>2. Single(k, p, h)
      BY <2>6, <2>8, <3>1, CalmSingle
    <3>. QED  BY <2>3, <2>5, <2>6, <3>2, QuietKeeps
  <2>. QED  BY <2>7, <2>8 DEF n
<1>4. CASE c.state # "ESTAB"
  <2>. DEFINE a == SendAck(got, s)
  <2>1. n = Close(a, s)
    BY <1>1, <1>4 DEF FinIn
  <2>2. Quiet(got, a) /\ a.conns = got.conns
    BY <1>2, SendAckQuiet
  <2>3. /\ a \in Machines /\ a.srv = srv /\ Calm(m, a) /\ Behind(a, p) /\ Fresh(a, p)
        /\ a.aud = m.aud /\ Alive(a.conns[s])
    BY <1>2, <2>2, CalmKeeps, CalmTrans DEF Quiet, Calm
  <2>. HIDE DEF a, n
  <2>4. Ended(a, n, {s})
    BY <2>1, <2>3, CloseEnds
  <2>5. ASSUME Single(m, p, h) PROVE Single(a, p, h) /\ a.aud.state = "AUD_IDLE"
    <3>1. m.aud.conn = NoPlay /\ m.aud.state = "AUD_IDLE"
      BY <1>4, <2>5, Listener
    <3>. QED  BY <2>3, <2>5, <3>1, CalmSingle
  <2>6. n \in Machines
    BY <2>4 DEF Ended
  <2>7. Fresh(n, p) /\ Behind(n, p) /\ (Single(m, p, h) => Single(n, p, h))
    BY <2>3, <2>4, <2>5, EndedKeeps
  <2>. QED  BY <2>6, <2>7 DEF n
<1>. QED  BY <1>3, <1>4

\* The header, or a unit of the body.
LEMMA DataKeeps ==
    ASSUME NEW m \in Machines, m.srv = srv, NEW s \in Plays, Alive(m.conns[s]),
           m.conns[s].state \notin {"ARP_WAIT", "SYN_SENT"}, m.conns[s].rcv < m.srv[s].sent,
           m.conns[s].rcv # BodyOf(m, s) + 1,
           NEW p, Fresh(m, p), Behind(m, p), NEW h \in Seq(Plays \X Nat),
           NEW got \in Machines, Calm(m, got), OnlyAt(m, got, s),
           got.conns[s] = [m.conns[s] EXCEPT !.rcv = @ + 1], got.acks = m.acks
    PROVE  LET n == Data(SendAck(got, s), s, m.conns[s].rcv)
           IN /\ n \in Machines /\ Fresh(n, p) /\ Behind(n, p)
              /\ Single(m, p, h) => Single(n, p, h)
<1>. DEFINE c == m.conns[s]
            g == got.conns[s]
            a == SendAck(got, s)
            entry == <<s, c.rcv>>
            n == Data(a, s, c.rcv)
<1>1. /\ c \in Conn /\ g \in Conn /\ g.rcv = c.rcv + 1 /\ g.rwnd = c.rwnd /\ g.state = c.state
      /\ g.close_after = c.close_after /\ c.rcv \in Nat
  BY Parts DEF Conn
<1>2. Fresh(got, p) /\ Behind(got, p) /\ Alive(g) /\ got.aud = m.aud /\ got.srv = m.srv
  BY CalmKeeps DEF Calm
<1>3. Quiet(got, a) /\ a.conns = got.conns /\ OnlyAt(got, a, s)
  BY <1>2, SendAckQuiet
<1>4. /\ a \in Machines /\ a.srv = m.srv /\ Calm(m, a) /\ Behind(a, p) /\ Fresh(a, p)
      /\ a.aud = m.aud /\ a.conns[s] = g
  <2>. HIDE DEF a
  <2>1. Calm(got, a) /\ a \in Machines /\ a.srv = m.srv /\ a.aud = m.aud
    BY <1>2, <1>3 DEF Quiet, Calm
  <2>2. Fresh(a, p) /\ Behind(a, p)
    BY <1>2, <2>1, CalmKeeps
  <2>. QED  BY <1>3, <2>1, <2>2, CalmTrans
<1>5. \A e \in a.acks[s] : e \in m.acks[s] \/ (e.ack = c.rcv + 1 /\ e.wnd = c.rwnd)
  BY <1>1, <1>3 DEF Quiet, Silently
<1>6. n = IF c.rcv = 0 THEN a ELSE aud_chunk(a, entry)
  <2>. HIDE DEF a
  <2>. QED  BY DEF Data
<1>7. entry \in Plays \X Nat
  BY <1>1
<1>. HIDE DEF a
<1>. DEFINE x == aud_chunk(a, entry)
            q == Len(m.aud.queue) + 1
<1>8. /\ x \in Machines /\ x.srv = m.srv /\ x.broken = a.broken /\ Behind(x, p) /\ Fresh(x, p)
      /\ a.aud.state = "AUD_IDLE" => x = a
      /\ a.aud.state # "AUD_IDLE" /\ q <= AUDIO_MAX_BUF =>
            /\ x.aud.queue = Append(m.aud.queue, entry) /\ x.aud.state # "AUD_IDLE"
            /\ x.aud.conn = m.aud.conn /\ x.aud.eof = m.aud.eof /\ x.acks = a.acks
            /\ \A t \in Plays : /\ x.conns[t].rcv = a.conns[t].rcv
                                /\ x.conns[t].state = a.conns[t].state
                                /\ x.conns[t].close_after = a.conns[t].close_after
            /\ m.aud.conn # NoPlay =>
                  x.conns[p].rwnd = IF a.conns[p].rwnd # 0 /\ q > AUDIO_BUF_HIGH THEN 0
                                    ELSE a.conns[p].rwnd
  <2>. HIDE DEF entry, g
  <2>. DEFINE r == Len(a.aud.queue) + 1
  <2>1. /\ x \in Machines /\ x.srv = a.srv /\ x.broken = a.broken /\ Behind(x, p)
        /\ Fresh(a, p) => Fresh(x, p)
        /\ a.aud.state = "AUD_IDLE" => x = a
        /\ a.aud.state # "AUD_IDLE" /\ r <= AUDIO_MAX_BUF =>
              /\ x.aud.queue = Append(a.aud.queue, entry) /\ x.aud.state # "AUD_IDLE"
              /\ x.aud.conn = a.aud.conn /\ x.aud.eof = a.aud.eof /\ x.acks = a.acks
              /\ \A t \in Plays : /\ x.conns[t].rcv = a.conns[t].rcv
                                  /\ x.conns[t].state = a.conns[t].state
                                  /\ x.conns[t].close_after = a.conns[t].close_after
              /\ a.aud.conn # NoPlay =>
                    x.conns[p].rwnd = IF a.conns[p].rwnd # 0 /\ r > AUDIO_BUF_HIGH THEN 0
                                      ELSE a.conns[p].rwnd
    <3>1. a \in Machines /\ Behind(a, p)
      BY <1>4
    <3>. QED  BY <1>7, <3>1, ChunkOutcome
  <2>. HIDE DEF x
  <2>2. r = q
    BY <1>4
  <2>. HIDE DEF r, q
  <2>. QED  BY <1>4, <2>1, <2>2
<1>. HIDE DEF x, n, g
<1>9. n \in Machines /\ Fresh(n, p) /\ Behind(n, p)
  BY <1>4, <1>6, <1>8 DEF x
<1>10. ASSUME Single(m, p, h) PROVE Single(n, p, h)
  <2>1. CASE m.aud.conn = NoPlay
    <3>1. m.aud.state = "AUD_IDLE"
      BY <1>10, <2>1, Listener
    <3>2. n = a
      BY <1>4, <1>6, <1>8, <3>1 DEF x
    <3>. QED  BY <1>4, <1>10, <2>1, <3>2, CalmSingle
  <2>2. CASE m.aud.conn # NoPlay
    <3>. DEFINE old == h \o m.aud.queue
    <3>1. /\ s = p /\ Account(m, p, Len(old)) /\ Early(m.conns[p]) /\ c.state = "ESTAB"
          /\ c.rcv <= BodyOf(m, p) + 1 /\ m.aud.state # "AUD_IDLE" /\ ~m.aud.eof
      BY <1>10, <2>2, Listener
    <3>2. m.aud.queue \in Seq(Plays \X Nat) /\ BodyOf(m, p) \in Nat
      BY <3>1, Parts DEF Player, Machines
    <3>3. Len(old) \in Nat /\ Len(m.aud.queue) \in Nat
      BY <3>2, ConcatProperties, LenProperties
    <3>4. c.rcv <= BodyOf(m, p)
      BY <1>1, <3>1, <3>2
    <3>5. m.conns[p].rwnd # 0 => Len(m.aud.queue) <= AUDIO_BUF_HIGH
      BY <3>1 DEF Account
    <3>6. q <= AUDIO_MAX_BUF
      BY <3>1, Room
    <3>7. c.rcv = IF c.rcv = 0 THEN Len(old) ELSE Len(old) + 1
      <4>1. Early(c) => Len(old) = IF c.rcv = 0 THEN 0 ELSE c.rcv - 1
        BY <3>1 DEF Account
      <4>. HIDE DEF c, old
      <4>. QED  BY <1>1, <3>1, <3>3, <4>1 DEF c
    <3>8. CASE c.rcv = 0
      <4>1. n = a
        BY <1>6, <3>8
      <4>2. Early(a.conns[p])
        BY <1>1, <1>4, <3>1 DEF Early
      <4>3. /\ a.conns[p].rcv = m.conns[p].rcv + 1 /\ a.conns[p].rwnd = m.conns[p].rwnd
            /\ m.conns[p].rcv <= BodyOf(m, p) /\ Len(a.aud.queue) = Len(m.aud.queue)
        BY <1>1, <1>4, <3>1, <3>4
      <4>4. m.conns[p].rwnd = IF m.conns[p].rwnd # 0 /\ Len(m.aud.queue) > AUDIO_BUF_HIGH THEN 0
                              ELSE m.conns[p].rwnd
        BY <3>3, <3>5, Marks
      <4>5. Account(a, p, m.conns[p].rcv)
        <5>1. /\ m.conns[p].rcv < m.srv[p].sent /\ a.srv = m.srv /\ a \in Machines
              /\ \A e \in a.acks[p] : \/ e \in m.acks[p]
                                      \/ e.ack = m.conns[p].rcv + 1 /\ e.wnd = m.conns[p].rwnd
              /\ a.conns[p].rwnd = IF m.conns[p].rwnd # 0 /\ Len(a.aud.queue) > AUDIO_BUF_HIGH
                                   THEN 0 ELSE m.conns[p].rwnd
          BY <1>4, <1>5, <3>1, <4>3, <4>4
        <5>2. p \in Plays /\ Account(m, p, Len(old)) /\ Early(m.conns[p])
          BY <3>1
        <5>3. TookOne(m, a, p)
          BY <4>3, <5>1, <5>2 DEF TookOne
        <5>. HIDE DEF old
        <5>. QED  BY <3>3, <4>2, <4>3, <5>1, <5>2, <5>3, TakenAccount
      <4>6. Account(a, p, Len(old))
        BY <3>1, <3>7, <3>8, <4>5
      <4>. QED  BY <1>4, <1>10, <4>1, <4>6, CalmSingle
    <3>9. CASE c.rcv # 0
      <4>1. /\ n = x /\ x.aud.queue = Append(m.aud.queue, entry) /\ x.aud.state # "AUD_IDLE"
            /\ x.aud.conn = m.aud.conn /\ x.aud.eof = m.aud.eof /\ x.acks = a.acks
            /\ \A t \in Plays : /\ x.conns[t].rcv = a.conns[t].rcv
                                /\ x.conns[t].state = a.conns[t].state
                                /\ x.conns[t].close_after = a.conns[t].close_after
            /\ x.conns[p].rwnd = IF a.conns[p].rwnd # 0 /\ q > AUDIO_BUF_HIGH THEN 0
                                 ELSE a.conns[p].rwnd
        BY <1>4, <1>6, <1>8, <2>2, <3>1, <3>6, <3>9 DEF x
      <4>2. /\ x.conns[p].rcv = m.conns[p].rcv + 1 /\ Early(x.conns[p])
            /\ m.conns[p].rcv <= BodyOf(m, p)
            /\ x.conns[p].rwnd = IF m.conns[p].rwnd # 0 /\ q > AUDIO_BUF_HIGH THEN 0
                                 ELSE m.conns[p].rwnd
        BY <1>1, <1>4, <3>1, <3>4, <4>1 DEF Early
      <4>3. q = Len(x.aud.queue)
        BY <1>7, <3>2, <4>1, AppendProperties
      <4>4. Account(x, p, m.conns[p].rcv)
        <5>1. /\ m.conns[p].rcv < m.srv[p].sent /\ x.srv = m.srv /\ x \in Machines
              /\ \A e \in x.acks[p] : \/ e \in m.acks[p]
                                      \/ e.ack = m.conns[p].rcv + 1 /\ e.wnd = m.conns[p].rwnd
          BY <1>5, <1>8, <3>1, <4>1
        <5>2. p \in Plays /\ Account(m, p, Len(old)) /\ Early(m.conns[p])
          BY <3>1
        <5>3. Len(x.aud.queue) = Len(m.aud.queue) + 1
          BY <4>3
        <5>4. x.conns[p].rwnd = IF m.conns[p].rwnd # 0 /\ Len(x.aud.queue) > AUDIO_BUF_HIGH THEN 0
                                ELSE m.conns[p].rwnd
          BY <4>2, <4>3
        <5>5. TookOne(m, x, p)
          BY <4>2, <5>1, <5>2, <5>3, <5>4 DEF TookOne
        <5>. HIDE DEF old, q
        <5>. QED  BY <3>3, <4>2, <5>1, <5>2, <5>5, TakenAccount
      <4>. DEFINE new == h \o x.aud.queue
      <4>5. /\ Len(new) = Len(old) + 1 /\ \A i \in 1 .. Len(old) : new[i] = old[i]
            /\ new[Len(old) + 1] = entry
        <5>. DEFINE bit == h \o Append(m.aud.queue, entry)
        <5>1. new = bit
          BY <4>1
        <5>2. /\ Len(bit) = Len(old) + 1 /\ \A i \in 1 .. Len(old) : bit[i] = old[i]
              /\ bit[Len(old) + 1] = entry
          <6>. DEFINE S == Plays \X Nat
          <6>. DEFINE k == m.aud.queue
          <6>1. h \in Seq(S) /\ k \in Seq(S) /\ entry \in S
            BY <1>7, <3>2
          <6>. HIDE DEF entry, S, k
          <6>2. /\ Len(h \o k) \in Nat /\ Len(h \o Append(k, entry)) = Len(h \o k) + 1
                /\ \A i \in 1 .. Len(h \o k) : (h \o Append(k, entry))[i] = (h \o k)[i]
                /\ (h \o Append(k, entry))[Len(h \o k) + 1] = entry
            BY <6>1, HeardGrows
          <6>. QED  BY <6>2 DEF k
        <5>. HIDE DEF bit, new, old, entry
        <5>. QED  BY <5>1, <5>2
      <4>6. c.rcv = Len(old) + 1
        BY <3>7, <3>9
      <4>7. \A i \in 1 .. Len(new) : new[i] = <<p, i>>
        <5>1. \A i \in 1 .. Len(old) : old[i] = <<p, i>>
          BY <1>10 DEF Single
        <5>2. entry = <<p, Len(old) + 1>>
          BY <3>1, <4>6
        <5>. HIDE DEF new, old, entry
        <5>. QED  BY <3>3, <4>5, <5>1, <5>2
      <4>8. Account(x, p, Len(new))
        BY <3>1, <4>4, <4>5, <4>6
      <4>9. \A t \in Plays : Alive(x.conns[t]) => t = p
        BY <1>4, <1>10, <4>1 DEF Single, Calm, Alive
      <4>10. Len(x.aud.queue) <= AUDIO_MAX_BUF
        BY <3>6, <4>3
      <4>. QED  BY <2>2, <3>1, <4>1, <4>7, <4>8, <4>9, <4>10 DEF Single
    <3>. QED  BY <3>8, <3>9
  <2>. QED  BY <2>1, <2>2
<1>. QED  BY <1>9, <1>10 DEF n, a

LEMMA InOrderKeeps ==
    ASSUME NEW m \in Machines, m.srv = srv, NEW s \in Plays, Alive(m.conns[s]),
           m.conns[s].state \notin {"ARP_WAIT", "SYN_SENT"}, m.conns[s].rcv < m.srv[s].sent,
           NEW p, Fresh(m, p), Behind(m, p), NEW h \in Seq(Plays \X Nat)
    PROVE  LET n == InOrder(m, s, m.conns[s].rcv)
           IN /\ n \in Machines /\ Fresh(n, p) /\ Behind(n, p)
              /\ Single(m, p, h) => Single(n, p, h)
<1>. DEFINE r == m.conns[s].rcv + 1
            g == [m.conns[s] EXCEPT !.rcv = r]
            got == [m EXCEPT !.conns[s] = g]
            unit == m.conns[s].rcv
            n == InOrder(m, s, unit)
<1>1. /\ m.conns[s] \in Conn /\ g \in Conn /\ g.rwnd = m.conns[s].rwnd
      /\ g.state = m.conns[s].state
  <2>1. m.conns[s] \in Conn
    BY Parts
  <2>2. r \in Nat
    BY <2>1 DEF Conn
  <2>. HIDE DEF r
  <2>. QED  BY <2>1, <2>2 DEF Conn
<1>2. n = IF unit = BodyOf(m, s) + 1 THEN FinIn(got, s) ELSE Data(SendAck(got, s), s, unit)
  <2>1. got = [m EXCEPT !.conns[s].rcv = @ + 1] /\ FinUnit(s) = BodyOf(m, s) + 1
    BY <1>1, Parts DEF Machines, FinUnit, Body, BodyOf
  <2>. HIDE DEF got
  <2>. QED  BY <2>1 DEF InOrder
<1>. HIDE DEF g
<1>3. /\ got \in Machines /\ got.conns[s] = g /\ OnlyAt(m, got, s) /\ got.aud = m.aud
      /\ got.srv = m.srv /\ got.broken = m.broken /\ got.acks = m.acks
  BY <1>1, SetConn
<1>. HIDE DEF got, n
<1>4. Calm(m, got)
  BY <1>1, <1>3, CalmOne DEF Alive
<1>5. got.conns[s] = [m.conns[s] EXCEPT !.rcv = @ + 1]
  BY <1>3 DEF g
<1>. DEFINE Kept(k) == /\ k \in Machines /\ Fresh(k, p) /\ Behind(k, p)
                       /\ Single(m, p, h) => Single(k, p, h)
<1>6. CASE unit = BodyOf(m, s) + 1
  <2>. DEFINE k == FinIn(got, s)
  <2>1. Kept(k)
    BY <1>3, <1>4, <1>5, <1>6, FinInKeeps
  <2>. QED  BY <1>2, <1>6, <2>1 DEF n
<1>7. CASE unit # BodyOf(m, s) + 1
  <2>. DEFINE k == Data(SendAck(got, s), s, unit)
  <2>1. Kept(k)
    BY <1>3, <1>4, <1>5, <1>7, DataKeeps
  <2>. QED  BY <1>2, <1>7, <2>1 DEF n
<1>. QED  BY <1>6, <1>7

\* What a handler leaves is a machine of the invariant.
Keeps(m, n, p, h) == /\ n \in Machines /\ Fresh(n, p) /\ Behind(n, p)
                     /\ Single(m, p, h) => Single(n, p, h)

LEMMA QuietIsKept ==
    ASSUME NEW m \in Machines, NEW n, Quiet(m, n),
           NEW p, Fresh(m, p), Behind(m, p), NEW h \in Seq(Plays \X Nat)
    PROVE  Keeps(m, n, p, h)
<1>1. Calm(m, n) /\ n \in Machines
  BY DEF Quiet, Calm
<1>2. Fresh(n, p) /\ Behind(n, p)
  BY <1>1, CalmKeeps
<1>. QED  BY <1>1, <1>2, QuietKeeps DEF Keeps

LEMMA KeepsTrans ==
    ASSUME NEW m, NEW n, NEW k, NEW p, NEW h, Keeps(m, n, p, h), Keeps(n, k, p, h)
    PROVE  Keeps(m, k, p, h)
BY DEF Keeps

LEMMA InputKeeps ==
    ASSUME NEW m \in Machines, m.srv = srv, NEW s \in Plays, Alive(m.conns[s]),
           m.conns[s].state \notin {"ARP_WAIT", "SYN_SENT"},
           NEW unit, NEW level, NEW carried \in BOOLEAN, carried => unit < m.srv[s].sent,
           NEW p, Fresh(m, p), Behind(m, p), NEW h \in Seq(Plays \X Nat)
    PROVE  Keeps(m, Input(m, s, unit, level, carried), p, h)
<1>. DEFINE a == AckIn(m, s, level)
            n == Input(m, s, unit, level, carried)
<1>1. n = CASE a.conns[s].state = "CLOSED" -> a
            [] a.conns[s].state # "CLOSED" /\ unit # m.conns[s].rcv -> SendAck(a, s)
            [] a.conns[s].state # "CLOSED" /\ unit = m.conns[s].rcv ->
                  IF carried THEN InOrder(a, s, unit) ELSE a
  BY DEF Input
<1>2. \/ /\ Quiet(m, a) /\ a.conns[s].state # "CLOSED"
         /\ a.conns[s].state \in {m.conns[s].state, "LAST_ACK", "FIN_WAIT_1", "FIN_WAIT_2"}
      \/ /\ m.conns[s].state = "LAST_ACK" /\ a.conns[s].state = "CLOSED" /\ Ended(m, a, {s})
  BY AckInOutcome
<1>. HIDE DEF a, n
<1>3. CASE /\ Quiet(m, a) /\ a.conns[s].state # "CLOSED"
           /\ a.conns[s].state \in {m.conns[s].state, "LAST_ACK", "FIN_WAIT_1", "FIN_WAIT_2"}
  <2>1. Keeps(m, a, p, h)
    BY <1>3, QuietIsKept
  <2>2. /\ a \in Machines /\ Fresh(a, p) /\ Behind(a, p) /\ a.srv = m.srv
        /\ Alive(a.conns[s]) /\ a.conns[s].state \notin {"ARP_WAIT", "SYN_SENT"}
        /\ a.conns[s].rcv = m.conns[s].rcv
    BY <1>3, <2>1 DEF Keeps, Quiet, Calm, Silently
  <2>3. CASE unit # m.conns[s].rcv
    <3>1. n = SendAck(a, s)
      BY <1>1, <1>3, <2>3
    <3>2. Keeps(a, n, p, h)
      BY <2>2, <3>1, SendAckQuiet, QuietIsKept
    <3>. QED  BY <2>1, <3>2, KeepsTrans DEF n
  <2>4. CASE unit = m.conns[s].rcv /\ carried
    <3>1. n = InOrder(a, s, a.conns[s].rcv)
      BY <1>1, <1>3, <2>2, <2>4
    <3>2. a.conns[s].rcv < a.srv[s].sent
      BY <2>2, <2>4
    <3>3. Keeps(a, n, p, h)
      BY <2>2, <3>1, <3>2, InOrderKeeps DEF Keeps
    <3>. QED  BY <2>1, <3>3, KeepsTrans DEF n
  <2>5. CASE unit = m.conns[s].rcv /\ ~carried
    <3>1. n = a
      BY <1>1, <1>3, <2>5
    <3>. QED  BY <2>1, <3>1 DEF n
  <2>. QED  BY <2>3, <2>4, <2>5
<1>4. CASE m.conns[s].state = "LAST_ACK" /\ a.conns[s].state = "CLOSED" /\ Ended(m, a, {s})
  <2>1. n = a
    BY <1>1, <1>4
  <2>2. Single(m, p, h) => Finned(m.conns[p])
    BY <1>4 DEF Single, Finned
  <2>3. Keeps(m, a, p, h)
    BY <1>4, <2>2, EndedKeeps DEF Keeps, Ended
  <2>. QED  BY <2>1, <2>3 DEF n
<1>. QED  BY <1>2, <1>3, <1>4

LEMMA FailKeeps ==
    ASSUME NEW m \in Machines, m.srv = srv, NEW s \in Plays, Alive(m.conns[s]),
           Fresh(m, plays), Behind(m, plays), NEW h \in Seq(Plays \X Nat)
    PROVE  Keeps(m, Fail(m, s), plays, h)
<1>. DEFINE n == Fail(m, s)
<1>1. Ended(m, n, {s}) /\ (s = plays => n.broken)
  BY FailEnds
<1>. HIDE DEF n
<1>2. Single(m, plays, h) => n.broken
  BY <1>1 DEF Single
<1>3. Keeps(m, n, plays, h)
  BY <1>1, <1>2, EndedKeeps DEF Keeps, Ended
<1>. QED  BY <1>3 DEF n

--------------------------------------------------------------------------------
(* The timer.                                                              *)

LEMMA TickConnOutcome ==
    ASSUME NEW m \in Machines, m.srv = srv, NEW s \in Plays, Alive(m.conns[s]),
           NEW due \in BOOLEAN, NEW known \in BOOLEAN
    PROVE  LET n == TickConn(m, s, due, known)
           IN \/ Quiet(m, n) /\ n.conns[s].state # "CLOSED"
              \/ Ended(m, n, {s}) /\ n.conns[s].state = "CLOSED"
<1>. DEFINE c == m.conns[s]
            b == [c EXCEPT !.push = FALSE]
            calm == [m EXCEPT !.conns[s] = b]
            told == IF c.push /\ c.state \in Open THEN SendAck(calm, s) ELSE m
            d == [told.conns[s] EXCEPT !.retries = @ + 1]
            again == [told EXCEPT !.conns[s] = d]
            n == TickConn(m, s, due, known)
<1>1. /\ c \in Conn /\ b \in Conn /\ b.rcv = c.rcv /\ b.rwnd = c.rwnd /\ b.state = c.state
      /\ b.close_after = c.close_after /\ c.retries \in Nat /\ c.push \in BOOLEAN
  BY Parts DEF Conn
<1>2. calm = [m EXCEPT !.conns[s].push = FALSE]
  BY <1>1, Parts DEF Machines
<1>. HIDE DEF b
<1>3. /\ calm \in Machines /\ calm.conns[s] = b /\ OnlyAt(m, calm, s) /\ calm.aud = m.aud
      /\ calm.srv = m.srv /\ calm.broken = m.broken /\ calm.acks = m.acks
  BY <1>1, SetConn
<1>. HIDE DEF calm
<1>4. Quiet(m, calm) /\ Alive(calm.conns[s])
  <2>1. Silently(m, calm, s) /\ Alive(b)
    BY <1>1, <1>3 DEF Silently, Early, Finned, Alive
  <2>. QED  BY <1>1, <1>3, <2>1, QuietOne
<1>5. Quiet(calm, SendAck(calm, s)) /\ SendAck(calm, s).conns = calm.conns
  BY <1>3, <1>4, SendAckQuiet
<1>6. Quiet(m, m) /\ Quiet(m, SendAck(calm, s))
  BY <1>4, <1>5, QuietRefl, QuietTrans
<1>7. Quiet(m, told) /\ told.conns[s].state = c.state /\ told \in Machines /\ told.srv = m.srv
  <2>1. CASE c.push /\ c.state \in Open
    <3>1. told = SendAck(calm, s)
      BY <2>1
    <3>. HIDE DEF told, c
    <3>. QED  BY <1>1, <1>3, <1>5, <1>6, <3>1 DEF Quiet, Calm
  <2>2. CASE ~(c.push /\ c.state \in Open)
    <3>1. told = m
      BY <2>2
    <3>. HIDE DEF told
    <3>. QED  BY <1>6, <3>1
  <2>. QED  BY <2>1, <2>2
<1>8. n = CASE ~due -> told
            [] due /\ c.retries + 1 > MaxRetries -> Fail(told, s)
            [] due /\ c.retries + 1 <= MaxRetries /\ c.state = "ARP_WAIT" -> TryArp(again, s, known)
            [] OTHER -> again
  <2>1. told = IF c.push /\ c.state \in Open
               THEN SendAck([m EXCEPT !.conns[s].push = FALSE], s) ELSE m
    BY <1>2
  <2>2. again = [told EXCEPT !.conns[s].retries = @ + 1]
    <3>1. told.conns[s] \in Conn /\ told.conns \in [Plays -> Conn]
      BY <1>7, Parts
    <3>. HIDE DEF told
    <3>. QED  BY <1>7, <3>1 DEF Machines
  <2>. HIDE DEF again, told
  <2>. QED  BY <2>1, <2>2 DEF TickConn
<1>. HIDE DEF told, n
<1>9. Alive(told.conns[s]) /\ told.conns[s].state # "CLOSED"
  BY <1>7 DEF Alive
<1>10. /\ told.conns[s] \in Conn /\ d \in Conn /\ d.rcv = told.conns[s].rcv
       /\ d.rwnd = told.conns[s].rwnd /\ d.state = c.state
       /\ d.close_after = told.conns[s].close_after
  <2>1. told.conns[s] \in Conn
    BY <1>7, Parts
  <2>. DEFINE r == told.conns[s].retries + 1
  <2>2. r \in Nat
    BY <2>1 DEF Conn
  <2>3. d = [told.conns[s] EXCEPT !.retries = r]
    BY <2>1 DEF Conn
  <2>. HIDE DEF d, r
  <2>. QED  BY <1>7, <2>1, <2>2, <2>3 DEF Conn
<1>. HIDE DEF d
<1>11. /\ again \in Machines /\ again.conns[s] = d /\ OnlyAt(told, again, s)
       /\ again.aud = told.aud /\ again.srv = told.srv /\ again.broken = told.broken
       /\ again.acks = told.acks
  BY <1>7, <1>10, SetConn
<1>. HIDE DEF again
<1>12. Quiet(m, again) /\ again.conns[s].state # "CLOSED"
  <2>1. Silently(told, again, s) /\ Alive(d)
    BY <1>7, <1>9, <1>10, <1>11 DEF Silently, Early, Finned, Alive
  <2>2. Quiet(told, again)
    BY <1>7, <1>9, <1>10, <1>11, <2>1, QuietOne
  <2>. QED  BY <1>7, <1>11, <2>1, <2>2, QuietTrans DEF Alive
<1>13. CASE ~due
  <2>1. n = told
    BY <1>8, <1>13
  <2>. QED  BY <1>7, <1>9, <2>1 DEF n
<1>14. CASE due /\ c.retries + 1 > MaxRetries
  <2>1. n = Fail(told, s)
    <3>1. ~(c.retries + 1 <= MaxRetries)
      BY <1>1, <1>14, Marks
    <3>. HIDE DEF c
    <3>. QED  BY <1>8, <1>14, <3>1
  <2>2. Ended(told, n, {s}) /\ n.conns[s].state = "CLOSED"
    BY <1>7, <1>9, <2>1, FailEnds
  <2>. QED  BY <1>7, <2>2, QuietThenEnded DEF n
<1>15. CASE due /\ ~(c.retries + 1 > MaxRetries) /\ c.state = "ARP_WAIT"
  <2>1. n = TryArp(again, s, known)
    <3>1. c.retries + 1 <= MaxRetries
      BY <1>1, <1>15, Marks
    <3>. HIDE DEF c
    <3>. QED  BY <1>8, <1>15, <3>1
  <2>2. again.conns[s].state = "ARP_WAIT"
    BY <1>10, <1>11, <1>15
  <2>3. Quiet(again, n) /\ n.conns[s].state # "CLOSED"
    BY <1>11, <2>1, <2>2, TryArpQuiet
  <2>. QED  BY <1>12, <2>3, QuietTrans DEF n
<1>16. CASE due /\ ~(c.retries + 1 > MaxRetries) /\ c.state # "ARP_WAIT"
  <2>1. n = again
    BY <1>8, <1>16
  <2>. QED  BY <1>12, <2>1 DEF n
<1>. QED  BY <1>13, <1>14, <1>15, <1>16

\* aud_done, of a player whose streams are all gone.
LEMMA DonePlayer ==
    ASSUME NEW m \in Machines, NEW status
    PROVE  LET a == aud_done(m, status).aud
           IN /\ a \in Player /\ a.queue = m.aud.queue /\ a.eof /\ a.conn = NoPlay
              /\ a.state # "AUD_BUFFER" /\ (m.aud.state = "AUD_IDLE" => a.state = "AUD_IDLE")
<1>. DEFINE b == [m.aud EXCEPT !.eof = TRUE, !.conn = NoPlay,
                               !.state = IF @ # "AUD_BUFFER" THEN @
                                         ELSE IF Bytes(m) > 0 /\ status = 200 THEN "AUD_PLAY"
                                         ELSE "AUD_IDLE"]
<1>1. m.aud \in Player
  BY Parts DEF Machines
<1>2. /\ b \in Player /\ b.queue = m.aud.queue /\ b.eof /\ b.conn = NoPlay
      /\ b.state # "AUD_BUFFER" /\ (m.aud.state = "AUD_IDLE" => b.state = "AUD_IDLE")
  BY <1>1 DEF Player
<1>3. aud_done(m, status) = [m EXCEPT !.aud = b]
  BY DEF aud_done, Machines
<1>. HIDE DEF b
<1>4. aud_done(m, status).aud = b
  BY <1>3 DEF Machines
<1>. QED  BY <1>2, <1>4

\* A pass over the table is Quiet, or ends the player's stream.
LEMMA PassKeeps ==
    ASSUME Machine \in Machines, NEW due \in SUBSET Plays, NEW known \in BOOLEAN,
           Fresh(Machine, plays), Behind(Machine, plays), NEW h \in Seq(Plays \X Nat)
    PROVE  Keeps(Machine, Pass(due, known), plays, h)
<1>. DEFINE m == Machine
            turn == [s \in Plays |-> IF s \in Live(m) THEN TickConn(m, s, s \in due, known) ELSE m]
            ended == {s \in Live(m) : turn[s].conns[s].state = "CLOSED"}
            n == Pass(due, known)
<1>1. /\ n.conns = [s \in Plays |-> turn[s].conns[s]] /\ n.said = [s \in Plays |-> turn[s].said[s]]
      /\ n.acks = [s \in Plays |-> turn[s].acks[s]] /\ n.srv = [s \in Plays |-> turn[s].srv[s]]
      /\ n.aud = (IF ended = {} THEN aud ELSE aud_done(m, -1).aud)
      /\ n.broken = (broken \/ plays \in ended)
  BY DEF Pass
<1>2. n = [conns |-> n.conns, said |-> n.said, acks |-> n.acks, aud |-> n.aud, srv |-> n.srv,
           broken |-> n.broken]
  BY DEF Pass
<1>3. /\ m.conns = conns /\ m.said = said /\ m.acks = acks /\ m.aud = aud /\ m.srv = srv
      /\ m.broken = broken
  BY DEF Machine
<1>4. \A s \in Plays : s \in Live(m) <=> Alive(m.conns[s])
  BY DEF Live, Alive
<1>5. ASSUME NEW s \in Plays
      PROVE  \/ /\ s \notin ended /\ Quiet(m, turn[s])
             \/ /\ s \in ended /\ Ended(m, turn[s], {s})
  <2>1. CASE s \in Live(m)
    <3>. DEFINE k == TickConn(m, s, s \in due, known)
    <3>1. turn[s] = k
      BY <2>1
    <3>2. (s \in due) \in BOOLEAN /\ Alive(m.conns[s]) /\ m.srv = srv /\ m \in Machines
      BY <1>3, <1>4, <2>1
    <3>. HIDE DEF m
    <3>3. \/ Quiet(m, k) /\ k.conns[s].state # "CLOSED"
          \/ Ended(m, k, {s}) /\ k.conns[s].state = "CLOSED"
      BY <3>2, TickConnOutcome
    <3>4. s \in ended <=> k.conns[s].state = "CLOSED"
      BY <2>1, <3>1
    <3>. HIDE DEF k, turn, ended
    <3>. QED  BY <3>1, <3>3, <3>4
  <2>2. CASE s \notin Live(m)
    <3>1. turn[s] = m
      BY <2>2
    <3>. HIDE DEF m
    <3>. QED  BY <2>2, <3>1, QuietRefl DEF m
  <2>. QED  BY <2>1, <2>2
<1>6. ended \subseteq Plays
  BY DEF Live
<1>. HIDE DEF turn, ended, n, m
<1>7. m \in Machines
  BY DEF m
<1>8. \A s \in Plays : turn[s] \in Machines
  BY <1>5 DEF Quiet, Calm, Ended
<1>9. n \in Machines
  <2>1. ASSUME NEW s \in Plays
        PROVE  /\ turn[s].conns[s] \in Conn /\ turn[s].said[s] \in SUBSET Segments
               /\ turn[s].acks[s] \in SUBSET Ack /\ turn[s].srv[s] \in ServerSide
    BY <1>8, Parts
  <2>2. n.aud \in Player
    BY <1>1, <1>3, <1>7, Parts, DonePlayer DEF Machines
  <2>3. n.broken \in BOOLEAN
    BY <1>1
  <2>4. /\ n.conns \in [Plays -> Conn] /\ n.said \in [Plays -> SUBSET Segments]
        /\ n.acks \in [Plays -> SUBSET Ack] /\ n.srv \in [Plays -> ServerSide]
    BY <1>1, <2>1
  <2>. QED  BY <1>2, <2>2, <2>3, <2>4 DEF Machines
<1>10. \A s \in Plays : /\ n.conns[s] = turn[s].conns[s] /\ n.acks[s] = turn[s].acks[s]
                        /\ n.srv[s] = turn[s].srv[s]
  BY <1>1
<1>11. CASE ended = {}
  <2>1. \A s \in Plays : Quiet(m, turn[s])
    BY <1>5, <1>11
  <2>2. n.aud = m.aud
    BY <1>1, <1>3, <1>11
  <2>3. n.srv = m.srv
    <3>1. \A s \in Plays : n.srv[s] = m.srv[s]
      BY <1>10, <2>1 DEF Quiet, Calm
    <3>. QED  BY <1>7, <1>9, <3>1 DEF Machines
  <2>4. n.broken = m.broken
    <3>1. n.broken = (m.broken \/ plays \in ended)
      BY <1>1, <1>3
    <3>2. plays \notin ended /\ m.broken \in BOOLEAN
      BY <1>7, <1>11 DEF Machines
    <3>. QED  BY <3>1, <3>2
  <2>5. Quiet(m, n)
    <3>1. \A s \in Plays : Silently(m, n, s)
      BY <1>10, <2>1 DEF Quiet, Silently
    <3>2. Calm(m, n)
      BY <1>9, <1>10, <2>1, <2>2, <2>3, <2>4 DEF Quiet, Calm
    <3>. QED  BY <3>1, <3>2 DEF Quiet
  <2>. QED  BY <1>7, <2>5, QuietIsKept DEF n, m
<1>12. CASE ended # {}
  <2>1. /\ n.aud.queue = m.aud.queue /\ n.aud.eof /\ n.aud.conn = NoPlay
        /\ n.aud.state # "AUD_BUFFER" /\ (m.aud.state = "AUD_IDLE" => n.aud.state = "AUD_IDLE")
    BY <1>1, <1>7, <1>12, DonePlayer
  <2>2. ASSUME NEW s \in Plays
        PROVE  /\ s \in ended => Alive(m.conns[s]) /\ ~Alive(n.conns[s])
               /\ n.conns[s].state = "unused" <=> m.conns[s].state = "unused"
               /\ s \notin ended => (Alive(n.conns[s]) <=> Alive(m.conns[s]))
               /\ ~Alive(m.conns[s]) => n.acks[s] = m.acks[s] /\ n.srv[s] = m.srv[s]
               /\ n.srv[s].status = m.srv[s].status
    <3>1. CASE s \in ended
      BY <1>5, <1>10, <3>1 DEF Quiet, Calm, Ended
    <3>2. CASE s \notin ended
      BY <1>5, <1>10, <3>2 DEF Quiet, Calm
    <3>. QED  BY <3>1, <3>2
  <2>3. Ended(m, n, ended)
    BY <1>6, <1>9, <1>12, <2>1, <2>2 DEF Ended
  <2>4. ASSUME Single(m, plays, h) PROVE n.broken
    <3>1. PICK s \in ended : TRUE
      BY <1>12
    <3>2. s = plays
      BY <1>6, <2>2, <2>4, <3>1 DEF Single
    <3>3. n.broken = (m.broken \/ plays \in ended)
      BY <1>1, <1>3
    <3>. QED  BY <3>1, <3>2, <3>3
  <2>5. Keeps(m, n, plays, h)
    BY <1>7, <1>9, <2>3, <2>4, EndedKeeps DEF Keeps, m
  <2>. QED  BY <2>5 DEF n, m
<1>. QED  BY <1>11, <1>12

--------------------------------------------------------------------------------
(* The steps.                                                              *)

LEMMA Init_IInv == Init => IInv
<1>. SUFFICES ASSUME Init PROVE IInv
  OBVIOUS
<1>. DEFINE m == Machine
<1>1. NewConn("unused") \in Conn
  BY NewConnTyped DEF TcpStates
<1>2. NewServer \in ServerSide
  BY DEF NewServer, ServerSide, Segments, Statuses
<1>3. <<>> \in Seq(Plays \X Nat) /\ Len(<<>>) = 0
  BY EmptySeq
<1>4. Silent \in Player
  BY <1>3 DEF Silent, Player
<1>5. /\ m.conns = [s \in Plays |-> NewConn("unused")] /\ m.said = [s \in Plays |-> {}]
      /\ m.acks = [s \in Plays |-> {}] /\ m.aud = Silent
      /\ m.srv = [s \in Plays |-> NewServer] /\ m.broken = FALSE
  BY DEF Init, Machine
<1>6. m \in Machines
  <2>. DEFINE C == [s \in Plays |-> NewConn("unused")]
              S == [s \in Plays |-> NewServer]
              E == [s \in Plays |-> {}]
  <2>1. C \in [Plays -> Conn] /\ S \in [Plays -> ServerSide] /\ E \in [Plays -> SUBSET Segments]
        /\ E \in [Plays -> SUBSET Ack]
    BY <1>1, <1>2
  <2>2. m = [conns |-> C, said |-> E, acks |-> E, aud |-> Silent, srv |-> S, broken |-> FALSE]
    BY DEF Init, Machine
  <2>. HIDE DEF C, S, E
  <2>. QED  BY <1>4, <2>1, <2>2 DEF Machines
<1>7. plays = 0 /\ fed = <<>>
  BY DEF Init
<1>8. Typed
  BY <1>3, <1>6, <1>7 DEF Typed, NoPlay
<1>9. \A s \in Plays : m.conns[s].state = "unused" /\ ~Alive(m.conns[s])
  BY <1>5, NewConnTyped DEF TcpStates, Alive
<1>10. m.aud.state = "AUD_IDLE" /\ m.aud.conn = NoPlay /\ m.aud.queue = <<>>
  BY <1>5 DEF Silent
<1>. HIDE DEF m
<1>11. Fresh(m, plays)
  BY <1>5, <1>7, <1>9, Marks DEF Fresh
<1>12. Behind(m, plays)
  BY <1>10 DEF Behind
<1>13. Single(m, plays, fed)
  <2>1. <<>> \o <<>> = <<>>
    BY <1>3, ConcatEmptySeq
  <2>2. Len(<<>> \o <<>>) = 0
    BY <1>3, <2>1
  <2>3. 1 .. 0 = {}
    OBVIOUS
  <2>. QED  BY <1>3, <1>7, <1>9, <1>10, <2>2, <2>3, Marks DEF Single
<1>. QED  BY <1>8, <1>11, <1>12, <1>13 DEF IInv, m

LEMMA LeaveIs ==
    ASSUME NEW n \in Machines, Leave(n)
    PROVE  Machine' = n
<1>1. n = [conns |-> n.conns, said |-> n.said, acks |-> n.acks, aud |-> n.aud, srv |-> n.srv,
           broken |-> n.broken]
  BY DEF Machines
<1>. QED  BY <1>1 DEF Leave, Machine

LEMMA KeptStep ==
    ASSUME IInv, NEW n, Leave(n), UNCHANGED <<plays, fed, crossed>>,
           Keeps(Machine, n, plays, fed)
    PROVE  IInv'
<1>1. n \in Machines /\ Machine' = n /\ plays' = plays /\ fed' = fed /\ crossed' = crossed
  BY LeaveIs DEF Keeps
<1>2. Typed'
  BY <1>1 DEF Typed, IInv
<1>. HIDE DEF Machine
<1>3. Fresh(Machine', plays') /\ Behind(Machine', plays')
  BY <1>1 DEF Keeps
<1>4. ~crossed' => Single(Machine', plays', fed')
  BY <1>1 DEF Keeps, IInv
<1>. QED  BY <1>2, <1>3, <1>4 DEF IInv

\* What every step starts from.
LEMMA Start ==
    ASSUME IInv
    PROVE  /\ Machine \in Machines /\ Machine.srv = srv /\ Machine.conns = conns
           /\ Machine.acks = acks /\ Machine.said = said /\ Machine.aud = aud
           /\ Machine.broken = broken /\ fed \in Seq(Plays \X Nat)
           /\ plays \in Plays \cup {NoPlay} /\ plays \in Nat
           /\ Fresh(Machine, plays) /\ Behind(Machine, plays)
BY Marks DEF IInv, Typed, Machine

LEMMA SynAckStep ==
    ASSUME IInv, NEW s \in Plays, RxSynAck(s)
    PROVE  IInv'
<1>. DEFINE m == Machine
            c == [m.conns[s] EXCEPT !.state = "ESTAB", !.unacked = None]
            up == [m EXCEPT !.conns[s] = c]
            a == SendAck(up, s)
            n == Connected(a, s)
<1>1. /\ m \in Machines /\ m.conns[s] \in Conn /\ m.conns[s].state = "SYN_SENT"
      /\ Fresh(m, plays) /\ Behind(m, plays) /\ fed \in Seq(Plays \X Nat)
  BY Start, Parts DEF RxSynAck
<1>2. Leave(n) /\ UNCHANGED <<plays, fed, crossed>>
  <2>1. up = [m EXCEPT !.conns[s].state = "ESTAB", !.conns[s].unacked = None]
    <3>. HIDE DEF m
    <3>. QED  BY <1>1, Parts DEF Machines
  <2>. HIDE DEF up
  <2>. QED  BY <2>1 DEF RxSynAck
<1>. HIDE DEF m
<1>3. /\ c \in Conn /\ c.state = "ESTAB" /\ c.rcv = m.conns[s].rcv /\ c.rwnd = m.conns[s].rwnd
      /\ c.close_after = m.conns[s].close_after
  BY <1>1 DEF Conn, TcpStates, Segments
<1>. HIDE DEF c
<1>4. /\ up \in Machines /\ up.conns[s] = c /\ OnlyAt(m, up, s) /\ up.aud = m.aud
      /\ up.srv = m.srv /\ up.broken = m.broken /\ up.acks = m.acks
  BY <1>1, <1>3, SetConn
<1>. HIDE DEF up
<1>5. Quiet(m, up) /\ Alive(up.conns[s])
  <2>1. Silently(m, up, s) /\ Alive(c) /\ Alive(m.conns[s])
    BY <1>1, <1>3, <1>4 DEF Silently, Early, Finned, Alive
  <2>. QED  BY <1>1, <1>3, <1>4, <2>1, QuietOne
<1>6. Quiet(up, a) /\ a.conns[s] = c /\ a \in Machines
  <2>1. Quiet(up, a) /\ a.conns[s] = c
    BY <1>4, <1>5, SendAckQuiet
  <2>. QED  BY <2>1 DEF Quiet, Calm
<1>. HIDE DEF a
<1>7. Quiet(a, n)
  BY <1>3, <1>6, SendRelQuiet DEF Connected, Segments, Alive
<1>8. Quiet(m, n)
  BY <1>5, <1>6, <1>7, QuietTrans
<1>. HIDE DEF n
<1>9. Keeps(m, n, plays, fed)
  BY <1>1, <1>8, QuietIsKept
<1>. QED  BY <1>2, <1>9, KeptStep DEF m

LEMMA RxStep ==
    ASSUME IInv, NEW s \in Plays, Rx(s)
    PROVE  IInv'
<1>1. PICK unit \in {0, conns[s].rcv, srv[s].sent}, level \in SYN .. srv[s].heard,
           carried \in BOOLEAN :
         /\ carried => unit < srv[s].sent /\ level >= Request
         /\ Leave(Input(Machine, s, unit, level, carried))
  BY DEF Rx
<1>2. /\ Alive(Machine.conns[s]) /\ Machine.conns[s].state \notin {"ARP_WAIT", "SYN_SENT"}
      /\ UNCHANGED <<plays, fed, crossed>>
  BY DEF Rx, Live, Alive, Machine
<1>3. /\ Machine \in Machines /\ Machine.srv = srv /\ fed \in Seq(Plays \X Nat)
      /\ Fresh(Machine, plays) /\ Behind(Machine, plays)
  BY Start
<1>. DEFINE m == Machine
            n == Input(m, s, unit, level, carried)
<1>. HIDE DEF m
<1>4. Keeps(m, n, plays, fed)
  <2>1. carried => unit < m.srv[s].sent
    BY <1>1, <1>3 DEF m
  <2>. QED  BY <1>2, <1>3, <2>1, InputKeeps DEF m
<1>. HIDE DEF n
<1>. QED  BY <1>1, <1>2, <1>4, KeptStep DEF m, n

LEMMA ResetStep ==
    ASSUME IInv, NEW s \in Plays, RxReset(s)
    PROVE  IInv'
<1>1. Alive(Machine.conns[s]) /\ Leave(Fail(Machine, s)) /\ UNCHANGED <<plays, fed, crossed>>
  BY DEF RxReset, Live, Alive, Machine
<1>2. Keeps(Machine, Fail(Machine, s), plays, fed)
  <2>1. /\ Machine \in Machines /\ Machine.srv = srv /\ fed \in Seq(Plays \X Nat)
        /\ Fresh(Machine, plays) /\ Behind(Machine, plays)
    BY Start
  <2>. DEFINE m == Machine
  <2>2. Alive(m.conns[s])
    BY <1>1
  <2>. HIDE DEF m
  <2>. QED  BY <2>1, <2>2, FailKeeps DEF m
<1>. QED  BY <1>1, <1>2, KeptStep

LEMMA TickStep ==
    ASSUME IInv, Tick
    PROVE  IInv'
<1>1. PICK due \in SUBSET Waiting, known \in BOOLEAN : Leave(Pass(due, known))
  BY DEF Tick
<1>2. UNCHANGED <<plays, fed, crossed>> /\ due \in SUBSET Plays
  BY DEF Tick, Waiting
<1>3. Keeps(Machine, Pass(due, known), plays, fed)
  BY <1>2, Start, PassKeeps
<1>. QED  BY <1>1, <1>2, <1>3, KeptStep

\* The codec takes a unit, and perhaps the window opens.
LEMMA FeedStep ==
    ASSUME IInv, Feed
    PROVE  IInv'
<1>. DEFINE m == Machine
            Q == m.aud.queue
            b == [m.aud EXCEPT !.queue = Tail(Q)]
            took == [m EXCEPT !.aud = b]
            opens == m.aud.conn # NoPlay /\ m.conns[m.aud.conn].rwnd = 0 /\ Bytes(took) < AUDIO_BUF_LOW
            n == IF opens THEN tcp_set_rwnd(took, m.aud.conn, AUDIO_WND) ELSE took
            p == plays
            S == Plays \X Nat
<1>1. /\ m \in Machines /\ m.aud \in Player /\ Q \in Seq(S) /\ fed \in Seq(S)
      /\ Fresh(m, p) /\ Behind(m, p) /\ m.aud = aud /\ m.conns = conns
      /\ p \in Plays \cup {NoPlay}
  BY Start, Parts DEF Machines, Player
<1>2. /\ m.aud.state = "AUD_PLAY" /\ Q # <<>> /\ plays' = plays /\ crossed' = crossed
      /\ fed' = IF crossed THEN fed ELSE Append(fed, Head(Q))
      /\ Leave(n)
  <2>1. took = [m EXCEPT !.aud.queue = Tail(@)]
    <3>. HIDE DEF m
    <3>. QED  BY <1>1 DEF Machines
  <2>. HIDE DEF took
  <2>. QED  BY <1>1, <2>1 DEF Feed
<1>. HIDE DEF m, S
<1>3. /\ Tail(Q) \in Seq(S) /\ Head(Q) \in S /\ Len(Tail(Q)) = Len(Q) - 1
      /\ Len(Q) \in Nat /\ Len(Tail(Q)) \in Nat
  BY <1>1, <1>2, HeadTailProperties, LenProperties
<1>4. /\ b \in Player /\ b.queue = Tail(Q) /\ b.state = "AUD_PLAY" /\ b.conn = m.aud.conn
      /\ b.eof = m.aud.eof
  BY <1>1, <1>2, <1>3 DEF Player, S
<1>. HIDE DEF b
<1>5. /\ took \in Machines /\ took.aud = b /\ took.conns = m.conns /\ took.acks = m.acks
      /\ took.srv = m.srv /\ took.broken = m.broken
  BY <1>1, <1>4 DEF Machines
<1>6. Bytes(took) = Len(Tail(Q))
  BY <1>4, <1>5 DEF Bytes
<1>. HIDE DEF took
<1>7. m.aud.conn # NoPlay => p \in Plays /\ m.aud.conn = p /\ Alive(m.conns[p]) /\ ~m.aud.eof
  BY <1>1, ConnIsPlay DEF Behind
<1>8. /\ n \in Machines /\ n.aud = b /\ n.acks = m.acks /\ n.srv = m.srv /\ n.broken = m.broken
      /\ opens => n.conns[p].rwnd = AUDIO_WND
      /\ ~opens => n.conns = m.conns
      /\ \A s \in Plays : /\ n.conns[s].state = m.conns[s].state
                          /\ n.conns[s].rcv = m.conns[s].rcv
                          /\ n.conns[s].close_after = m.conns[s].close_after
  <2>1. CASE opens
    <3>. DEFINE k == tcp_set_rwnd(took, p, AUDIO_WND)
    <3>1. n = k /\ p \in Plays
      BY <1>7, <2>1
    <3>2. /\ k \in Machines /\ OnlyAt(took, k, p) /\ k.conns[p].rwnd = AUDIO_WND
          /\ k.conns[p].state = took.conns[p].state /\ k.conns[p].rcv = took.conns[p].rcv
          /\ k.conns[p].close_after = took.conns[p].close_after
          /\ k.acks = took.acks /\ k.aud = took.aud /\ k.srv = took.srv /\ k.broken = took.broken
      <4>1. AUDIO_WND \in Nat /\ p \in Plays
        BY <3>1, Marks
      <4>. HIDE DEF p
      <4>. QED  BY <1>5, <4>1, SetRwnd
    <3>. HIDE DEF k, n, opens
    <3>3. \A s \in Plays \ {p} : k.conns[s] = m.conns[s]
      BY <1>5, <3>1, <3>2 DEF OnlyAt, Machines
    <3>. QED  BY <1>5, <2>1, <3>1, <3>2, <3>3
  <2>2. CASE ~opens
    <3>1. n = took
      BY <2>2
    <3>. HIDE DEF n, opens
    <3>. QED  BY <1>5, <2>2, <3>1
  <2>. QED  BY <2>1, <2>2
<1>9. opens => m.conns[p].rwnd = 0 /\ m.aud.conn # NoPlay /\ Len(Tail(Q)) < AUDIO_BUF_LOW
  BY <1>6, <1>7
<1>10. m.aud.conn # NoPlay /\ n.conns[p].rwnd = 0 => Len(Tail(Q)) >= AUDIO_BUF_LOW
  <2>1. CASE opens
    BY <1>8, <2>1, Marks
  <2>2. ASSUME ~opens, m.aud.conn # NoPlay, n.conns[p].rwnd = 0
        PROVE  Len(Tail(Q)) >= AUDIO_BUF_LOW
    <3>1. ~(Len(Tail(Q)) < AUDIO_BUF_LOW)
      BY <1>6, <1>7, <1>8, <2>2
    <3>. QED  BY <1>3, <3>1, Marks
  <2>. QED  BY <2>1, <2>2
<1>. HIDE DEF n, opens
<1>11. Behind(n, p)
  BY <1>1, <1>2, <1>4, <1>7, <1>8, <1>10 DEF Behind, Alive
<1>12. Fresh(n, p)
  BY <1>1, <1>8 DEF Fresh
<1>13. fed' \in Seq(S)
  BY <1>1, <1>2, <1>3, AppendProperties
<1>14. ASSUME ~crossed PROVE Single(n, p, fed')
  <2>1. Single(m, p, fed)
    BY <1>14 DEF IInv, m
  <2>2. fed' \o Tail(Q) = fed \o Q
    BY <1>1, <1>2, <1>14, HeardMoves
  <2>3. Len(fed \o Q) \in Nat
    BY <1>1, ConcatProperties, LenProperties
  <2>4. ASSUME m.aud.conn # NoPlay PROVE Account(n, p, Len(fed \o Q))
    <3>. DEFINE c == m.conns[p]
                d == n.conns[p]
                q == Len(Q)
                r == Len(Tail(Q))
    <3>1. p \in Plays /\ Account(m, p, Len(fed \o Q))
      BY <1>7, <2>1, <2>4 DEF Single
    <3>2. /\ Early(d) <=> Early(c)
          /\ Finned(d) <=> Finned(c)
          /\ d.rcv = c.rcv /\ c.rcv \in Nat /\ BodyOf(n, p) = BodyOf(m, p)
      BY <1>1, <1>8, <3>1, Parts DEF Early, Finned, BodyOf, Conn
    <3>3. c.rwnd \in {0, AUDIO_WND} /\ (c.rwnd # 0 => q <= AUDIO_BUF_HIGH)
      BY <3>1 DEF Account
    <3>4. d.rwnd \in {0, AUDIO_WND} /\ (d.rwnd # 0 => r <= AUDIO_BUF_HIGH)
      <4>1. CASE opens
        BY <1>3, <1>8, <1>9, <4>1, Marks
      <4>2. CASE ~opens
        BY <1>3, <1>8, <3>3, <4>2, Marks
      <4>. QED  BY <4>1, <4>2
    <3>5. d.rwnd = 0 => c.rwnd = 0
      <4>1. CASE opens
        BY <1>9, <4>1
      <4>2. CASE ~opens
        BY <1>8, <4>2
      <4>. QED  BY <4>1, <4>2
    <3>6. ASSUME NEW e \in Edges(n, p)
          PROVE  /\ e <= c.rcv + AUDIO_WND
                 /\ d.rwnd = 0 => e + r <= c.rcv + AUDIO_BUF_HIGH + 1 + AUDIO_WND
      <4>1. e \in Edges(m, p)
        BY <1>8 DEF Edges
      <4>2. e \in Nat
        <5>1. m.acks[p] \subseteq Ack /\ m.srv[p] \in ServerSide
          BY <1>1, <3>1, Parts
        <5>. QED  BY <4>1, <5>1 DEF Edges, Ack, ServerSide
      <4>3. /\ e <= c.rcv + AUDIO_WND
            /\ c.rwnd = 0 => e + q <= c.rcv + AUDIO_BUF_HIGH + 1 + AUDIO_WND
        BY <3>1, <4>1 DEF Account
      <4>. HIDE DEF c, d, q, r
      <4>4. q \in Nat /\ r = q - 1
        BY <1>3 DEF q, r
      <4>. QED  BY <3>2, <3>5, <4>2, <4>3, <4>4, Marks
    <3>7. /\ Early(c) \/ Finned(c)
          /\ c.rcv <= m.srv[p].sent /\ m.srv[p].sent <= BodyOf(m, p) + 2
          /\ Early(c) => c.rcv <= BodyOf(m, p) + 1
                         /\ Len(fed \o Q) = IF c.rcv = 0 THEN 0 ELSE c.rcv - 1
          /\ Finned(c) => c.rcv = BodyOf(m, p) + 2 /\ Len(fed \o Q) = BodyOf(m, p)
      BY <3>1 DEF Account
    <3>8. n.aud.queue = Tail(Q) /\ n.srv = m.srv
      BY <1>4, <1>8
    <3>. QED  BY <3>2, <3>4, <3>6, <3>7, <3>8 DEF Account
  <2>5. /\ \A s \in Plays : Alive(n.conns[s]) <=> Alive(m.conns[s])
        /\ BodyOf(n, p) = BodyOf(m, p)
    BY <1>8 DEF Alive, BodyOf
  <2>6. Len(Tail(Q)) <= AUDIO_MAX_BUF
    <3>1. Len(Q) <= AUDIO_MAX_BUF
      BY <2>1 DEF Single
    <3>. QED  BY <1>3, <3>1, Marks
  <2>. QED  BY <1>2, <1>4, <1>8, <2>1, <2>2, <2>4, <2>5, <2>6 DEF Single
<1>15. Machine' = n
  BY <1>2, <1>8, LeaveIs
<1>16. Typed'
  <2>1. n \in Machines
    BY <1>8
  <2>. QED  BY <1>1, <1>2, <1>13, <1>15, <2>1 DEF Typed, S
<1>17. Fresh(Machine', plays') /\ Behind(Machine', plays')
  BY <1>2, <1>11, <1>12, <1>15
<1>18. ~crossed' => Single(Machine', plays', fed')
  BY <1>2, <1>14, <1>15
<1>. QED  BY <1>16, <1>17, <1>18 DEF IInv

LEMMA PlayedOutStep ==
    ASSUME IInv, PlayedOut
    PROVE  IInv'
<1>. DEFINE m == Machine
            b == [m.aud EXCEPT !.state = "AUD_IDLE"]
            n == [m EXCEPT !.aud = b]
            p == plays
<1>1. /\ m \in Machines /\ m.aud \in Player /\ fed \in Seq(Plays \X Nat)
      /\ Fresh(m, p) /\ Behind(m, p)
  BY Start, Parts DEF Machines
<1>2. /\ m.aud.state = "AUD_PLAY" /\ m.aud.eof /\ UNCHANGED <<plays, fed, crossed>>
  BY DEF PlayedOut, Machine
<1>3. Leave(n)
  <2>1. /\ n.conns = conns /\ n.said = said /\ n.acks = acks /\ n.srv = srv /\ n.broken = broken
        /\ n.aud = [aud EXCEPT !.state = "AUD_IDLE"]
    BY DEF Machine
  <2>2. /\ conns' = conns /\ said' = said /\ acks' = acks /\ srv' = srv /\ broken' = broken
        /\ aud' = [aud EXCEPT !.state = "AUD_IDLE"]
    BY DEF PlayedOut
  <2>. HIDE DEF n
  <2>3. conns' = n.conns /\ said' = n.said /\ acks' = n.acks /\ srv' = n.srv /\ aud' = n.aud
    BY <2>1, <2>2
  <2>4. broken' = n.broken
    BY <2>1, <2>2, Zenon
  <2>. QED  BY <2>3, <2>4 DEF Leave
<1>. HIDE DEF m
<1>4. /\ b \in Player /\ b.state = "AUD_IDLE" /\ b.queue = m.aud.queue /\ b.conn = m.aud.conn
      /\ b.eof = m.aud.eof
  BY <1>1 DEF Player
<1>. HIDE DEF b
<1>5. /\ n \in Machines /\ n.aud = b /\ n.conns = m.conns /\ n.acks = m.acks /\ n.srv = m.srv
      /\ n.broken = m.broken
  BY <1>1, <1>4 DEF Machines
<1>. HIDE DEF n
<1>6. m.aud.conn = NoPlay
  BY <1>1, <1>2 DEF Behind
<1>7. Fresh(n, p) /\ Behind(n, p)
  BY <1>1, <1>4, <1>5, <1>6 DEF Fresh, Behind
<1>8. ASSUME Single(m, p, fed) PROVE Single(n, p, fed)
  BY <1>4, <1>5, <1>6, <1>8 DEF Single
<1>9. Keeps(m, n, p, fed)
  BY <1>5, <1>7, <1>8 DEF Keeps
<1>. QED  BY <1>2, <1>3, <1>9, KeptStep DEF m

\* audio_stop leaves a player that is silent.
LEMMA StopKeeps ==
    ASSUME NEW m \in Machines, NEW p, Fresh(m, p), Behind(m, p), NEW h \in Seq(Plays \X Nat)
    PROVE  LET n == audio_stop(m)
           IN /\ Keeps(m, n, p, h) /\ n.aud = Silent /\ n.srv = m.srv
              /\ \A s \in Plays : /\ Alive(n.conns[s]) <=> Alive(m.conns[s])
                                  /\ ~Alive(m.conns[s]) => n.acks[s] = m.acks[s]
<1>. DEFINE b == [m.aud EXCEPT !.state = "AUD_IDLE"]
            idle == [m EXCEPT !.aud = b]
            off == IF m.aud.state = "AUD_IDLE" THEN m ELSE DropConn(idle)
            n == audio_stop(m)
            S == Plays \X Nat
<1>1. m.aud \in Player /\ m.aud.queue \in Seq(S) /\ <<>> \in Seq(S) /\ Len(<<>>) = 0
  BY Parts, EmptySeq DEF Machines, Player
<1>. HIDE DEF S
<1>2. n = [off EXCEPT !.aud.queue = <<>>, !.aud.eof = FALSE]
  <2>1. idle = [m EXCEPT !.aud.state = "AUD_IDLE"]
    BY <1>1 DEF Machines
  <2>. HIDE DEF idle
  <2>. QED  BY <2>1 DEF audio_stop
<1>3. b \in Player /\ b.state = "AUD_IDLE" /\ b.conn = m.aud.conn
  BY <1>1 DEF Player
<1>. HIDE DEF b, n
<1>4. /\ idle \in Machines /\ idle.aud = b /\ idle.conns = m.conns /\ idle.acks = m.acks
      /\ idle.srv = m.srv /\ idle.broken = m.broken
  BY <1>3 DEF Machines
<1>. HIDE DEF idle
<1>5. /\ off \in Machines /\ off.aud.state = "AUD_IDLE" /\ off.aud.conn = NoPlay
      /\ off.srv = m.srv /\ off.broken = m.broken
      /\ \A s \in Plays :
            /\ Alive(off.conns[s]) <=> Alive(m.conns[s])
            /\ off.conns[s].state = "unused" <=> m.conns[s].state = "unused"
            /\ ~Alive(m.conns[s]) => off.acks[s] = m.acks[s]
  <2>1. CASE m.aud.state = "AUD_IDLE"
    BY <2>1 DEF Behind
  <2>2. CASE m.aud.state # "AUD_IDLE"
    <3>. DEFINE k == [DropConn(idle) EXCEPT !.aud = idle.aud]
    <3>1. idle.aud.conn # NoPlay => Alive(idle.conns[idle.aud.conn])
      BY <1>3, <1>4 DEF Behind
    <3>2. /\ Calm(idle, k) /\ DropConn(idle) \in Machines
          /\ DropConn(idle).aud = [b EXCEPT !.conn = NoPlay]
          /\ DropConn(idle).conns = k.conns /\ DropConn(idle).acks = k.acks
          /\ DropConn(idle).srv = k.srv /\ DropConn(idle).broken = k.broken
      BY <1>4, <3>1, DropConnLeaves
    <3>. HIDE DEF k
    <3>3. off = DropConn(idle)
      BY <2>2
    <3>. HIDE DEF off
    <3>. QED  BY <1>3, <1>4, <3>2, <3>3 DEF Calm, Player
  <2>. QED  BY <2>1, <2>2
<1>. HIDE DEF off
<1>6. off.aud \in Player
  BY <1>5, Parts DEF Machines
<1>7. Silent \in Player
  BY <1>1 DEF Silent, Player, S
<1>8. n = [off EXCEPT !.aud = Silent]
  <2>1. [off.aud EXCEPT !.queue = <<>>, !.eof = FALSE] = Silent
    <3>. DEFINE a == off.aud
    <3>1. a \in Player /\ a.state = "AUD_IDLE" /\ a.conn = NoPlay
      BY <1>5, <1>6
    <3>. DEFINE e == [a EXCEPT !.queue = <<>>, !.eof = FALSE]
    <3>. HIDE DEF a
    <3>2. /\ e \in Player /\ e.state = "AUD_IDLE" /\ e.conn = NoPlay /\ e.queue = <<>>
          /\ e.eof = FALSE
      BY <1>1, <3>1 DEF Player, S
    <3>. HIDE DEF e
    <3>3. e = [state |-> e.state, queue |-> e.queue, eof |-> e.eof, conn |-> e.conn]
      BY <3>2 DEF Player
    <3>4. Silent = [state |-> "AUD_IDLE", queue |-> <<>>, eof |-> FALSE, conn |-> NoPlay]
      BY DEF Silent
    <3>5. e = Silent
      BY <3>2, <3>3, <3>4
    <3>. QED  BY <3>5 DEF a, e
  <2>2. n = [off EXCEPT !.aud = [off.aud EXCEPT !.queue = <<>>, !.eof = FALSE]]
    BY <1>2, <1>5 DEF Machines
  <2>. QED  BY <2>1, <2>2
<1>9. /\ n \in Machines /\ n.aud = Silent /\ n.conns = off.conns /\ n.acks = off.acks
      /\ n.srv = off.srv /\ n.broken = off.broken
  BY <1>5, <1>7, <1>8 DEF Machines
<1>10. Silent.state = "AUD_IDLE" /\ Silent.conn = NoPlay /\ Silent.queue = <<>>
  BY DEF Silent
<1>. HIDE DEF n
<1>11. Fresh(n, p)
  BY <1>5, <1>9 DEF Fresh, Alive
<1>12. Behind(n, p)
  BY <1>9, <1>10 DEF Behind
<1>13. ASSUME Single(m, p, h) PROVE Single(n, p, h)
  <2>1. h \in Seq(S)
    BY DEF S
  <2>2. /\ h \o <<>> = h /\ Len(h) \in Nat /\ Len(h) <= Len(h \o m.aud.queue)
        /\ \A i \in 1 .. Len(h) : (h \o m.aud.queue)[i] = h[i]
    BY <1>1, <2>1, ConcatEmptySeq, ConcatProperties, LenProperties
  <2>3. \A i \in 1 .. Len(h) : h[i] = <<p, i>>
    <3>1. \A i \in 1 .. Len(h \o m.aud.queue) : (h \o m.aud.queue)[i] = <<p, i>>
      BY <1>13 DEF Single
    <3>2. Len(h \o m.aud.queue) \in Nat
      BY <1>1, <2>1, ConcatProperties, LenProperties
    <3>3. \A i \in 1 .. Len(h) : i \in 1 .. Len(h \o m.aud.queue)
      BY <2>2, <3>2
    <3>. QED  BY <2>2, <3>1, <3>3
  <2>4. \A s \in Plays : Alive(n.conns[s]) => s = p
    BY <1>5, <1>9, <1>13 DEF Single
  <2>. QED  BY <1>1, <1>9, <1>10, <2>2, <2>3, <2>4, Marks DEF Single
<1>14. Keeps(m, n, p, h)
  BY <1>9, <1>11, <1>12, <1>13 DEF Keeps
<1>. QED  BY <1>5, <1>9, <1>14 DEF n

LEMMA StopStep ==
    ASSUME IInv, Stop
    PROVE  IInv'
<1>1. Leave(audio_stop(Machine)) /\ UNCHANGED <<plays, fed, crossed>>
  BY DEF Stop
<1>2. Keeps(Machine, audio_stop(Machine), plays, fed)
  BY Start, StopKeeps
<1>. QED  BY <1>1, <1>2, KeptStep

\* A play stops what there was and opens a connection of its own.
LEMMA PlayStep ==
    ASSUME IInv, audio_play
    PROVE  IInv'
<1>. DEFINE m == Machine
            s == plays + 1
            S == Plays \X Nat
            off == audio_stop(m)
            c == NewConn("ARP_WAIT")
            b == [Silent EXCEPT !.state = "AUD_BUFFER"]
            made == [off EXCEPT !.aud = b, !.conns[s] = c]
            z == [b EXCEPT !.conn = s]
<1>1. /\ m \in Machines /\ Fresh(m, plays) /\ Behind(m, plays) /\ fed \in Seq(S) /\ plays \in Nat
      /\ Live(Machine) = {t \in Plays : Alive(m.conns[t])}
  BY Start DEF Live, Alive
<1>2. PICK known \in BOOLEAN :
         Leave(tcp_set_rwnd([TryArp([off EXCEPT !.aud.state = "AUD_BUFFER", !.conns[s] = c], s, known)
                               EXCEPT !.aud.conn = s, !.broken = FALSE], s, AUDIO_WND))
  BY DEF audio_play
<1>3. /\ s \in Plays /\ plays' = s /\ fed' = <<>>
      /\ crossed' = (crossed \/ Live(Machine) # {})
  BY DEF audio_play
<1>. HIDE DEF m
<1>4. /\ Keeps(m, off, plays, fed) /\ off.aud = Silent /\ off.srv = m.srv
      /\ \A t \in Plays : /\ Alive(off.conns[t]) <=> Alive(m.conns[t])
                          /\ ~Alive(m.conns[t]) => off.acks[t] = m.acks[t]
  BY <1>1, StopKeeps DEF S
<1>. HIDE DEF off
<1>5. off \in Machines /\ Fresh(off, plays)
  BY <1>4 DEF Keeps
<1>6. /\ c \in Conn /\ c.state = "ARP_WAIT" /\ c.rcv = 0 /\ c.close_after = FALSE
  BY NewConnTyped DEF TcpStates
<1>7. <<>> \in Seq(S) /\ Len(<<>>) = 0
  BY EmptySeq
<1>8. /\ b \in Player /\ b.state = "AUD_BUFFER" /\ b.queue = <<>> /\ b.eof = FALSE
      /\ b.conn = NoPlay /\ z \in Player /\ z.state = "AUD_BUFFER" /\ z.queue = <<>>
      /\ z.eof = FALSE /\ z.conn = s
  BY <1>3, <1>7 DEF Silent, Player, S
<1>9. made = [off EXCEPT !.aud.state = "AUD_BUFFER", !.conns[s] = c]
  BY <1>4, <1>5 DEF Machines
<1>. HIDE DEF c, s, S
<1>10. /\ made \in Machines /\ made.aud = b /\ made.conns[s] = c /\ made.acks = off.acks
       /\ made.srv = off.srv /\ made.broken = off.broken
       /\ \A t \in Plays \ {s} : made.conns[t] = off.conns[t]
  <2>. HIDE DEF b
  <2>. QED  BY <1>3, <1>5, <1>6, <1>8 DEF Machines
<1>. HIDE DEF made
<1>. DEFINE t == TryArp(made, s, known)
<1>11. Quiet(made, t) /\ OnlyAt(made, t, s) /\ t.acks = made.acks
  BY <1>3, <1>6, <1>10, TryArpQuiet
<1>. DEFINE y == [t EXCEPT !.aud = z, !.broken = FALSE]
            n == tcp_set_rwnd(y, s, AUDIO_WND)
<1>12. y = [t EXCEPT !.aud.conn = s, !.broken = FALSE]
  <2>1. t \in Machines /\ t.aud = b
    BY <1>10, <1>11 DEF Quiet, Calm
  <2>. HIDE DEF t
  <2>. QED  BY <2>1 DEF Machines
<1>13. Leave(n)
  <2>. HIDE DEF y
  <2>. QED  BY <1>2, <1>9, <1>12
<1>. HIDE DEF t, z
<1>14. /\ t \in Machines /\ t.srv = off.srv /\ t.acks = off.acks
       /\ t.conns[s].rcv = 0 /\ Early(t.conns[s]) /\ Alive(t.conns[s])
       /\ \A k \in Plays \ {s} : t.conns[k] = off.conns[k]
  <2>1. Early(made.conns[s]) /\ Alive(made.conns[s])
    <3>1. Early(c)
      BY <1>6, Zenon DEF Early
    <3>2. Alive(c)
      BY <1>6 DEF Alive
    <3>. QED  BY <1>10, <3>1, <3>2
  <2>2. Silently(made, t, s) /\ Calm(made, t)
    BY <1>3, <1>11 DEF Quiet
  <2>3. /\ t \in Machines /\ t.srv = made.srv /\ t.conns[s].rcv = 0 /\ Early(t.conns[s])
        /\ Alive(t.conns[s])
    BY <1>3, <1>6, <1>10, <2>1, <2>2 DEF Silently, Calm
  <2>4. \A k \in Plays \ {s} : t.conns[k] = made.conns[k]
    BY <1>3, <1>10, <1>11 DEF OnlyAt, Machines
  <2>. QED  BY <1>10, <1>11, <2>3, <2>4
<1>15. /\ y \in Machines /\ y.aud = z /\ y.broken = FALSE /\ y.conns = t.conns
       /\ y.srv = t.srv /\ y.acks = t.acks
  BY <1>8, <1>14 DEF Machines
<1>. HIDE DEF y
<1>16. /\ n \in Machines /\ n.conns[s].rwnd = AUDIO_WND /\ n.conns[s].rcv = 0
       /\ n.conns[s].state = t.conns[s].state
       /\ n.conns[s].close_after = t.conns[s].close_after
       /\ n.acks = off.acks /\ n.aud = z /\ n.srv = off.srv /\ n.broken = FALSE
       /\ \A k \in Plays \ {s} : n.conns[k] = off.conns[k]
  <2>1. /\ n \in Machines /\ OnlyAt(y, n, s) /\ n.conns[s].rwnd = AUDIO_WND
        /\ n.conns[s].state = y.conns[s].state /\ n.conns[s].rcv = y.conns[s].rcv
        /\ n.conns[s].close_after = y.conns[s].close_after
        /\ n.acks = y.acks /\ n.aud = y.aud /\ n.srv = y.srv /\ n.broken = y.broken
    <3>1. AUDIO_WND \in Nat
      BY Marks
    <3>. QED  BY <1>3, <1>15, <3>1, SetRwnd
  <2>. HIDE DEF n
  <2>2. \A k \in Plays \ {s} : n.conns[k] = y.conns[k]
    BY <1>3, <1>15, <2>1 DEF OnlyAt, Machines
  <2>. QED  BY <1>14, <1>15, <2>1, <2>2
<1>. HIDE DEF n
<1>17. Alive(n.conns[s]) /\ Early(n.conns[s]) /\ n.conns[s].state # "unused"
  BY <1>14, <1>16 DEF Alive, Early
<1>18. s = plays + 1
  BY DEF s
<1>19. n.srv[s] = NewServer /\ n.acks[s] = {}
  BY <1>1, <1>3, <1>5, <1>16, <1>18 DEF Fresh
<1>20. Fresh(n, s)
  <2>1. ASSUME NEW k \in Plays
        PROVE  /\ k > s <=> n.conns[k].state = "unused"
               /\ k > s => n.srv[k] = NewServer /\ n.acks[k] = {}
    <3>1. k \in Nat /\ s \in Nat
      BY <1>3, Marks
    <3>2. CASE k = s
      BY <1>17, <3>1, <3>2
    <3>3. CASE k # s
      <4>1. k > s <=> k > plays
        BY <1>1, <1>18, <3>1, <3>3
      <4>2. /\ k > plays <=> off.conns[k].state = "unused"
            /\ k > plays => off.srv[k] = NewServer /\ off.acks[k] = {}
        BY <1>5 DEF Fresh
      <4>. QED  BY <1>16, <3>3, <4>1, <4>2
    <3>. QED  BY <3>2, <3>3
  <2>. QED  BY <2>1 DEF Fresh
<1>21. Behind(n, s)
  <2>1. n.aud.state = "AUD_BUFFER" /\ n.aud.conn = s /\ ~n.aud.eof
    BY <1>8, <1>16
  <2>2. n.conns[s].rwnd # 0 /\ Len(n.aud.queue) < AUDIO_PREBUFFER /\ s # NoPlay
    BY <1>3, <1>7, <1>8, <1>16, Marks
  <2>. QED  BY <1>17, <2>1, <2>2 DEF Behind
<1>22. ASSUME ~crossed' PROVE Single(n, s, <<>>)
  <2>1. \A k \in Plays : Alive(n.conns[k]) => k = s
    BY <1>1, <1>3, <1>4, <1>16, <1>22
  <2>2. <<>> \o <<>> = <<>> /\ 1 .. 0 = {}
    BY <1>7, ConcatEmptySeq
  <2>3. Len(<<>> \o <<>>) = 0
    BY <1>7, <2>2
  <2>4. Account(n, s, 0)
    <3>1. NewServer.sent = 0 /\ NewServer.una = 0 /\ NewServer.wnd = 0
      BY DEF NewServer
    <3>2. BodyOf(n, s) \in Nat
      BY <1>3, <1>16, Parts
    <3>3. ~Finned(n.conns[s])
      BY <1>17 DEF Early, Finned
    <3>4. Edges(n, s) = {0}
      BY <1>19, <3>1 DEF Edges
    <3>. QED  BY <1>7, <1>8, <1>16, <1>17, <1>19, <3>1, <3>2, <3>3, <3>4, Marks DEF Account
  <2>. QED  BY <1>7, <1>8, <1>16, <2>1, <2>2, <2>3, <2>4, <1>3, Marks DEF Single
<1>23. Machine' = n
  BY <1>13, <1>16, LeaveIs DEF n
<1>24. Typed'
  <2>1. n \in Machines
    BY <1>16
  <2>. QED  BY <1>3, <1>7, <1>23, <2>1 DEF Typed, S
<1>25. Fresh(Machine', plays') /\ Behind(Machine', plays')
  BY <1>3, <1>20, <1>21, <1>23
<1>26. ~crossed' => Single(Machine', plays', fed')
  BY <1>3, <1>22, <1>23
<1>. QED  BY <1>24, <1>25, <1>26 DEF IInv

--------------------------------------------------------------------------------
(* The server.                                                             *)

\* It opens nothing that no acknowledgement allowed.
LEMMA ServedAccount ==
    ASSUME NEW m \in Machines, NEW n \in Machines, NEW p \in Plays, NEW h \in Nat,
           Account(m, p, h), n.conns = m.conns, n.aud = m.aud, n.acks[p] \subseteq m.acks[p],
           n.srv[p].una + n.srv[p].wnd \in Edges(m, p),
           \/ n.srv[p].sent = m.srv[p].sent /\ n.srv[p].status = m.srv[p].status
           \/ /\ n.srv[p].sent = m.srv[p].sent + 1
              /\ m.srv[p].sent < m.srv[p].una + m.srv[p].wnd
              /\ m.srv[p].sent <= BodyOf(m, p) + 1
              /\ m.srv[p].sent > 0 => n.srv[p].status = m.srv[p].status
    PROVE  Account(n, p, h)
<1>. DEFINE c == m.conns[p]
            v == m.srv[p]
            w == n.srv[p]
            q == Len(m.aud.queue)
            B == BodyOf(m, p)
            C == BodyOf(n, p)
<1>1. /\ c.rcv \in Nat /\ v.sent \in Nat /\ w.sent \in Nat /\ v.una \in Nat /\ v.wnd \in Nat
      /\ q \in Nat /\ B \in Nat /\ C \in Nat /\ c \in Conn
  <2>1. /\ m.aud.queue \in Seq(Plays \X Nat) /\ c \in Conn /\ v \in ServerSide
        /\ w \in ServerSide /\ B \in Nat /\ C \in Nat
    BY Parts DEF Player, Machines
  <2>. QED  BY <2>1, LenProperties DEF Conn, ServerSide
<1>2. /\ Early(c) \/ Finned(c)
      /\ c.rcv <= v.sent /\ v.sent <= B + 2
      /\ Early(c) => c.rcv <= B + 1 /\ h = IF c.rcv = 0 THEN 0 ELSE c.rcv - 1
      /\ Finned(c) => c.rcv = B + 2 /\ h = B
      /\ c.rwnd \in {0, AUDIO_WND} /\ (c.rwnd # 0 => q <= AUDIO_BUF_HIGH)
  BY DEF Account
<1>3. v.sent > 0 => C = B
  <2>1. v.sent > 0 => w.status = v.status
    OBVIOUS
  <2>. QED  BY <2>1 DEF BodyOf
<1>4. w.sent = v.sent \/ (w.sent = v.sent + 1 /\ v.sent < v.una + v.wnd /\ v.sent <= B + 1)
  OBVIOUS
<1>5. w.sent = v.sent => C = B
  <2>1. w.sent = v.sent => w.status = v.status
    BY <1>1
  <2>. QED  BY <2>1 DEF BodyOf
<1>6. ASSUME NEW e \in Edges(n, p)
      PROVE  /\ e <= c.rcv + AUDIO_WND
             /\ c.rwnd = 0 => e + q <= c.rcv + AUDIO_BUF_HIGH + 1 + AUDIO_WND
  <2>1. CASE e \in Edges(m, p)
    BY <2>1 DEF Account
  <2>2. CASE e \notin Edges(m, p)
    <3>1. e = w.sent /\ w.sent = v.sent + 1 /\ v.sent < v.una + v.wnd
      BY <1>4, <2>2 DEF Edges
    <3>2. /\ v.una + v.wnd <= c.rcv + AUDIO_WND
          /\ c.rwnd = 0 => v.una + v.wnd + q <= c.rcv + AUDIO_BUF_HIGH + 1 + AUDIO_WND
      BY DEF Account, Edges
    <3>. HIDE DEF c, v, w, q
    <3>. QED  BY <1>1, <3>1, <3>2, Marks
  <2>. QED  BY <2>1, <2>2
<1>7. /\ c.rcv <= w.sent /\ w.sent <= C + 2
      /\ Early(c) => c.rcv <= C + 1
      /\ Finned(c) => c.rcv = C + 2 /\ h = C
  <2>. HIDE DEF c, v, w, q, B, C
  <2>1. CASE v.sent > 0
    BY <1>1, <1>2, <1>3, <1>4, <2>1
  <2>2. CASE v.sent = 0
    <3>1. c.rcv = 0 /\ ~Finned(c)
      BY <1>1, <1>2, <2>2
    <3>. QED  BY <1>1, <1>2, <1>4, <2>2, <3>1
  <2>. QED  BY <1>1, <2>1, <2>2
<1>. QED  BY <1>2, <1>6, <1>7 DEF Account

LEMMA ServeStep ==
    ASSUME IInv, NEW s \in Plays, NEW v \in ServerSide, Serves(s, v),
           acks' \in [Plays -> SUBSET Ack], acks'[s] \subseteq acks[s],
           \A t \in Plays \ {s} : acks'[t] = acks[t],
           v.una + v.wnd \in Edges(Machine, s),
           \/ v.sent = srv[s].sent /\ v.status = srv[s].status
           \/ /\ v.sent = srv[s].sent + 1 /\ srv[s].sent < srv[s].una + srv[s].wnd
              /\ srv[s].sent <= FinUnit(s)
              /\ srv[s].sent > 0 => v.status = srv[s].status
    PROVE  IInv'
<1>. DEFINE m == Machine
            n == Machine'
            p == plays
<1>1. /\ m \in Machines /\ m.srv = srv /\ m.conns = conns /\ m.acks = acks /\ m.aud = aud
      /\ m.broken = broken /\ m.said = said
      /\ fed \in Seq(Plays \X Nat) /\ p \in Plays \cup {NoPlay} /\ p \in Nat
      /\ Fresh(m, p) /\ Behind(m, p)
  BY Start
<1>2. /\ n.srv = [srv EXCEPT ![s] = v] /\ n.conns = conns /\ n.said = said /\ n.acks = acks'
      /\ n.aud = aud /\ n.broken = broken'
      /\ n = [conns |-> n.conns, said |-> n.said, acks |-> n.acks, aud |-> n.aud, srv |-> n.srv,
              broken |-> n.broken]
  BY DEF Serves, Machine
<1>3. Alive(m.conns[s]) /\ UNCHANGED <<plays, fed, crossed>>
  BY DEF Serves, Live, Alive, Machine
<1>4. broken' = broken
  BY Zenon DEF Serves
<1>. HIDE DEF m, n
<1>5. /\ n \in Machines /\ n.conns = m.conns /\ n.aud = m.aud /\ n.broken = m.broken
      /\ n.srv[s] = v /\ n.acks[s] \subseteq m.acks[s]
      /\ \A t \in Plays \ {s} : n.srv[t] = m.srv[t] /\ n.acks[t] = m.acks[t]
  <2>1. n.broken = m.broken
    BY <1>1, <1>2, <1>4, Zenon
  <2>. QED  BY <1>1, <1>2, <2>1 DEF Machines
<1>6. Fresh(n, p)
  BY <1>1, <1>3, <1>5 DEF Fresh, Alive
<1>7. Behind(n, p)
  BY <1>1, <1>5 DEF Behind
<1>8. ASSUME Single(m, p, fed) PROVE Single(n, p, fed)
  <2>1. s = p
    BY <1>3, <1>8 DEF Single
  <2>2. ASSUME m.aud.conn # NoPlay PROVE Account(n, p, Len(fed \o m.aud.queue))
    <3>1. Account(m, p, Len(fed \o m.aud.queue))
      BY <1>8, <2>2 DEF Single
    <3>2. Len(fed \o m.aud.queue) \in Nat
      <4>1. m.aud.queue \in Seq(Plays \X Nat)
        BY <1>1, Parts DEF Player, Machines
      <4>. QED  BY <1>1, <4>1, ConcatProperties, LenProperties
    <3>3. n.srv[p].una + n.srv[p].wnd \in Edges(m, p) /\ n.acks[p] \subseteq m.acks[p]
      BY <1>5, <2>1 DEF m
    <3>4. FinUnit(s) = BodyOf(m, p) + 1
      BY <1>1, <2>1 DEF FinUnit, Body, BodyOf
    <3>5. \/ n.srv[p].sent = m.srv[p].sent /\ n.srv[p].status = m.srv[p].status
          \/ /\ n.srv[p].sent = m.srv[p].sent + 1
             /\ m.srv[p].sent < m.srv[p].una + m.srv[p].wnd
             /\ m.srv[p].sent <= BodyOf(m, p) + 1
             /\ m.srv[p].sent > 0 => n.srv[p].status = m.srv[p].status
      BY <1>1, <1>5, <2>1, <3>4
    <3>6. p \in Plays
      BY <2>1
    <3>. HIDE DEF p
    <3>. QED  BY <1>1, <1>5, <3>1, <3>2, <3>3, <3>5, <3>6, ServedAccount
  <2>3. m.aud.state # "AUD_IDLE" /\ m.aud.eof => FALSE
    BY <1>1, <1>3, <1>8 DEF Behind, Single
  <2>. QED  BY <1>5, <1>8, <2>2, <2>3 DEF Single
<1>9. Keeps(m, n, p, fed)
  BY <1>5, <1>6, <1>7, <1>8 DEF Keeps
<1>10. Leave(n)
  <2>1. conns' = n.conns /\ said' = n.said /\ acks' = n.acks /\ aud' = n.aud /\ srv' = n.srv
    BY <1>2 DEF Serves
  <2>2. broken' = n.broken
    BY <1>2, Zenon
  <2>. QED  BY <2>1, <2>2 DEF Leave
<1>11. n \in Machines /\ plays' = p /\ fed' = fed /\ crossed' = crossed
  BY <1>3, <1>5
<1>12. Typed'
  BY <1>1, <1>11 DEF Typed, n
<1>13. Fresh(Machine', plays') /\ Behind(Machine', plays')
  BY <1>6, <1>7, <1>11 DEF n
<1>14. ~crossed' => Single(Machine', plays', fed')
  <2>1. ~crossed' => Single(n, p, fed)
    BY <1>8, <1>11 DEF IInv, m
  <2>. QED  BY <1>11, <2>1 DEF n
<1>. QED  BY <1>12, <1>13, <1>14 DEF IInv

LEMMA ServerStep ==
    ASSUME IInv, NEW s \in Plays, Server(s)
    PROVE  IInv'
<1>. DEFINE v == srv[s]
<1>1. /\ Machine \in Machines /\ Machine.srv = srv /\ Machine.acks = acks
      /\ v \in ServerSide /\ acks \in [Plays -> SUBSET Ack] /\ said[s] \subseteq Segments
  <2>1. /\ Machine \in Machines /\ Machine.srv = srv /\ Machine.acks = acks /\ Machine.said = said
    BY Start
  <2>. DEFINE m == Machine
  <2>2. m \in Machines
    BY <2>1
  <2>. HIDE DEF m
  <2>3. m.srv[s] \in ServerSide /\ m.acks \in [Plays -> SUBSET Ack] /\ m.said[s] \in SUBSET Segments
    BY <2>2, Parts DEF Machines
  <2>. QED  BY <2>1, <2>3 DEF m
<1>2. /\ v.heard \in Segments /\ v.status \in Statuses /\ v.sent \in Nat /\ v.una \in Nat
      /\ v.wnd \in Nat
  BY <1>1 DEF ServerSide
<1>3. Edges(Machine, s) = {v.sent, v.una + v.wnd} \cup {a.ack + a.wnd : a \in acks[s]}
  BY DEF Edges, Machine
<1>. HIDE DEF v
<1>4. CASE SrvHear(s)
  <2>. DEFINE r == v.heard + 1
              w == [v EXCEPT !.heard = r]
  <2>1. r \in Segments
    BY <1>1, <1>4 DEF SrvHear, v
  <2>2. Serves(s, w) /\ acks' = acks
    <3>1. w = [srv[s] EXCEPT !.heard = @ + 1]
      BY <1>1 DEF v, ServerSide
    <3>. HIDE DEF w
    <3>. QED  BY <1>4, <3>1 DEF SrvHear
  <2>. HIDE DEF r
  <2>3. /\ w \in ServerSide /\ w.sent = v.sent /\ w.status = v.status /\ w.una = v.una
        /\ w.wnd = v.wnd
    BY <1>1, <2>1 DEF ServerSide
  <2>. HIDE DEF w
  <2>4. w.una + w.wnd \in Edges(Machine, s)
    BY <1>3, <2>3
  <2>5. w.sent = srv[s].sent /\ w.status = srv[s].status
    BY <2>3 DEF v
  <2>. QED  BY <1>1, <2>2, <2>3, <2>4, <2>5, ServeStep
<1>5. CASE SrvAck(s)
  <2>1. PICK a \in acks[s] : /\ Serves(s, [srv[s] EXCEPT !.una = a.ack, !.wnd = a.wnd])
                             /\ acks' = [acks EXCEPT ![s] = Telling(a.ack, a.wnd, @)]
    BY <1>5 DEF SrvAck
  <2>. DEFINE w == [v EXCEPT !.una = a.ack, !.wnd = a.wnd]
  <2>2. a \in Ack /\ a.ack \in Nat /\ a.wnd \in Nat
    BY <1>1 DEF Ack
  <2>3. Serves(s, w)
    BY <2>1 DEF v
  <2>4. /\ w \in ServerSide /\ w.sent = v.sent /\ w.status = v.status /\ w.una = a.ack
        /\ w.wnd = a.wnd
    BY <1>1, <2>2 DEF ServerSide
  <2>. HIDE DEF w
  <2>5. w.una + w.wnd \in Edges(Machine, s)
    BY <1>3, <2>4
  <2>6. Telling(a.ack, a.wnd, acks[s]) \subseteq acks[s]
    BY DEF Telling
  <2>7. /\ acks' \in [Plays -> SUBSET Ack] /\ acks'[s] \subseteq acks[s]
        /\ \A t \in Plays \ {s} : acks'[t] = acks[t]
    BY <1>1, <2>1, <2>6
  <2>8. w.sent = srv[s].sent /\ w.status = srv[s].status
    BY <2>4 DEF v
  <2>. QED  BY <2>3, <2>4, <2>5, <2>7, <2>8, ServeStep
<1>6. CASE SrvSend(s)
  <2>1. PICK status \in Statuses :
           /\ srv[s].sent > 0 => status = srv[s].status
           /\ Serves(s, [srv[s] EXCEPT !.sent = @ + 1, !.status = status])
    BY <1>6 DEF SrvSend
  <2>2. acks' = acks /\ v.sent - v.una < v.wnd /\ v.sent <= FinUnit(s)
    BY <1>6 DEF SrvSend, v
  <2>. DEFINE r == v.sent + 1
              w == [v EXCEPT !.sent = r, !.status = status]
  <2>3. Serves(s, w)
    <3>1. w = [srv[s] EXCEPT !.sent = @ + 1, !.status = status]
      BY <1>1 DEF v, ServerSide
    <3>. HIDE DEF w
    <3>. QED  BY <2>1, <3>1
  <2>4. r \in Nat
    BY <1>2
  <2>. HIDE DEF r
  <2>5. /\ w \in ServerSide /\ w.sent = r /\ w.status = status /\ w.una = v.una
        /\ w.wnd = v.wnd
    BY <1>1, <2>4 DEF ServerSide
  <2>. HIDE DEF w
  <2>6. w.una + w.wnd \in Edges(Machine, s)
    BY <1>3, <2>5
  <2>7. v.sent < v.una + v.wnd
    BY <1>2, <2>2
  <2>8. /\ w.sent = srv[s].sent + 1 /\ srv[s].sent < srv[s].una + srv[s].wnd
        /\ srv[s].sent <= FinUnit(s)
        /\ srv[s].sent > 0 => w.status = srv[s].status
    BY <2>1, <2>2, <2>5, <2>7 DEF v, r
  <2>. QED  BY <1>1, <2>2, <2>3, <2>5, <2>6, <2>8, ServeStep
<1>. QED  BY <1>4, <1>5, <1>6 DEF Server

--------------------------------------------------------------------------------
(* The theorems.                                                           *)

LEMMA NextKeepsIInv == IInv /\ [Next]_vars => IInv'
<1>. SUFFICES ASSUME IInv, [Next]_vars PROVE IInv'
  OBVIOUS
<1>1. ASSUME NEW s \in Plays, RxSynAck(s) \/ Rx(s) \/ RxReset(s) \/ Server(s)
      PROVE  IInv'
  BY <1>1, SynAckStep, RxStep, ResetStep, ServerStep
<1>2. CASE Tick \/ Feed \/ PlayedOut
  BY <1>2, TickStep, FeedStep, PlayedOutStep
<1>3. CASE audio_play \/ Stop
  BY <1>3, PlayStep, StopStep
<1>4. CASE UNCHANGED vars
  <2>1. Machine' = Machine /\ plays' = plays /\ fed' = fed /\ crossed' = crossed
    BY <1>4 DEF vars, Machine
  <2>. QED  BY <2>1 DEF IInv, Typed
<1>. QED  BY <1>1, <1>2, <1>3, <1>4 DEF Next

LEMMA Invariant == Spec => []IInv
BY Init_IInv, NextKeepsIInv, PTL DEF Spec

\* Unless a play found an older stream alive, what the codec took and what is
\* queued for it is the song of the last play, each unit in its place, whatever
\* the air loses, repeats and reorders: tcp_input takes a unit only in turn
\* (tcp.mtl), and audio.mtl queues all that it is handed.
THEOREM PlayedAsSentHolds == Spec => []PlayedAsSent
<1>1. IInv => PlayedAsSent
  <2>. SUFFICES ASSUME IInv, ~crossed
                PROVE  LET heard == fed \o aud.queue
                       IN heard = [i \in DOMAIN heard |-> <<plays, i>>]
    BY DEF PlayedAsSent
  <2>. DEFINE heard == fed \o aud.queue
              S == Plays \X Nat
  <2>1. Single(Machine, plays, fed) /\ Machine.aud = aud
    BY DEF IInv, Machine
  <2>2. \A i \in 1 .. Len(heard) : heard[i] = <<plays, i>>
    BY <2>1 DEF Single
  <2>3. fed \in Seq(S) /\ aud \in Player
    <3>1. Machine \in Machines /\ Machine.aud = aud /\ fed \in Seq(S)
      BY Start
    <3>. HIDE DEF Machine
    <3>. QED  BY <3>1 DEF Machines
  <2>4. heard \in Seq(S)
    BY <2>3, ConcatProperties DEF Player
  <2>5. heard \in [1 .. Len(heard) -> S] /\ DOMAIN heard = 1 .. Len(heard)
    BY <2>4, LenProperties
  <2>. HIDE DEF heard
  <2>6. heard = [i \in DOMAIN heard |-> <<plays, i>>]
    BY <2>2, <2>5
  <2>. QED  BY <2>6 DEF heard
<1>. QED  BY <1>1, Invariant, PTL

\* A server that minds the window never fills the player beyond its cap
\* (audio.mtl:20-21), with all that was under way when the window was shut.
THEOREM CapIsForOutlawsHolds == Spec => []CapIsForOutlaws
<1>1. IInv => CapIsForOutlaws
  <2>1. Machine.aud = aud
    BY DEF Machine
  <2>. QED  BY <2>1 DEF IInv, Single, CapIsForOutlaws
<1>. QED  BY <1>1, Invariant, PTL

\* The player never holds a connection that is gone, and never waits for units
\* without a stream that is to bring them, through plays that cross and streams
\* that break (_aud_done and _aud_drop_conn, audio.mtl).
THEOREM StreamBehindPlayerHolds == Spec => []StreamBehindPlayer
<1>1. IInv => StreamBehindPlayer
  <2>. SUFFICES ASSUME IInv PROVE StreamBehindPlayer
    OBVIOUS
  <2>1. /\ Machine \in Machines /\ Behind(Machine, plays) /\ Machine.aud = aud
        /\ Machine.conns = conns
    BY Start
  <2>2. aud.conn # NoPlay => plays \in Plays /\ aud.conn = plays
    BY <2>1, ConnIsPlay
  <2>. HIDE DEF Machine
  <2>. QED  BY <2>1, <2>2 DEF Behind, StreamBehindPlayer, Live, Alive
<1>. QED  BY <1>1, Invariant, PTL

\* A window that is shut has enough queued behind it for the codec to open it
\* again when it asks, even when the units of an older song are among them: the
\* stream and the codec never wait for each other (_aud_chunk and _aud_feed).
THEOREM ShutWindowReopensHolds == Spec => []ShutWindowReopens
<1>1. IInv => ShutWindowReopens
  <2>. SUFFICES ASSUME IInv PROVE ShutWindowReopens
    OBVIOUS
  <2>1. /\ Machine \in Machines /\ Behind(Machine, plays) /\ Machine.aud = aud
        /\ Machine.conns = conns
    BY Start
  <2>2. aud.conn # NoPlay => plays \in Plays /\ aud.conn = plays
    BY <2>1, ConnIsPlay
  <2>. HIDE DEF Machine
  <2>. QED  BY <2>1, <2>2 DEF Behind, ShutWindowReopens
<1>. QED  BY <1>1, Invariant, PTL

\* When playback ends of itself, all that the server sent was played, unless the
\* stream broke: a queue that runs dry is not taken for the end, and the end is
\* not taken before the last unit was heard.
THEOREM PlayedWholeHolds == Spec => PlayedWhole
<1>1. IInv /\ [Next]_vars => [PlayedOut /\ ~crossed /\ ~broken => Len(fed) = Body(plays)]_vars
  <2>. SUFFICES ASSUME IInv, PlayedOut, ~crossed, ~broken
                PROVE  Len(fed) = Body(plays)
    OBVIOUS
  <2>1. Single(Machine, plays, fed) /\ Machine.aud = aud
    BY DEF IInv, Machine
  <2>2. ~Machine.broken
    BY Zenon DEF Machine
  <2>3. Machine.aud.state = "AUD_PLAY" /\ Machine.aud.eof /\ aud.queue = <<>>
    BY <2>1 DEF PlayedOut
  <2>4. Len(fed \o aud.queue) = BodyOf(Machine, plays)
    BY <2>1, <2>2, <2>3 DEF Single
  <2>5. fed \o aud.queue = fed
    <3>. DEFINE S == Plays \X Nat
    <3>1. fed \in Seq(S)
      BY Start
    <3>. QED  BY <2>3, <3>1, ConcatEmptySeq
  <2>6. BodyOf(Machine, plays) = Body(plays)
    BY DEF BodyOf, Body, Machine
  <2>. QED  BY <2>4, <2>5, <2>6
<1>. QED  BY <1>1, Invariant, PTL DEF Spec, PlayedWhole
================================================================================
