----------------------------- MODULE GarenneAudio -----------------------------
(***************************************************************************)
(* The rabbit plays a song while it downloads it (garenne/audio.mtl): an   *)
(* HTTP stream (http/client.mtl) over a TCP connection that the rabbit     *)
(* opens (net/tcp.mtl) fills a queue, the codec empties it, and the        *)
(* receive window holds the sender back in between.                        *)
(*                                                                         *)
(* A play opens a connection of its own and never waits for the one before *)
(* to end; all of them call the same two callbacks, which know no          *)
(* connection. So a handler maps the whole machine to what it leaves:      *)
(*     conns   one record per play,                                        *)
(*     said    what the rabbit has said on each, of its three segments,    *)
(*     acks    the acknowledgements in the air, with their windows,        *)
(*     aud     the player.                                                 *)
(*                                                                         *)
(* A unit is one segment of the response: its header, then the body, then  *)
(* the FIN. The air loses, repeats and reorders; TCP's numbers are         *)
(* positions in the response.                                              *)
(***************************************************************************)
EXTENDS Integers, Sequences

CONSTANTS AUDIO_PREBUFFER, AUDIO_MAX_BUF, AUDIO_WND, AUDIO_BUF_HIGH, AUDIO_BUF_LOW,
          TCP_WINDOW, MaxRetries,
          BodyLen,       \* the length of the song of each play
          PageLen        \* the length of a page that says there is no such song

ASSUME AudioAssumption ==
    /\ {AUDIO_PREBUFFER, AUDIO_MAX_BUF, AUDIO_WND, AUDIO_BUF_HIGH, AUDIO_BUF_LOW,
        TCP_WINDOW} \subseteq Nat \ {0}
    /\ AUDIO_PREBUFFER <= AUDIO_BUF_HIGH /\ AUDIO_BUF_LOW <= AUDIO_BUF_HIGH
    /\ AUDIO_BUF_HIGH + 1 + AUDIO_WND <= AUDIO_MAX_BUF
    /\ MaxRetries \in Nat /\ BodyLen \in Seq(Nat) /\ PageLen \in Nat

VARIABLES conns, said, acks, aud, srv,
          plays,         \* how many times audio_play was called
          fed,           \* history: what the codec took since then, until crossed
          crossed,       \* history: a play found an older stream alive
          broken         \* history: the stream of the last play ended in an error

vars == <<conns, said, acks, aud, srv, plays, fed, crossed, broken>>

Plays == DOMAIN BodyLen
NoPlay == 0

\* The rabbit's three reliable segments, in the order they are sent.
None == 0
SYN == 1
Request == 2
FIN == 3

Open == {"ESTAB", "CLOSE_WAIT"}
Live(m) == {s \in Plays : m.conns[s].state \notin {"unused", "CLOSED"}}

NewConn(state) ==
    [state |-> state, unacked |-> None, retries |-> 0, rcv |-> 0, rwnd |-> TCP_WINDOW,
     push |-> FALSE, close_after |-> FALSE]

Silent == [state |-> "AUD_IDLE", queue |-> <<>>, eof |-> FALSE, conn |-> NoPlay]

Statuses == {200, 404}
NewServer == [heard |-> None, status |-> 200, sent |-> 0, una |-> 0, wnd |-> 0]

Body(s) == IF srv[s].status = 200 THEN BodyLen[s] ELSE PageLen
FinUnit(s) == Body(s) + 1

Init ==
    /\ conns = [s \in Plays |-> NewConn("unused")]
    /\ said = [s \in Plays |-> {}]
    /\ acks = [s \in Plays |-> {}]
    /\ aud = Silent
    /\ srv = [s \in Plays |-> NewServer]
    /\ plays = 0 /\ fed = <<>> /\ crossed = FALSE /\ broken = FALSE

Machine == [conns |-> conns, said |-> said, acks |-> acks, aud |-> aud, srv |-> srv,
            broken |-> broken]
Leave(m) ==
    /\ conns' = m.conns /\ said' = m.said /\ acks' = m.acks /\ aud' = m.aud
    /\ srv' = m.srv /\ broken' = m.broken

--------------------------------------------------------------------------------
(* TCP, as far as the stream calls it.                                     *)

\* An acknowledgement tells the server something if it goes further than what
\* it knows, or widens the window; another is as good as lost.
Telling(una, wnd, S) == {a \in S : a.ack > una \/ (a.ack = una /\ a.wnd > wnd)}

SendAck(m, s) ==
    [m EXCEPT !.acks[s] = @ \cup Telling(srv[s].una, srv[s].wnd,
                                 {[ack |-> m.conns[s].rcv, wnd |-> m.conns[s].rwnd]})]

SendRel(m, s, segment) ==
    LET kept == [m EXCEPT !.said[s] = @ \cup {segment},
                          !.conns[s].unacked = segment, !.conns[s].retries = 0]
    IN IF segment = SYN THEN kept ELSE SendAck(kept, s)

\* _tcp_txq_kick: nothing is ever queued, so only a pending close is pulled.
Kick(m, s) ==
    LET c == m.conns[s]
    IN IF c.state \in Open /\ c.unacked = None /\ c.close_after
       THEN SendRel([m EXCEPT !.conns[s].state = IF @ = "CLOSE_WAIT" THEN "LAST_ACK"
                                                 ELSE "FIN_WAIT_1"], s, FIN)
       ELSE m

tcp_close(m, s) ==
    IF m.conns[s].state \in Open THEN Kick([m EXCEPT !.conns[s].close_after = TRUE], s) ELSE m

tcp_set_rwnd(m, s, wnd) ==
    [m EXCEPT !.conns[s].rwnd = wnd,
              !.conns[s].push = @ \/ (wnd > m.conns[s].rwnd /\ m.conns[s].state \in Open)]

\* _tcp_try_arp: known is whether the cache has the server's MAC.
TryArp(m, s, known) ==
    IF known THEN SendRel([m EXCEPT !.conns[s].state = "SYN_SENT"], s, SYN) ELSE m

--------------------------------------------------------------------------------
(* The player, and the callbacks of the stream.                            *)

Bytes(m) == Len(m.aud.queue)
DropConn(m) == IF m.aud.conn = NoPlay THEN m
               ELSE [tcp_close(m, m.aud.conn) EXCEPT !.aud.conn = NoPlay]

Cut(m) == DropConn([m EXCEPT !.aud.eof = TRUE])

\* Mutant: the high mark is not looked at.
aud_chunkGreedy(m, unit) ==
    LET got == [m EXCEPT !.aud.queue = Append(@, unit)]
    IN CASE m.aud.state = "AUD_IDLE" -> m
         [] m.aud.state # "AUD_IDLE" /\ Bytes(got) > AUDIO_MAX_BUF -> Cut(got)
         [] m.aud.state = "AUD_BUFFER" /\ Bytes(got) \in AUDIO_PREBUFFER .. AUDIO_MAX_BUF ->
               [got EXCEPT !.aud.state = "AUD_PLAY"]
         [] OTHER -> got

\* Behind the cap the stream is cut; behind the high mark its window closes;
\* with the prebuffer in, the codec starts.
aud_chunk(m, unit) ==
    LET got == [m EXCEPT !.aud.queue = Append(@, unit)]
        shuts == /\ m.aud.conn # NoPlay /\ Bytes(got) > AUDIO_BUF_HIGH
                 /\ m.conns[m.aud.conn].rwnd # 0
    IN CASE m.aud.state = "AUD_IDLE" -> m
         [] m.aud.state # "AUD_IDLE" /\ Bytes(got) > AUDIO_MAX_BUF -> Cut(got)
         [] m.aud.state # "AUD_IDLE" /\ Bytes(got) <= AUDIO_MAX_BUF /\ shuts ->
               tcp_set_rwnd(got, m.aud.conn, 0)
         [] m.aud.state = "AUD_BUFFER" /\ Bytes(got) <= AUDIO_MAX_BUF /\ ~shuts
               /\ Bytes(got) >= AUDIO_PREBUFFER -> [got EXCEPT !.aud.state = "AUD_PLAY"]
         [] OTHER -> got

\* Mutant: the connection that has ended is kept.
aud_doneKeeps(m, status) ==
    [m EXCEPT !.aud.eof = TRUE,
              !.aud.state = IF @ # "AUD_BUFFER" THEN @
                            ELSE IF Bytes(m) > 0 /\ status = 200 THEN "AUD_PLAY"
                            ELSE "AUD_IDLE"]

\* A song shorter than the prebuffer starts when its stream ends.
aud_done(m, status) ==
    [m EXCEPT !.aud.eof = TRUE, !.aud.conn = NoPlay,
              !.aud.state = IF @ # "AUD_BUFFER" THEN @
                            ELSE IF Bytes(m) > 0 /\ status = 200 THEN "AUD_PLAY"
                            ELSE "AUD_IDLE"]

audio_stop(m) ==
    LET off == IF m.aud.state = "AUD_IDLE" THEN m
               ELSE DropConn([m EXCEPT !.aud.state = "AUD_IDLE"])
    IN [off EXCEPT !.aud.queue = <<>>, !.aud.eof = FALSE]

\* _http_ev: the header is the first unit, and what follows it is the body.
Connected(m, s) == SendRel(m, s, Request)
Data(m, s, unit) == IF unit = 0 THEN m ELSE aud_chunk(m, <<s, unit>>)
Status(m, s) == IF m.conns[s].rcv > 0 THEN srv[s].status ELSE -1

\* _tcp_die, with the event the stream ends in. Nobody hears what the server
\* says on a connection that is forgotten: of it, only the song is kept.
Forget(m, s) == [m EXCEPT !.conns[s] = NewConn("CLOSED"), !.said[s] = {}, !.acks[s] = {},
                          !.srv[s] = [NewServer EXCEPT !.status = srv[s].status]]
Close(m, s) == aud_done(Forget(m, s), Status(m, s))
Fail(m, s) == [aud_done(Forget(m, s), -1) EXCEPT !.broken = @ \/ s = plays]

--------------------------------------------------------------------------------
(* What the rabbit does.                                                   *)

\* The SYN+ACK: the request leaves from inside the callback, behind our ack.
RxSynAck(s) ==
    /\ conns[s].state = "SYN_SENT" /\ srv[s].heard >= SYN
    /\ Leave(Connected(SendAck([Machine EXCEPT !.conns[s].state = "ESTAB",
                                               !.conns[s].unacked = None], s), s))
    /\ UNCHANGED <<plays, fed, crossed>>

\* _tcp_ack_in: level is the last of our segments the server had heard.
AckIn(m, s, level) ==
    LET acked == [m EXCEPT !.conns[s].unacked = None]
    IN IF m.conns[s].unacked = None \/ level < m.conns[s].unacked THEN m
       ELSE CASE m.conns[s].state = "FIN_WAIT_1" -> [acked EXCEPT !.conns[s].state = "FIN_WAIT_2"]
              [] m.conns[s].state = "LAST_ACK"   -> Close(acked, s)
              [] OTHER                           -> Kick(acked, s)

FinIn(m, s) ==
    CASE m.conns[s].state = "ESTAB" /\ m.conns[s].unacked = None ->
            SendRel([m EXCEPT !.conns[s].state = "LAST_ACK"], s, FIN)
      [] m.conns[s].state = "ESTAB" /\ m.conns[s].unacked # None ->
            SendAck([m EXCEPT !.conns[s].state = "CLOSE_WAIT",
                              !.conns[s].close_after = TRUE], s)
      [] OTHER -> Close(SendAck(m, s), s)

InOrder(m, s, unit) ==
    LET got == [m EXCEPT !.conns[s].rcv = @ + 1]
    IN IF unit = FinUnit(s) THEN FinIn(got, s) ELSE Data(SendAck(got, s), s, unit)

\* Mutant: what the rabbit has had already is taken again.
InputRepeats(m, s, unit, level, carried) ==
    LET acked == AckIn(m, s, level)
    IN CASE acked.conns[s].state = "CLOSED" -> acked
         [] acked.conns[s].state # "CLOSED" /\ unit > m.conns[s].rcv -> SendAck(acked, s)
         [] acked.conns[s].state # "CLOSED" /\ unit <= m.conns[s].rcv ->
               IF carried THEN InOrder(acked, s, unit) ELSE acked

\* tcp_input: a segment with the number of a unit, carried or not.
Input(m, s, unit, level, carried) ==
    LET acked == AckIn(m, s, level)
    IN CASE acked.conns[s].state = "CLOSED" -> acked
         [] acked.conns[s].state # "CLOSED" /\ unit # m.conns[s].rcv -> SendAck(acked, s)
         [] acked.conns[s].state # "CLOSED" /\ unit = m.conns[s].rcv ->
               IF carried THEN InOrder(acked, s, unit) ELSE acked

\* What the server has sent carries a unit behind the request, or only its
\* acknowledgement. All numbers out of turn are alike to tcp_input: the first
\* and the last stand for them.
Rx(s) ==
    /\ s \in Live(Machine) /\ conns[s].state \notin {"ARP_WAIT", "SYN_SENT"}
    /\ \E unit \in {0, conns[s].rcv, srv[s].sent}, level \in SYN .. srv[s].heard,
          carried \in BOOLEAN :
          /\ carried => unit < srv[s].sent /\ level >= Request
          /\ Leave(Input(Machine, s, unit, level, carried))
    /\ UNCHANGED <<plays, fed, crossed>>

\* The server gives up on a connection it has heard of, or refuses it.
RxReset(s) ==
    /\ s \in Live(Machine) /\ srv[s].heard >= SYN
    /\ Leave(Fail(Machine, s))
    /\ UNCHANGED <<plays, fed, crossed>>

\* _tcp_tick_conn; due is whether TCP_RTO_MS have passed.
TickConn(m, s, due, known) ==
    LET c == m.conns[s]
        told == IF c.push /\ c.state \in Open
                THEN SendAck([m EXCEPT !.conns[s].push = FALSE], s) ELSE m
        again == [told EXCEPT !.conns[s].retries = @ + 1]
    IN CASE ~due -> told
         [] due /\ c.retries + 1 > MaxRetries -> Fail(told, s)
         [] due /\ c.retries + 1 <= MaxRetries /\ c.state = "ARP_WAIT" -> TryArp(again, s, known)
         [] OTHER -> again

\* One pass of _tcp_timer over the table. The turn of a connection touches its
\* own records; those that give up end the player's stream, and it is one thing
\* whether one does or several.
Waiting == {s \in Plays : conns[s].state = "ARP_WAIT" \/ conns[s].unacked # None}
Pass(due, known) ==
    LET turn == [s \in Plays |-> IF s \in Live(Machine)
                                 THEN TickConn(Machine, s, s \in due, known) ELSE Machine]
        ended == {s \in Live(Machine) : turn[s].conns[s].state = "CLOSED"}
    IN [conns |-> [s \in Plays |-> turn[s].conns[s]], said |-> [s \in Plays |-> turn[s].said[s]],
        acks |-> [s \in Plays |-> turn[s].acks[s]], srv |-> [s \in Plays |-> turn[s].srv[s]],
        aud |-> IF ended = {} THEN aud ELSE aud_done(Machine, -1).aud,
        broken |-> broken \/ plays \in ended]
Tick ==
    /\ \E due \in SUBSET Waiting, known \in BOOLEAN : Leave(Pass(due, known))
    /\ UNCHANGED <<plays, fed, crossed>>

\* Mutant: the low mark is compared before the codec has taken anything.
FeedLooksFirst ==
    LET took == [Machine EXCEPT !.aud.queue = Tail(@)]
        opens == /\ aud.conn # NoPlay /\ conns[aud.conn].rwnd = 0
                 /\ Bytes(Machine) < AUDIO_BUF_LOW
    IN /\ aud.state = "AUD_PLAY" /\ aud.queue # <<>>
       /\ fed' = IF crossed THEN fed ELSE Append(fed, Head(aud.queue))
       /\ Leave(IF opens THEN tcp_set_rwnd(took, aud.conn, AUDIO_WND) ELSE took)
       /\ UNCHANGED <<plays, crossed>>

\* The codec asks: it takes the head of the queue, and a queue that falls
\* below the low mark opens the window again; or it takes the end.
Feed ==
    LET took == [Machine EXCEPT !.aud.queue = Tail(@)]
        opens == /\ aud.conn # NoPlay /\ conns[aud.conn].rwnd = 0
                 /\ Bytes(took) < AUDIO_BUF_LOW
    IN /\ aud.state = "AUD_PLAY" /\ aud.queue # <<>>
       /\ fed' = IF crossed THEN fed ELSE Append(fed, Head(aud.queue))
       /\ Leave(IF opens THEN tcp_set_rwnd(took, aud.conn, AUDIO_WND) ELSE took)
       /\ UNCHANGED <<plays, crossed>>

\* Mutant: a queue that has run dry is taken for the end of the song.
PlayedOutDry ==
    /\ aud.state = "AUD_PLAY" /\ aud.queue = <<>>
    /\ aud' = [aud EXCEPT !.state = "AUD_IDLE"]
    /\ UNCHANGED <<conns, said, acks, srv, plays, fed, crossed, broken>>

PlayedOut ==
    /\ aud.state = "AUD_PLAY" /\ aud.queue = <<>> /\ aud.eof
    /\ aud' = [aud EXCEPT !.state = "AUD_IDLE"]
    /\ UNCHANGED <<conns, said, acks, srv, plays, fed, crossed, broken>>

\* The control commands play and stop.
audio_play ==
    LET s == plays + 1
        off == audio_stop(Machine)
        made == [off EXCEPT !.aud.state = "AUD_BUFFER", !.conns[s] = NewConn("ARP_WAIT")]
        Streaming(m) == tcp_set_rwnd([m EXCEPT !.aud.conn = s, !.broken = FALSE], s, AUDIO_WND)
    IN /\ s \in Plays /\ plays' = s
       /\ \E known \in BOOLEAN : Leave(Streaming(TryArp(made, s, known)))
       /\ fed' = <<>> /\ crossed' = (crossed \/ Live(Machine) # {})

Stop ==
    /\ aud # Silent
    /\ Leave(audio_stop(Machine)) /\ UNCHANGED <<plays, fed, crossed>>

--------------------------------------------------------------------------------
(* clapier and its kernel, as the stream takes them.                       *)

Serves(s, server) ==
    /\ s \in Live(Machine)
    /\ srv' = [srv EXCEPT ![s] = server]
    /\ UNCHANGED <<conns, said, plays, aud, fed, crossed, broken>>

SrvHear(s) ==
    /\ srv[s].heard + 1 \in said[s]
    /\ Serves(s, [srv[s] EXCEPT !.heard = @ + 1])
    /\ UNCHANGED acks

SrvAck(s) ==
    \E a \in acks[s] :
        /\ Serves(s, [srv[s] EXCEPT !.una = a.ack, !.wnd = a.wnd])
        /\ acks' = [acks EXCEPT ![s] = Telling(a.ack, a.wnd, @)]

\* The next unit, within the window; the song may not be there.
SrvSend(s) ==
    /\ srv[s].heard >= Request
    /\ srv[s].sent - srv[s].una < srv[s].wnd
    /\ srv[s].sent <= FinUnit(s)
    /\ \E status \in Statuses :
          /\ srv[s].sent > 0 => status = srv[s].status
          /\ Serves(s, [srv[s] EXCEPT !.sent = @ + 1, !.status = status])
    /\ UNCHANGED acks

Server(s) == SrvHear(s) \/ SrvAck(s) \/ SrvSend(s)

Next ==
    \/ \E s \in Plays : RxSynAck(s) \/ Rx(s) \/ RxReset(s) \/ Server(s)
    \/ Tick \/ Feed \/ PlayedOut \/ audio_play \/ Stop

Spec == Init /\ [][Next]_vars

--------------------------------------------------------------------------------
\* Unless a play found an older stream alive, what the codec took and what is
\* queued for it is the song as it was sent, from its first unit, with no unit
\* lost, repeated or out of place, whatever the air did.
PlayedAsSent ==
    ~crossed => LET heard == fed \o aud.queue
                IN heard = [i \in DOMAIN heard |-> <<plays, i>>]

\* "the cap above is only for a peer that ignores our window" (audio.mtl:20-21):
\* a peer that minds it never runs into the cap, with all that was in flight
\* when the window closed.
CapIsForOutlaws == ~crossed => Len(aud.queue) <= AUDIO_MAX_BUF

\* The player never holds a connection that is gone, and never waits, for its
\* prebuffer or for more of the song, without a stream that is to bring it.
StreamBehindPlayer ==
    /\ aud.conn # NoPlay => aud.conn \in Live(Machine) /\ aud.state # "AUD_IDLE"
    /\ aud.state # "AUD_IDLE" /\ ~aud.eof => aud.conn # NoPlay
    /\ aud.state = "AUD_BUFFER" => ~aud.eof

\* A window that is shut has enough queued behind it for the codec to open it
\* again: the stream never waits for the codec while the codec waits for it,
\* even when the units of an older song are among them.
ShutWindowReopens ==
    aud.conn # NoPlay /\ conns[aud.conn].rwnd = 0 =>
        aud.state = "AUD_PLAY" /\ Len(aud.queue) >= AUDIO_BUF_LOW

\* When playback ends of itself it has played all that the server sent, unless
\* the stream broke: a queue that runs dry is not taken for the end.
PlayedWhole ==
    [][PlayedOut /\ ~crossed /\ ~broken => Len(fed) = Body(plays)]_vars

\* "Stream a path from clapier and play it as it lands" (audio.mtl:186), "chunk
\* after stop dropped" (tests/t_audio.mtl:72): what is queued for the codec is
\* of the song that was asked for last. The callbacks know no connection, so the
\* stream of a song that was stopped goes on filling the queue of the next.
OnlyItsSong ==
    \A i \in DOMAIN aud.queue : aud.queue[i][1] = plays
================================================================================
