------------------------- MODULE GarenneServerProofs ------------------------
(***************************************************************************)
(* Safety of GarenneServer for every set of peers, cap, modulus and number *)
(* of retransmissions.  The handlers are functions of the machine of one   *)
(* connection, so each has a lemma that says what it keeps of MachineOK;   *)
(* a step of the specification then is one lemma applied at one peer.      *)
(*                                                                         *)
(* The second half relates the two ends: Talks says what may be in the air *)
(* in each direction and how far each end is in the other's stream.  It is *)
(* built the same way, a lemma to a handler (Flow..., on a connection that *)
(* is open), then to a segment, a tick and a step of the peer (Talk...),   *)
(* then to a step (Talks...).  There StreamsApart is assumed.              *)
(***************************************************************************)
EXTENDS GarenneServer, TLAPS, FiniteSetTheorems, SequenceTheorems

Machines == [conn : Conn, out : SUBSET ReplySegments, up : Hsrv]

\* What one connection record keeps, whatever its peer does, but for the
\* segment that must be in flight ahead of a queue.  The first conjunct and
\* the last two make the others inductive: a listening socket never holds an
\* active open, an embryo has nothing queued, and a closed or half-closed
\* connection has nothing in flight.
Shape(c) ==
  /\ c.state \notin ActiveStates
  /\ \A s \in c.unacked : /\ c.unacked = {s}
                          /\ c.snd_nxt = SeqAdd(s.seq, SeqLen(s.flags, s.data))
  /\ c.state \in FinStates => c.txq = <<>>
  /\ c.state \in {"FIN_WAIT_1", "LAST_ACK"} <=> \E s \in c.unacked : "FIN" \in s.flags
  /\ c.state = "SYN_RCVD" => c.txq = <<>> /\ ~c.close_after
  /\ c.state \in {"CLOSED", "FIN_WAIT_2"} => c.unacked = {}

\* NeverStalls for one connection.
Pulled(c) == c.state \in OpenStates /\ c.unacked = {} => c.txq = <<>> /\ ~c.close_after

\* TableFollowsConns for one connection.
Tied(m) == m.up.known <=> m.conn.state \in OpenStates \cup FinStates

MachineOK(m) == m \in Machines /\ Shape(m.conn) /\ Pulled(m.conn) /\ Tied(m)

\* Exactly one segment is in flight; it has these flags, and ends at snd_nxt.
Carries(c, flags) ==
  \E s \in ReplySegments : /\ c.unacked = {s} /\ s.flags = flags
                           /\ c.snd_nxt = SeqAdd(s.seq, SeqLen(s.flags, s.data))

\* The inductive invariant: the types, the state of every connection as its
\* handlers leave it, and the cap.
IInv == /\ TypeOK
        /\ \A p \in Peers : MachineOK(Machine(p))
        /\ Cardinality(Live) <= MaxConns

-----------------------------------------------------------------------------
(* Sequence numbers and frames. *)

\* seq_add stays within the sequence space.
LEMMA SeqAddType == ASSUME NEW s \in Int, NEW n \in Int PROVE SeqAdd(s, n) \in SeqNums
  BY TcpAssumption DEF SeqAdd, SeqNums

\* A frame is a segment of the kind its payload makes it.
LEMMA FrameType ==
  ASSUME NEW c \in Conn, NEW flags \in SUBSET Flags, NEW payload \in Seq(ResponseUnits)
  PROVE  /\ Frame(c, flags, payload) \in ReplySegments
         /\ Frame(c, flags, payload).flags = flags
         /\ Frame(c, flags, payload).data = payload
         /\ Frame(c, flags, payload).seq = c.snd_nxt
  <1>1. 0 \in SeqNums /\ c.rcv_nxt \in SeqNums /\ c.snd_nxt \in SeqNums /\ c.rwnd \in Nat
    BY TcpAssumption DEF SeqNums, Conn
  <1>2. QED
    BY <1>1 DEF Frame, ReplySegments, Segments

\* A reliable send keeps its frame and moves snd_nxt past it, and touches
\* neither the state nor the queue.
LEMMA SendRelOK ==
  ASSUME NEW m \in Machines, NEW flags \in SUBSET Flags, NEW payload \in Seq(ResponseUnits)
  PROVE  /\ SendRel(m, flags, payload) \in Machines
         /\ SendRel(m, flags, payload).up = m.up
         /\ SendRel(m, flags, payload).conn.state = m.conn.state
         /\ SendRel(m, flags, payload).conn.txq = m.conn.txq
         /\ SendRel(m, flags, payload).conn.close_after = m.conn.close_after
         /\ Carries(SendRel(m, flags, payload).conn, flags)
  <1> DEFINE f == Frame(m.conn, flags, payload)
             c == SentRel(m.conn, flags, payload)
  <1>1. m.conn \in Conn /\ m.out \in SUBSET ReplySegments /\ m.up \in Hsrv
    BY DEF Machines
  <1>2. /\ f \in ReplySegments /\ f.flags = flags /\ f.data = payload
        /\ f.seq = m.conn.snd_nxt
    BY <1>1, FrameType
  <1>3. SeqAdd(m.conn.snd_nxt, SeqLen(flags, payload)) \in SeqNums
    <2>1. m.conn.snd_nxt \in Int
      BY <1>1 DEF Conn, SeqNums
    <2>2. SeqLen(flags, payload) \in Int
      BY LenProperties DEF SeqLen
    <2>3. QED
      BY <2>1, <2>2, SeqAddType
  <1>4. 0 \in 0 .. MaxRetries
    BY TcpAssumption
  <1>5. c \in Conn
    BY <1>1, <1>2, <1>3, <1>4 DEF SentRel, Conn
  <1>6. /\ c.state = m.conn.state /\ c.txq = m.conn.txq
        /\ c.close_after = m.conn.close_after /\ c.unacked = {f}
        /\ c.snd_nxt = SeqAdd(m.conn.snd_nxt, SeqLen(flags, payload))
    BY <1>1 DEF SentRel, Conn
  <1>7. /\ SendRel(m, flags, payload) \in Machines
        /\ SendRel(m, flags, payload).conn = c
        /\ SendRel(m, flags, payload).up = m.up
    BY <1>1, <1>2, <1>5 DEF SendRel, Machines
  <1>8. Carries(c, flags)
    BY <1>2, <1>6 DEF Carries
  <1>9. QED
    BY <1>6, <1>7, <1>8

\* A bare acknowledgement changes nothing but the air.
LEMMA SendAckOK ==
  ASSUME NEW m \in Machines
  PROVE  /\ SendAck(m) \in Machines
         /\ SendAck(m).conn = m.conn
         /\ SendAck(m).up = m.up
  <1>1. Frame(m.conn, {"ACK"}, <<>>) \in ReplySegments
    BY FrameType, EmptySeq DEF Machines, Flags
  <1>2. QED
    BY <1>1 DEF SendAck, Machines

\* The queue engine keeps the shape of the connection, and leaves nothing
\* queued or to be closed without a segment in flight ahead of it.
LEMMA TxqKickOK ==
  ASSUME NEW m \in Machines, Shape(m.conn)
  PROVE  /\ TxqKick(m) \in Machines
         /\ Shape(TxqKick(m).conn) /\ Pulled(TxqKick(m).conn)
         /\ TxqKick(m).up = m.up
         /\ TxqKick(m).conn.state \in OpenStates \cup FinStates
              <=> m.conn.state \in OpenStates \cup FinStates
  <1> USE DEF OpenStates, FinStates
  <1>1. CASE m.conn.state \notin OpenStates \/ m.conn.unacked # {}
    BY <1>1 DEF TxqKick, Pulled
  <1>2. CASE /\ m.conn.state \in OpenStates /\ m.conn.unacked = {}
             /\ m.conn.txq # <<>>
    <2> DEFINE popped == [m EXCEPT !.conn.txq = Tail(@)]
               n == SendRel(popped, {"ACK", "PSH"}, Head(m.conn.txq))
    <2>1. Head(m.conn.txq) \in Seq(ResponseUnits) /\ Tail(m.conn.txq) \in Seq(Seq(ResponseUnits))
      BY <1>2, HeadTailProperties DEF Machines, Conn
    <2>2. /\ popped \in Machines /\ popped.up = m.up
          /\ popped.conn.state = m.conn.state
      BY <2>1 DEF Machines, Conn
    <2>3. {"ACK", "PSH"} \in SUBSET Flags /\ "FIN" \notin {"ACK", "PSH"}
      BY DEF Flags
    <2>4. /\ n \in Machines /\ n.up = m.up /\ n.conn.state = m.conn.state
          /\ Carries(n.conn, {"ACK", "PSH"})
      BY <2>1, <2>2, <2>3, SendRelOK
    <2>5. TxqKick(m) = n
      BY <1>2 DEF TxqKick
    <2>6. Shape(n.conn) /\ Pulled(n.conn)
      BY <1>2, <2>3, <2>4 DEF Shape, Pulled, ActiveStates, Carries
    <2>7. QED
      BY <1>2, <2>4, <2>5, <2>6
  <1>3. CASE /\ m.conn.state \in OpenStates /\ m.conn.unacked = {}
             /\ m.conn.txq = <<>> /\ m.conn.close_after
    <2> DEFINE moved == [m EXCEPT !.conn.state = IF @ = "CLOSE_WAIT" THEN "LAST_ACK"
                                                 ELSE "FIN_WAIT_1"]
               n == SendRel(moved, {"ACK", "FIN"}, <<>>)
    <2>1. /\ moved \in Machines /\ moved.up = m.up /\ moved.conn.txq = <<>>
          /\ moved.conn.state \in {"LAST_ACK", "FIN_WAIT_1"}
      BY <1>3 DEF Machines, Conn, TcpStates
    <2>2. {"ACK", "FIN"} \in SUBSET Flags /\ <<>> \in Seq(ResponseUnits)
      BY EmptySeq DEF Flags
    <2> HIDE DEF moved
    <2>3. /\ n \in Machines /\ n.up = moved.up /\ n.conn.txq = moved.conn.txq
          /\ n.conn.state = moved.conn.state /\ Carries(n.conn, {"ACK", "FIN"})
      BY <2>1, <2>2, SendRelOK
    <2>4. /\ n \in Machines /\ n.up = m.up /\ n.conn.txq = <<>>
          /\ n.conn.state \in {"LAST_ACK", "FIN_WAIT_1"}
          /\ Carries(n.conn, {"ACK", "FIN"})
      BY <2>1, <2>3
    <2>5. TxqKick(m) = n
      BY <1>3 DEF TxqKick, moved
    <2>6. Shape(n.conn) /\ Pulled(n.conn)
      BY <2>4 DEF Shape, Pulled, ActiveStates, Carries
    <2>7. QED
      BY <1>3, <2>4, <2>5, <2>6
  <1>4. CASE /\ m.conn.state \in OpenStates /\ m.conn.unacked = {}
             /\ m.conn.txq = <<>> /\ ~m.conn.close_after
    BY <1>4 DEF TxqKick, Pulled
  <1>5. QED
    BY <1>1, <1>2, <1>3, <1>4

-----------------------------------------------------------------------------
(* What the server does from inside its callback. *)

\* tcp_write of chunks keeps a machine in order.
LEMMA TcpWriteOK ==
  ASSUME NEW m, MachineOK(m), NEW chunks \in Seq(Seq(ResponseUnits))
  PROVE  MachineOK(TcpWrite(m, chunks))
  <1> USE DEF OpenStates, FinStates
  <1>1. CASE m.conn.state \in OpenStates /\ chunks # <<>>
    <2> DEFINE n == [m EXCEPT !.conn.txq = @ \o chunks]
    <2>1. m.conn.txq \o chunks \in Seq(Seq(ResponseUnits))
      BY ConcatProperties DEF MachineOK, Machines, Conn
    <2>2. n \in Machines /\ n.up = m.up /\ n.conn.state = m.conn.state
      BY <2>1 DEF MachineOK, Machines, Conn
    <2>3. /\ n.conn.unacked = m.conn.unacked /\ n.conn.snd_nxt = m.conn.snd_nxt
          /\ n.conn.close_after = m.conn.close_after
      BY DEF MachineOK, Machines, Conn
    <2>4. Shape(n.conn)
      BY <1>1, <2>2, <2>3 DEF MachineOK, Shape
    <2>5. TcpWrite(m, chunks) = TxqKick(n)
      BY <1>1 DEF TcpWrite
    <2> HIDE DEF n
    <2>6. MachineOK(TxqKick(n))
      BY <2>2, <2>4, TxqKickOK DEF MachineOK, Tied
    <2>7. QED
      BY <2>5, <2>6
  <1>2. CASE ~(m.conn.state \in OpenStates /\ chunks # <<>>)
    BY <1>2 DEF TcpWrite
  <1>3. QED
    BY <1>1, <1>2

\* tcp_close keeps a machine in order.
LEMMA TcpCloseOK ==
  ASSUME NEW m, MachineOK(m)
  PROVE  MachineOK(TcpClose(m))
  <1> USE DEF OpenStates, FinStates
  <1>1. CASE m.conn.state \in OpenStates
    <2> DEFINE n == [m EXCEPT !.conn.close_after = TRUE]
    <2>1. n \in Machines /\ n.up = m.up /\ n.conn.state = m.conn.state
      BY DEF MachineOK, Machines, Conn
    <2>2. /\ n.conn.unacked = m.conn.unacked /\ n.conn.snd_nxt = m.conn.snd_nxt
          /\ n.conn.txq = m.conn.txq
      BY DEF MachineOK, Machines, Conn
    <2>3. Shape(n.conn)
      BY <1>1, <2>1, <2>2 DEF MachineOK, Shape
    <2>4. TcpClose(m) = TxqKick(n)
      BY <1>1 DEF TcpClose
    <2> HIDE DEF n
    <2>5. MachineOK(TxqKick(n))
      BY <2>1, <2>3, TxqKickOK DEF MachineOK, Tied
    <2>6. QED
      BY <2>4, <2>5
  <1>2. CASE m.conn.state \notin OpenStates
    BY <1>2 DEF TcpClose
  <1>3. QED
    BY <1>1, <1>2

\* A response is a text of the server's units, and its chunks are payloads.
LEMMA ResponseType ==
  ASSUME NEW status \in Statuses
  PROVE  /\ Response(status) \in Seq(ResponseUnits)
         /\ Chunks(Response(status)) \in Seq(Seq(ResponseUnits))
  <1>1. RespLen[status] \in Nat
    BY HsrvAssumption
  <1>2. \A i \in 1 .. RespLen[status] : [status |-> status, part |-> i] \in ResponseUnits
    BY <1>1 DEF ResponseUnits
  <1>3. Response(status) \in Seq(ResponseUnits)
    BY <1>1, <1>2 DEF Response
  <1>4. Len(Response(status)) \in Nat
        /\ \A i \in 1 .. Len(Response(status)) : Response(status)[i] \in ResponseUnits
    BY <1>3, LenProperties, ElementOfSeq
  <1>5. \A i \in 1 .. Len(Response(status)) : <<Response(status)[i]>> \in Seq(ResponseUnits)
    BY <1>4
  <1>6. QED
    BY <1>3, <1>4, <1>5 DEF Chunks

\* A machine keeps its order when only the server's own bookkeeping of an
\* entry it has, or has not, changes.
LEMMA UpOK ==
  ASSUME NEW m, MachineOK(m), NEW up \in Hsrv, up.known <=> m.up.known
  PROVE  MachineOK([m EXCEPT !.up = up])
  <1>1. /\ [m EXCEPT !.up = up] \in Machines
        /\ [m EXCEPT !.up = up].conn = m.conn /\ [m EXCEPT !.up = up].up = up
    BY DEF MachineOK, Machines
  <1>2. QED
    BY <1>1 DEF MachineOK, Tied

\* Answering writes, closes, and marks the request as done.
LEMMA HsrvAnswerOK ==
  ASSUME NEW m, MachineOK(m), NEW status \in Statuses
  PROVE  MachineOK(HsrvAnswer(m, status))
  <1> DEFINE up == [m.up EXCEPT !.done = TRUE, !.said = @ \o Response(status)]
             n == [m EXCEPT !.up = up]
  <1>1. m.up.said \o Response(status) \in Seq(ResponseUnits)
    BY ResponseType, ConcatProperties DEF MachineOK, Machines, Hsrv
  <1>2. up \in Hsrv /\ (up.known <=> m.up.known)
    BY <1>1 DEF MachineOK, Machines, Hsrv
  <1>3. MachineOK(n)
    BY <1>2, UpOK
  <1>4. MachineOK(TcpClose(TcpWrite(n, Chunks(Response(status)))))
    BY <1>3, ResponseType, TcpWriteOK, TcpCloseOK
  <1>5. [m EXCEPT !.up.done = TRUE, !.up.said = @ \o Response(status)] = n
    BY DEF MachineOK, Machines, Hsrv
  <1>6. QED
    BY <1>4, <1>5 DEF HsrvAnswer

\* Request data, whole or in part, before or after the answer.
LEMMA HsrvDataOK ==
  ASSUME NEW m, MachineOK(m), NEW data \in Seq(RequestUnits)
  PROVE  MachineOK(HsrvData(m, data))
  <1>1. CASE ~m.up.known \/ m.up.done
    BY <1>1 DEF HsrvData
  <1>2. CASE m.up.known /\ ~m.up.done
    <2> DEFINE buf == m.up.buf \o data
               n == [m EXCEPT !.up = [m.up EXCEPT !.buf = buf]]
    <2>1. buf \in Seq(RequestUnits)
      BY ConcatProperties DEF MachineOK, Machines, Hsrv
    <2>2. [m.up EXCEPT !.buf = buf] \in Hsrv
          /\ [m.up EXCEPT !.buf = buf].known = m.up.known
      BY <2>1 DEF MachineOK, Machines, Hsrv
    <2>3. MachineOK(n)
      BY <2>2, UpOK
    <2>4. [m EXCEPT !.up.buf = buf] = n
      BY DEF MachineOK, Machines, Hsrv
    <2>5. Route(buf) \in Statuses /\ 400 \in Statuses
      BY DEF Route, Statuses
    <2>6. MachineOK(HsrvAnswer(n, 400)) /\ MachineOK(HsrvAnswer(n, Route(buf)))
      BY <2>3, <2>5, HsrvAnswerOK
    <2>7. QED
      BY <1>2, <2>3, <2>4, <2>6 DEF HsrvData
  <1>3. QED
    BY <1>1, <1>2

-----------------------------------------------------------------------------
(* What a segment or a tick does. *)

\* A connection that dies leaves neither a record nor an entry.
LEMMA DieOK ==
  ASSUME NEW m \in Machines, NEW ev \in {"CLOSED", "ERROR"}
  PROVE  MachineOK(Die(m, ev)) /\ Die(m, ev).conn = NoConn
  <1>1. NoConn \in Conn
    BY TcpAssumption, EmptySeq DEF NoConn, NewConn, Conn, SeqNums, TcpStates
  <1>2. Shape(NoConn) /\ Pulled(NoConn) /\ NoConn.state = "CLOSED"
    BY DEF NoConn, NewConn, Shape, Pulled, ActiveStates, OpenStates, FinStates
  <1> DEFINE up == [m.up EXCEPT !.known = FALSE, !.buf = <<>>, !.done = FALSE, !.ended = ev]
  <1>3. up \in Hsrv /\ ~up.known
    BY EmptySeq DEF Machines, Hsrv
  <1>4. Die(m, ev) = [m EXCEPT !.conn = NoConn, !.up = up]
    BY DEF Die, Ended, HsrvEnded, Machines, Hsrv
  <1> HIDE DEF up
  <1>5. Die(m, ev) \in Machines /\ Die(m, ev).conn = NoConn /\ Die(m, ev).up = up
    BY <1>1, <1>3, <1>4 DEF Machines
  <1>6. QED
    BY <1>2, <1>3, <1>5 DEF MachineOK, Tied, OpenStates, FinStates

\* An acknowledgement takes the segment in flight off, moves the state on,
\* and pulls the queue.
LEMMA AckInOK ==
  ASSUME NEW m, MachineOK(m), NEW s
  PROVE  MachineOK(AckIn(m, s))
  <1> DEFINE acked == [m EXCEPT !.conn.unacked = {}]
             estab == [acked EXCEPT !.conn.state = "ESTAB"]
             half  == [acked EXCEPT !.conn.state = "FIN_WAIT_2"]
  <1>1. CASE "ACK" \notin s.flags \/ m.conn.unacked = {} \/ s.ack # m.conn.snd_nxt
    BY <1>1 DEF AckIn
  <1>2. CASE ~("ACK" \notin s.flags \/ m.conn.unacked = {} \/ s.ack # m.conn.snd_nxt)
    <2>1. m.conn.unacked # {}
      BY <1>2
    <2>2. /\ acked \in Machines /\ acked.up = m.up /\ acked.conn.unacked = {}
          /\ acked.conn.state = m.conn.state /\ acked.conn.txq = m.conn.txq
          /\ acked.conn.close_after = m.conn.close_after
      BY DEF MachineOK, Machines, Conn
    <2>3. CASE m.conn.state = "SYN_RCVD"
      <3>1. /\ estab \in Machines /\ estab.conn.state = "ESTAB"
            /\ estab.conn.unacked = {} /\ estab.conn.txq = <<>> /\ ~estab.conn.close_after
        BY <2>3 DEF MachineOK, Machines, Conn, TcpStates, OpenStates, Shape
      <3>2. Shape(estab.conn) /\ Pulled(estab.conn)
        BY <3>1 DEF Shape, Pulled, ActiveStates, FinStates
      <3>3. AckIn(m, s) = Connected(estab)
        BY <1>2, <2>3 DEF AckIn
      <3> HIDE DEF estab
      <3> DEFINE up == [estab.up EXCEPT !.known = TRUE, !.buf = <<>>, !.done = FALSE]
      <3>4. up \in Hsrv /\ up.known
        BY <3>1, EmptySeq DEF Machines, Hsrv
      <3>5. Connected(estab) = [estab EXCEPT !.up = up]
        BY <3>1 DEF Connected, HsrvConnected, Machines, Hsrv
      <3> HIDE DEF up
      <3>6. MachineOK([estab EXCEPT !.up = up])
        BY <3>1, <3>2, <3>4 DEF MachineOK, Machines, Tied, OpenStates
      <3>7. QED
        BY <3>3, <3>5, <3>6
    <2>4. CASE m.conn.state = "FIN_WAIT_1"
      <3>1. /\ half \in Machines /\ half.up = m.up /\ half.conn.state = "FIN_WAIT_2"
            /\ half.conn.unacked = {} /\ half.conn.txq = <<>>
        BY <2>4 DEF MachineOK, Machines, Conn, TcpStates, FinStates, Shape
      <3>2. Shape(half.conn) /\ Pulled(half.conn)
        BY <3>1 DEF Shape, Pulled, ActiveStates, OpenStates
      <3>3. AckIn(m, s) = half
        BY <1>2, <2>4 DEF AckIn
      <3> HIDE DEF half
      <3>4. QED
        BY <2>4, <3>1, <3>2, <3>3 DEF MachineOK, Tied, FinStates
    <2>5. CASE m.conn.state = "LAST_ACK"
      <3>1. AckIn(m, s) = Die(acked, "CLOSED")
        BY <1>2, <2>5 DEF AckIn
      <3>2. QED
        BY <2>2, <3>1, DieOK
    <2>6. CASE m.conn.state \notin {"SYN_RCVD", "FIN_WAIT_1", "LAST_ACK"}
      <3>1. m.conn.state \in OpenStates
        BY <2>1, <2>6
           DEF MachineOK, Machines, Conn, Shape, TcpStates, PassiveStates, OpenStates, FinStates
      <3>2. AckIn(m, s) = TxqKick(acked)
        BY <1>2, <2>6 DEF AckIn
      <3> HIDE DEF acked
      <3>3. Shape(acked.conn)
        BY <2>2, <3>1 DEF Shape, ActiveStates, OpenStates, FinStates
      <3>4. MachineOK(TxqKick(acked))
        BY <2>2, <3>1, <3>3, TxqKickOK DEF MachineOK, Tied
      <3>5. QED
        BY <3>2, <3>4
    <2>7. QED
      BY <2>3, <2>4, <2>5, <2>6
  <1>3. QED
    BY <1>1, <1>2

\* Moving rcv_nxt disturbs nothing.
LEMMA RcvNxtOK ==
  ASSUME NEW m, MachineOK(m), NEW n \in Nat
  PROVE  /\ MachineOK([m EXCEPT !.conn.rcv_nxt = SeqAdd(@, n)])
         /\ [m EXCEPT !.conn.rcv_nxt = SeqAdd(@, n)].conn.state = m.conn.state
         /\ [m EXCEPT !.conn.rcv_nxt = SeqAdd(@, n)].conn.unacked = m.conn.unacked
         /\ [m EXCEPT !.conn.rcv_nxt = SeqAdd(@, n)].conn.txq = m.conn.txq
  <1> DEFINE v == SeqAdd(m.conn.rcv_nxt, n)
             k == [m EXCEPT !.conn.rcv_nxt = v]
  <1>1. v \in SeqNums
    <2>1. m.conn.rcv_nxt \in Int /\ n \in Int
      BY DEF MachineOK, Machines, Conn, SeqNums
    <2>2. QED
      BY <2>1, SeqAddType
  <1> HIDE DEF v
  <1>2. /\ k \in Machines /\ k.up = m.up /\ k.conn.state = m.conn.state
        /\ k.conn.unacked = m.conn.unacked /\ k.conn.snd_nxt = m.conn.snd_nxt
        /\ k.conn.txq = m.conn.txq /\ k.conn.close_after = m.conn.close_after
    BY <1>1 DEF MachineOK, Machines, Conn
  <1>3. MachineOK(k)
    BY <1>2 DEF MachineOK, Shape, Pulled, Tied
  <1>4. QED
    BY <1>2, <1>3 DEF v

\* In-order payload is acknowledged and handed to the server.
LEMMA DataInOK ==
  ASSUME NEW m, MachineOK(m), NEW s \in RequestSegments
  PROVE  MachineOK(DataIn(m, s))
  <1>1. CASE s.data = <<>>
    BY <1>1 DEF DataIn
  <1>2. CASE s.data # <<>>
    <2> DEFINE k == [m EXCEPT !.conn.rcv_nxt = SeqAdd(@, Len(s.data))]
    <2>1. s.data \in Seq(RequestUnits) /\ Len(s.data) \in Nat
      BY LenProperties DEF RequestSegments, Segments
    <2>2. MachineOK(k)
      BY <2>1, RcvNxtOK
    <2>3. DataIn(m, s) = HsrvData(SendAck(k), s.data)
      BY <1>2 DEF DataIn, Data
    <2> HIDE DEF k
    <2>4. MachineOK(SendAck(k))
      BY <2>2, SendAckOK DEF MachineOK, Tied
    <2>5. QED
      BY <2>1, <2>3, <2>4, HsrvDataOK
  <1>3. QED
    BY <1>1, <1>2

\* The peer's FIN, whatever the connection it meets.
LEMMA FinInOK ==
  ASSUME NEW m, MachineOK(m)
  PROVE  MachineOK(FinIn(m))
  <1> DEFINE got  == [m EXCEPT !.conn.rcv_nxt = SeqAdd(@, 1)]
             last == [got EXCEPT !.conn.state = "LAST_ACK"]
             wait == [got EXCEPT !.conn.state = "CLOSE_WAIT", !.conn.close_after = TRUE]
  <1>1. /\ MachineOK(got) /\ got.conn.state = m.conn.state
        /\ got.conn.unacked = m.conn.unacked /\ got.conn.txq = m.conn.txq
    BY RcvNxtOK
  <1> HIDE DEF got
  <1>2. CASE m.conn.state = "ESTAB" /\ m.conn.unacked = {} /\ m.conn.txq = <<>>
    <2>1. /\ last \in Machines /\ last.up = got.up /\ last.conn.state = "LAST_ACK"
          /\ last.conn.txq = <<>>
      BY <1>1, <1>2 DEF MachineOK, Machines, Conn, TcpStates, FinStates
    <2>2. {"ACK", "FIN"} \in SUBSET Flags /\ <<>> \in Seq(ResponseUnits)
      BY EmptySeq DEF Flags
    <2>3. FinIn(m) = SendRel(last, {"ACK", "FIN"}, <<>>)
      BY <1>2 DEF FinIn, got
    <2> HIDE DEF last
    <2> DEFINE n == SendRel(last, {"ACK", "FIN"}, <<>>)
    <2>4. /\ n \in Machines /\ n.up = got.up /\ n.conn.state = "LAST_ACK"
          /\ n.conn.txq = <<>> /\ Carries(n.conn, {"ACK", "FIN"})
      BY <2>1, <2>2, SendRelOK
    <2> HIDE DEF n
    <2>5. Shape(n.conn) /\ Pulled(n.conn)
      BY <2>4 DEF Shape, Pulled, Carries, ActiveStates, OpenStates
    <2>6. got.up.known
      BY <1>1, <1>2 DEF MachineOK, Tied, OpenStates
    <2>7. MachineOK(n)
      BY <2>4, <2>5, <2>6 DEF MachineOK, Tied, FinStates
    <2>8. QED
      BY <2>3, <2>7 DEF n
  <1>3. CASE m.conn.state = "ESTAB" /\ ~(m.conn.unacked = {} /\ m.conn.txq = <<>>)
    <2>1. /\ wait \in Machines /\ wait.up = got.up /\ wait.conn.state = "CLOSE_WAIT"
          /\ wait.conn.unacked = got.conn.unacked /\ wait.conn.snd_nxt = got.conn.snd_nxt
      BY <1>1 DEF MachineOK, Machines, Conn, TcpStates, OpenStates
    <2>2. m.conn.unacked # {}
      BY <1>3 DEF MachineOK, Pulled, OpenStates
    <2>3. FinIn(m) = SendAck(wait)
      BY <1>3 DEF FinIn, got
    <2> HIDE DEF wait
    <2>4. Shape(wait.conn) /\ Pulled(wait.conn)
      BY <1>1, <1>3, <2>1, <2>2
         DEF MachineOK, Shape, Pulled, ActiveStates, FinStates, OpenStates
    <2>5. MachineOK(wait)
      BY <1>1, <1>3, <2>1, <2>4 DEF MachineOK, Tied, OpenStates, FinStates
    <2>6. QED
      BY <2>3, <2>5, SendAckOK DEF MachineOK, Tied
  <1>4. CASE m.conn.state # "ESTAB"
    <2>1. FinIn(m) = Die(SendAck(got), "CLOSED")
      BY <1>4 DEF FinIn, got
    <2>2. SendAck(got) \in Machines
      BY <1>1, SendAckOK DEF MachineOK
    <2>3. QED
      BY <2>1, <2>2, DieOK
  <1>5. QED
    BY <1>2, <1>3, <1>4

\* tcp_input on a connection of the table.
LEMMA InputOK ==
  ASSUME NEW m, MachineOK(m), NEW s \in RequestSegments
  PROVE  MachineOK(Input(m, s))
  <1> DEFINE acked == AckIn(m, s)
  <1>1. MachineOK(acked)
    BY AckInOK
  <1>2. MachineOK(SendAck(acked))
    BY <1>1, SendAckOK DEF MachineOK, Tied
  <1>3. MachineOK(InOrder(acked, s))
    BY <1>1, DataInOK, FinInOK DEF InOrder
  <1>4. MachineOK(Die(m, "ERROR"))
    BY DieOK DEF MachineOK
  <1>5. QED
    BY <1>1, <1>2, <1>3, <1>4 DEF Input

\* The timer on a connection with a segment in flight.
LEMMA RetransmitOK ==
  ASSUME NEW m, MachineOK(m), m.conn.unacked # {}
  PROVE  MachineOK(Retransmit(m))
  <1>1. CASE m.conn.retries + 1 > MaxRetries
    BY <1>1, DieOK DEF Retransmit, MachineOK
  <1>2. CASE ~(m.conn.retries + 1 > MaxRetries)
    <2> DEFINE n == [m EXCEPT !.conn.retries = @ + 1, !.out = @ \cup m.conn.unacked]
    <2>1. m.conn.retries + 1 \in 0 .. MaxRetries /\ m.conn.unacked \in SUBSET ReplySegments
      BY <1>2, TcpAssumption DEF MachineOK, Machines, Conn
    <2>2. /\ n \in Machines /\ n.up = m.up /\ n.conn.state = m.conn.state
          /\ n.conn.unacked = m.conn.unacked /\ n.conn.snd_nxt = m.conn.snd_nxt
          /\ n.conn.txq = m.conn.txq /\ n.conn.close_after = m.conn.close_after
      BY <2>1 DEF MachineOK, Machines, Conn
    <2>3. Retransmit(m) = n
      BY <1>2 DEF Retransmit
    <2> HIDE DEF n
    <2>4. QED
      BY <2>2, <2>3 DEF MachineOK, Shape, Pulled, Tied
  <1>3. QED
    BY <1>1, <1>2

\* A fresh SYN makes an embryo out of a peer that had no connection.
LEMMA AcceptOK ==
  ASSUME NEW m, MachineOK(m), m.conn.state = "CLOSED",
         NEW s \in RequestSegments, NEW iss \in SeqNums
  PROVE  MachineOK(Accept(m, s, iss))
  <1> DEFINE rcv == SeqAdd(s.seq, 1)
             c == NewConn("SYN_RCVD", iss, rcv)
             k == [m EXCEPT !.conn = c]
             n == SendRel(k, {"SYN", "ACK"}, <<>>)
  <1>1. rcv \in SeqNums
    <2>1. s.seq \in Int
      BY DEF RequestSegments, Segments, SeqNums
    <2>2. QED
      BY <2>1, SeqAddType
  <1> HIDE DEF rcv
  <1>2. c \in Conn /\ c.state = "SYN_RCVD" /\ c.txq = <<>> /\ ~c.close_after
    <2>1. /\ <<>> \in Seq(Seq(ResponseUnits)) /\ 0 \in 0 .. MaxRetries /\ Window \in Nat
          /\ "SYN_RCVD" \in TcpStates
      BY TcpAssumption, EmptySeq DEF TcpStates, PassiveStates
    <2>2. QED
      BY <1>1, <2>1 DEF NewConn, Conn
  <1>3. k \in Machines /\ k.up = m.up /\ k.conn = c
    BY <1>2 DEF MachineOK, Machines
  <1>4. {"SYN", "ACK"} \in SUBSET Flags /\ <<>> \in Seq(ResponseUnits)
    BY EmptySeq DEF Flags
  <1> HIDE DEF k, c
  <1>5. /\ n \in Machines /\ n.up = m.up /\ n.conn.state = "SYN_RCVD"
        /\ n.conn.txq = <<>> /\ ~n.conn.close_after /\ Carries(n.conn, {"SYN", "ACK"})
    <2>1. /\ n \in Machines /\ n.up = k.up /\ n.conn.state = k.conn.state
          /\ n.conn.txq = k.conn.txq /\ n.conn.close_after = k.conn.close_after
          /\ Carries(n.conn, {"SYN", "ACK"})
      BY <1>3, <1>4, SendRelOK
    <2>2. QED
      BY <1>2, <1>3, <2>1
  <1>6. Accept(m, s, iss) = n
    BY DEF Accept, k, c, rcv
  <1> HIDE DEF n
  <1>7. "FIN" \notin {"SYN", "ACK"}
    OBVIOUS
  <1>8. Shape(n.conn) /\ Pulled(n.conn)
    BY <1>5, <1>7 DEF Shape, Pulled, Carries, ActiveStates, OpenStates, FinStates
  <1>9. ~m.up.known
    BY DEF MachineOK, Tied, OpenStates, FinStates
  <1>10. QED
    BY <1>5, <1>6, <1>8, <1>9 DEF MachineOK, Tied, OpenStates, FinStates

-----------------------------------------------------------------------------
(* The steps of the specification. *)

\* The machine of a peer, as the variables' types make it.
LEMMA MachineType ==
  ASSUME TypeOK, NEW p \in Peers
  PROVE  /\ Machine(p) \in Machines
         /\ Machine(p).conn = conns[p] /\ Machine(p).up = hsrv[p]
  BY DEF TypeOK, Machine, Machines

\* A handler that leaves a machine in order at p leaves every machine so, and
\* the three tables typed.
LEMMA LeaveOK ==
  ASSUME TypeOK, \A q \in Peers : MachineOK(Machine(q)),
         NEW p \in Peers, NEW m, MachineOK(m), Leave(p, m)
  PROVE  /\ conns' \in [Peers -> Conn] /\ hsrv' \in [Peers -> Hsrv]
         /\ toPeer' \in [Peers -> SUBSET ReplySegments]
         /\ \A q \in Peers : MachineOK(Machine(q))'
         /\ conns'[p] = m.conn /\ \A q \in Peers \ {p} : conns'[q] = conns[q]
  <1>1. m.conn \in Conn /\ m.out \in SUBSET ReplySegments /\ m.up \in Hsrv
    BY DEF MachineOK, Machines
  <1>2. /\ conns' \in [Peers -> Conn] /\ hsrv' \in [Peers -> Hsrv]
        /\ toPeer' \in [Peers -> SUBSET ReplySegments]
        /\ conns'[p] = m.conn /\ hsrv'[p] = m.up
        /\ \A q \in Peers \ {p} : conns'[q] = conns[q] /\ hsrv'[q] = hsrv[q]
    BY <1>1 DEF Leave, TypeOK
  <1>3. ASSUME NEW q \in Peers PROVE MachineOK(Machine(q))'
    <2>1. MachineOK([conn |-> conns'[q], out |-> {}, up |-> hsrv'[q]])
      <3>1. CASE q = p
        BY <1>1, <1>2, <3>1 DEF MachineOK, Machines, Tied
      <3>2. CASE q # p
        BY <1>2, <3>2 DEF Machine
      <3>3. QED
        BY <3>1, <3>2
    <2>2. QED
      BY <2>1 DEF Machine, MachineOK, Tied
  <1>4. QED
    BY <1>2, <1>3

\* The table never grows past the cap: only an accept adds to it.
LEMMA CapOK ==
  ASSUME Cardinality(Live) <= MaxConns, NEW p \in Peers,
         \A q \in Peers \ {p} : conns'[q] = conns[q],
         conns[p].state # "CLOSED" \/ Cardinality(Live) < MaxConns
  PROVE  Cardinality(Live') <= MaxConns
  <1>1. IsFiniteSet(Live) /\ IsFiniteSet(Live \cup {p})
    BY ServerAssumption, FS_Subset, FS_AddElement DEF Live
  <1>2. Cardinality(Live) \in Nat /\ Cardinality(Live \cup {p}) \in Nat /\ MaxConns \in Nat
    BY <1>1, FS_CardinalityType, ServerAssumption
  <1>3. Cardinality(Live \cup {p}) <= MaxConns
    <2>1. CASE conns[p].state # "CLOSED"
      BY <2>1, <1>1, <1>2, FS_AddElement DEF Live
    <2>2. CASE Cardinality(Live) < MaxConns
      BY <2>2, <1>1, <1>2, FS_AddElement
    <2>3. QED
      BY <2>1, <2>2
  <1>4. Live' \in SUBSET (Live \cup {p})
    BY DEF Live
  <1>5. Cardinality(Live') \in Nat /\ Cardinality(Live') <= Cardinality(Live \cup {p})
    BY <1>1, <1>4, FS_Subset, FS_CardinalityType
  <1>6. QED
    BY <1>2, <1>3, <1>5

\* A segment from p, known or not.
LEMMA RxOK ==
  ASSUME IInv, NEW p \in Peers, Rx(p)
  PROVE  IInv'
  <1>1. PICK s \in toRabbit[p] : RxUnknown(p, s) \/ RxKnown(p, s)
    BY DEF Rx
  <1>2. s \in RequestSegments /\ MachineOK(Machine(p)) /\ Machine(p).conn = conns[p]
    BY MachineType DEF IInv, TypeOK
  <1>3. CASE RxUnknown(p, s)
    <2>1. embryos[p] \in 0 .. MaxEmbryos /\ embryos[p] < MaxEmbryos /\ MaxEmbryos \in Nat
      BY <1>3, ServerAssumption DEF RxUnknown, IInv, TypeOK
    <2>2. Iss(p, embryos[p]) \in SeqNums
      BY <2>1, ServerAssumption
    <2> DEFINE m == Accept(Machine(p), s, Iss(p, embryos[p]))
    <2>3. MachineOK(m)
      BY <1>2, <1>3, <2>2, AcceptOK DEF RxUnknown
    <2>4. Leave(p, m)
      BY <1>3 DEF RxUnknown
    <2> HIDE DEF m
    <2>5. /\ conns' \in [Peers -> Conn] /\ hsrv' \in [Peers -> Hsrv]
          /\ toPeer' \in [Peers -> SUBSET ReplySegments]
          /\ \A q \in Peers : MachineOK(Machine(q))'
          /\ \A q \in Peers \ {p} : conns'[q] = conns[q]
      BY <2>3, <2>4, LeaveOK DEF IInv
    <2>6. embryos' \in [Peers -> 0 .. MaxEmbryos]
      BY <1>3, <2>1 DEF RxUnknown, IInv, TypeOK
    <2>7. Cardinality(Live') <= MaxConns
      BY <1>3, <2>5, CapOK DEF RxUnknown, IInv
    <2>8. QED
      BY <1>3, <2>5, <2>6, <2>7 DEF RxUnknown, IInv, TypeOK
  <1>4. CASE RxKnown(p, s)
    <2> DEFINE m == Input(Machine(p), s)
    <2>1. MachineOK(m)
      BY <1>2, InputOK
    <2>2. Leave(p, m)
      BY <1>4 DEF RxKnown
    <2> HIDE DEF m
    <2>3. /\ conns' \in [Peers -> Conn] /\ hsrv' \in [Peers -> Hsrv]
          /\ toPeer' \in [Peers -> SUBSET ReplySegments]
          /\ \A q \in Peers : MachineOK(Machine(q))'
          /\ \A q \in Peers \ {p} : conns'[q] = conns[q]
      BY <2>1, <2>2, LeaveOK DEF IInv
    <2>4. Cardinality(Live') <= MaxConns
      BY <1>4, <2>3, CapOK DEF RxKnown, IInv
    <2>5. QED
      BY <1>4, <2>3, <2>4 DEF RxKnown, IInv, TypeOK
  <1>5. QED
    BY <1>1, <1>3, <1>4

\* One pass of the timer: it only ever takes connections away.
LEMMA TickOK ==
  ASSUME IInv, Tick
  PROVE  IInv'
  <1>1. PICK due \in SUBSET InFlight : Timer(due)
    BY DEF Tick
  <1> DEFINE m(q) == Retransmit(Machine(q))
  <1>2. ASSUME NEW q \in Peers, q \in due
        PROVE  MachineOK(m(q)) /\ conns[q].state # "CLOSED"
    <2>1. /\ MachineOK(Machine(q)) /\ Machine(q).conn.unacked # {}
          /\ conns[q].state # "CLOSED"
      BY <1>2, MachineType DEF IInv, InFlight, Live
    <2>2. QED
      BY <2>1, RetransmitOK
  <1>3. \A q \in Peers :
          /\ conns'[q] = IF q \in due THEN m(q).conn ELSE conns[q]
          /\ hsrv'[q] = IF q \in due THEN m(q).up ELSE hsrv[q]
          /\ toPeer'[q] = IF q \in due THEN toPeer[q] \cup m(q).out ELSE toPeer[q]
    BY <1>1 DEF Timer
  <1>4. /\ conns' = [q \in Peers |-> conns'[q]] /\ hsrv' = [q \in Peers |-> hsrv'[q]]
        /\ toPeer' = [q \in Peers |-> toPeer'[q]]
    BY <1>1 DEF Timer
  <1> HIDE DEF m
  <1>5. ASSUME NEW q \in Peers
        PROVE  /\ conns'[q] \in Conn /\ hsrv'[q] \in Hsrv
               /\ toPeer'[q] \in SUBSET ReplySegments
               /\ MachineOK(Machine(q))'
    <2>1. CASE q \in due
      <3>1. /\ m(q).conn \in Conn /\ m(q).up \in Hsrv /\ m(q).out \in SUBSET ReplySegments
            /\ Shape(m(q).conn) /\ Pulled(m(q).conn) /\ Tied(m(q))
        BY <1>2, <2>1 DEF MachineOK, Machines
      <3>2. MachineOK([conn |-> conns'[q], out |-> {}, up |-> hsrv'[q]])
        BY <1>3, <2>1, <3>1 DEF MachineOK, Machines, Tied
      <3>3. toPeer[q] \in SUBSET ReplySegments
        BY DEF IInv, TypeOK
      <3>4. QED
        BY <1>3, <2>1, <3>1, <3>2, <3>3 DEF Machine, MachineOK, Tied
    <2>2. CASE q \notin due
      BY <1>3, <2>2 DEF Machine, MachineOK, Tied, IInv, TypeOK
    <2>3. QED
      BY <2>1, <2>2
  <1>6. /\ conns' \in [Peers -> Conn] /\ hsrv' \in [Peers -> Hsrv]
        /\ toPeer' \in [Peers -> SUBSET ReplySegments]
    BY <1>4, <1>5
  <1>7. Cardinality(Live') <= MaxConns
    <2>1. IsFiniteSet(Live) /\ Live' \in SUBSET Live
      BY <1>2, <1>3, ServerAssumption, FS_Subset DEF Live
    <2>2. /\ Cardinality(Live') \in Nat /\ Cardinality(Live) \in Nat
          /\ Cardinality(Live') <= Cardinality(Live)
      BY <2>1, FS_Subset, FS_CardinalityType
    <2>3. QED
      BY <2>2, ServerAssumption DEF IInv
  <1>8. UNCHANGED <<embryos, peers, toRabbit>>
    BY <1>1 DEF Timer
  <1>9. QED
    BY <1>5, <1>6, <1>7, <1>8 DEF IInv, TypeOK

\* A peer that sends well-typed segments disturbs nothing of the rabbit's.
LEMMA PeerSendsOK ==
  ASSUME IInv, NEW p \in Peers, NEW peer \in Peer, NEW segs \in SUBSET RequestSegments,
         PeerSends(p, peer, segs)
  PROVE  IInv'
  <1>1. /\ peers' \in [Peers -> Peer] /\ toRabbit' \in [Peers -> SUBSET RequestSegments]
        /\ UNCHANGED <<conns, hsrv, embryos, toPeer>>
    BY DEF PeerSends, IInv, TypeOK
  <1>2. TypeOK'
    BY <1>1 DEF IInv, TypeOK
  <1>3. \A q \in Peers : MachineOK(Machine(q))'
    BY <1>1 DEF IInv, Machine, MachineOK, Tied
  <1>4. Live' = Live
    BY <1>1 DEF Live
  <1>5. QED
    BY <1>2, <1>3, <1>4 DEF IInv

\* The segments a peer makes are well typed.
LEMMA SegType ==
  ASSUME NEW flags \in SUBSET Flags, NEW seq \in SeqNums, NEW ack \in SeqNums,
         NEW data \in Seq(RequestUnits)
  PROVE  {Seg(flags, seq, ack, data)} \in SUBSET RequestSegments
  BY DEF Seg, RequestSegments, Segments

\* A peer's place in its sequence space is a sequence number.
LEMMA PeerNxtType == ASSUME TypeOK, NEW p \in Peers PROVE PeerNxt(p) \in SeqNums
  <1>1. PeerIss \in Int /\ peers[p].sent \in Nat
    BY ServerAssumption DEF TypeOK, Peer, SeqNums
  <1>2. 1 + peers[p].sent + (IF peers[p].fin THEN 1 ELSE 0) \in Int
    BY <1>1
  <1>3. QED
    BY <1>1, <1>2, SeqAddType DEF PeerNxt

\* A step a peer takes by itself.
LEMMA PeerStepOK ==
  ASSUME IInv, NEW p \in Peers,
         \/ PeerConnect(p) \/ PeerWrite(p) \/ PeerFin(p) \/ PeerAbort(p) \/ PeerForget(p)
  PROVE  IInv'
  <1>1. /\ peers[p] \in Peer /\ peers[p].rcv \in SeqNums /\ PeerNxt(p) \in SeqNums
        /\ 0 \in SeqNums /\ PeerIss \in SeqNums /\ <<>> \in Seq(RequestUnits)
    BY SMTT(40), PeerNxtType, ServerAssumption, TcpAssumption, EmptySeq
       DEF IInv, TypeOK, Peer, SeqNums
  <1>2. /\ {"SYN"} \in SUBSET Flags /\ {"RST"} \in SUBSET Flags
        /\ {"ACK", "PSH"} \in SUBSET Flags /\ {"ACK", "FIN"} \in SUBSET Flags
    BY DEF Flags
  <1>3. {Reset} \in SUBSET RequestSegments
    BY <1>1, <1>2, SegType DEF Reset
  <1>4. CASE PeerConnect(p)
    <2>1. PICK req \in Requests :
             PeerSends(p, [peers[p] EXCEPT !.state = "syn", !.req = req],
                       {Seg({"SYN"}, PeerIss, 0, <<>>)})
      BY <1>4 DEF PeerConnect
    <2>2. [peers[p] EXCEPT !.state = "syn", !.req = req] \in Peer
      BY <1>1 DEF Peer
    <2>3. {Seg({"SYN"}, PeerIss, 0, <<>>)} \in SUBSET RequestSegments
      BY <1>1, <1>2, SegType
    <2>4. QED
      BY <2>1, <2>2, <2>3, PeerSendsOK
  <1>5. CASE PeerWrite(p)
    <2>1. PICK k \in 1 .. Len(peers[p].req) - peers[p].sent :
             PeerSends(p, [peers[p] EXCEPT !.sent = @ + k],
                       {Seg({"ACK", "PSH"}, PeerNxt(p), peers[p].rcv,
                            SubSeq(peers[p].req, peers[p].sent + 1, peers[p].sent + k))})
      BY <1>5 DEF PeerWrite
    <2>2. /\ peers[p].req \in Seq(RequestUnits) /\ peers[p].sent \in Nat
          /\ Len(peers[p].req) \in Nat
      BY <1>1, ServerAssumption, EmptySeq, LenProperties DEF Peer
    <2>3. \A i \in peers[p].sent + 1 .. peers[p].sent + k : peers[p].req[i] \in RequestUnits
      BY SMTT(40), <2>2, ElementOfSeq
    <2>4. SubSeq(peers[p].req, peers[p].sent + 1, peers[p].sent + k) \in Seq(RequestUnits)
      BY <2>2, <2>3, SubSeqProperties
    <2>5. [peers[p] EXCEPT !.sent = @ + k] \in Peer
      <3> DEFINE n == peers[p].sent + k
      <3>1. n \in Nat
        BY <2>2
      <3> HIDE DEF n
      <3>2. [peers[p] EXCEPT !.sent = n] \in Peer
        BY <1>1, <3>1 DEF Peer
      <3>3. QED
        BY <3>2 DEF n
    <2>6. QED
      BY <1>1, <1>2, <2>1, <2>4, <2>5, SegType, PeerSendsOK
  <1>6. CASE PeerFin(p)
    <2>1. [peers[p] EXCEPT !.fin = TRUE] \in Peer
      BY <1>1 DEF Peer
    <2>2. {Seg({"ACK", "FIN"}, PeerNxt(p), peers[p].rcv, <<>>)} \in SUBSET RequestSegments
      BY <1>1, <1>2, SegType
    <2>3. QED
      BY <1>6, <2>1, <2>2, PeerSendsOK DEF PeerFin
  <1>7. [peers[p] EXCEPT !.state = "over"] \in Peer /\ {} \in SUBSET RequestSegments
    BY <1>1 DEF Peer
  <1>8. CASE PeerAbort(p)
    BY <1>3, <1>7, <1>8, PeerSendsOK DEF PeerAbort
  <1>9. CASE PeerForget(p)
    BY <1>7, <1>9, PeerSendsOK DEF PeerForget
  <1>10. QED
    BY <1>4, <1>5, <1>6, <1>8, <1>9

\* A peer reading a segment of the rabbit's.
LEMMA PeerRxOK ==
  ASSUME IInv, NEW p \in Peers, PeerRx(p)
  PROVE  IInv'
  <1>1. PICK s \in toPeer[p] : \/ PeerSynAck(p, s) \/ PeerTake(p, s)
                               \/ PeerReAck(p, s)  \/ PeerRefuse(p, s)
    BY DEF PeerRx
  <1>2. /\ peers[p] \in Peer /\ peers[p].rcv \in SeqNums /\ PeerNxt(p) \in SeqNums
        /\ 0 \in SeqNums /\ <<>> \in Seq(RequestUnits)
    BY PeerNxtType, TcpAssumption, EmptySeq DEF IInv, TypeOK, Peer, SeqNums
  <1>3. s.data \in Seq(ResponseUnits) /\ s.seq \in SeqNums
    BY DEF IInv, TypeOK, ReplySegments, Segments
  <1>4. {"ACK"} \in SUBSET Flags /\ {"RST"} \in SUBSET Flags
    BY DEF Flags
  <1>5. ASSUME NEW rcv \in SeqNums
        PROVE  {Seg({"ACK"}, PeerNxt(p), rcv, <<>>)} \in SUBSET RequestSegments
    BY <1>2, <1>4, SegType
  <1>6. CASE PeerSynAck(p, s)
    <2> DEFINE rcv == SeqAdd(s.seq, 1)
    <2>1. rcv \in SeqNums
      <3>1. s.seq \in Int
        BY <1>3 DEF SeqNums
      <3>2. QED
        BY <3>1, SeqAddType
    <2>2. PeerSends(p, [peers[p] EXCEPT !.state = "open", !.rcv = rcv],
                    {Seg({"ACK"}, PeerNxt(p), rcv, <<>>)})
      BY <1>6 DEF PeerSynAck
    <2> HIDE DEF rcv
    <2>3. [peers[p] EXCEPT !.state = "open", !.rcv = rcv] \in Peer
      BY <1>2, <2>1 DEF Peer
    <2>4. QED
      BY <1>5, <2>1, <2>2, <2>3, PeerSendsOK
  <1>7. CASE PeerTake(p, s)
    <2> DEFINE rcv == SeqAdd(s.seq, SeqLen(s.flags, s.data))
               peer == [peers[p] EXCEPT !.rcv = rcv, !.got = @ \o s.data,
                                        !.eof = @ \/ "FIN" \in s.flags]
    <2>1. rcv \in SeqNums
      <3>1. s.seq \in Int /\ SeqLen(s.flags, s.data) \in Int
        BY <1>3, LenProperties DEF SeqNums, SeqLen
      <3>2. QED
        BY <3>1, SeqAddType
    <2>2. PeerSends(p, peer, {Seg({"ACK"}, PeerNxt(p), rcv, <<>>)})
      BY <1>7 DEF PeerTake
    <2> HIDE DEF rcv
    <2>3. peers[p].got \o s.data \in Seq(ResponseUnits)
      BY <1>2, <1>3, ConcatProperties DEF Peer
    <2>4. (peers[p].eof \/ "FIN" \in s.flags) \in BOOLEAN
      OBVIOUS
    <2>5. peer \in Peer
      BY <1>2, <2>1, <2>3, <2>4 DEF Peer
    <2> HIDE DEF peer
    <2>6. QED
      BY <1>5, <2>1, <2>2, <2>5, PeerSendsOK
  <1>8. CASE PeerReAck(p, s)
    BY <1>2, <1>5, <1>8, PeerSendsOK DEF PeerReAck
  <1>9. CASE PeerRefuse(p, s)
    <2>1. {Reset} \in SUBSET RequestSegments
      BY <1>2, <1>4, SegType DEF Reset
    <2>2. QED
      BY <1>2, <1>9, <2>1, PeerSendsOK DEF PeerRefuse
  <1>10. QED
    BY <1>1, <1>6, <1>7, <1>8, <1>9

-----------------------------------------------------------------------------
(* The theorems. *)

\* The rabbit starts with both tables empty.
LEMMA InitOK == Init => IInv
  <1> SUFFICES ASSUME Init PROVE IInv
    OBVIOUS
  <1>1. NoConn \in Conn
    BY TcpAssumption, EmptySeq DEF NoConn, NewConn, Conn, SeqNums, TcpStates
  <1>2. Shape(NoConn) /\ Pulled(NoConn) /\ NoConn.state = "CLOSED"
    BY DEF NoConn, NewConn, Shape, Pulled, ActiveStates, OpenStates, FinStates
  <1>3. NoHsrv \in Hsrv /\ ~NoHsrv.known
    BY EmptySeq DEF NoHsrv, Hsrv
  <1>4. NewPeer \in Peer /\ 0 \in 0 .. MaxEmbryos
    BY TcpAssumption, ServerAssumption, EmptySeq DEF NewPeer, Peer, SeqNums
  <1>5. TypeOK
    BY <1>1, <1>3, <1>4 DEF Init, TypeOK
  <1>6. ASSUME NEW p \in Peers PROVE MachineOK(Machine(p))
    <2>1. Machine(p) \in Machines /\ Machine(p).conn = NoConn /\ Machine(p).up = NoHsrv
      BY <1>5, MachineType DEF Init
    <2>2. QED
      BY <1>2, <1>3, <2>1 DEF MachineOK, Tied, OpenStates, FinStates
  <1>7. Live = {}
    BY <1>2 DEF Live, Init
  <1>8. QED
    BY <1>5, <1>6, <1>7, FS_EmptySet, ServerAssumption DEF IInv

\* A step that changes nothing keeps the invariant.
LEMMA StutterOK == IInv /\ UNCHANGED vars => IInv'
  BY DEF IInv, TypeOK, vars, Live, Machine, MachineOK, Tied

\* Every step keeps the inductive invariant.
LEMMA NextOK == IInv /\ [Next]_vars => IInv'
  <1> SUFFICES ASSUME IInv, [Next]_vars PROVE IInv'
    OBVIOUS
  <1>1. CASE UNCHANGED vars
    BY <1>1, StutterOK
  <1>2. CASE Tick
    BY <1>2, TickOK
  <1>3. ASSUME NEW p \in Peers,
               \/ Rx(p) \/ PeerRx(p) \/ PeerConnect(p) \/ PeerWrite(p) \/ PeerFin(p)
               \/ PeerAbort(p) \/ PeerForget(p)
        PROVE  IInv'
    BY <1>3, RxOK, PeerRxOK, PeerStepOK
  <1>4. QED
    BY <1>1, <1>2, <1>3 DEF Next

\* The inductive invariant holds of every reachable state.
THEOREM Invariance == Spec => []IInv
  <1>1. QED
    BY InitOK, NextOK, PTL DEF Spec

\* The variables keep their types.
THEOREM TypeCorrect == Spec => []TypeOK
  <1>1. IInv => TypeOK
    BY DEF IInv
  <1>2. QED
    BY <1>1, Invariance, PTL

\* At most one segment is in flight, and snd_nxt is the number just past it.
THEOREM OneInFlightHolds == Spec => []OneInFlight
  <1>1. IInv => OneInFlight
    <2> SUFFICES ASSUME IInv, NEW p \in Peers, NEW s \in conns[p].unacked
                 PROVE  /\ conns[p].unacked = {s}
                        /\ conns[p].snd_nxt = SeqAdd(s.seq, SeqLen(s.flags, s.data))
      BY DEF OneInFlight
    <2>1. Shape(conns[p])
      BY MachineType DEF IInv, MachineOK
    <2>2. QED
      BY <2>1 DEF Shape
  <1>2. QED
    BY <1>1, Invariance, PTL

\* Nothing waits in a queue, and no close is pending, without a segment in
\* flight whose acknowledgement pulls it.
THEOREM NeverStallsHolds == Spec => []NeverStalls
  <1>1. IInv => NeverStalls
    <2> SUFFICES ASSUME IInv, NEW p \in Peers PROVE Pulled(conns[p])
      BY DEF NeverStalls, Pulled
    <2>1. QED
      BY MachineType DEF IInv, MachineOK
  <1>2. QED
    BY <1>1, Invariance, PTL

\* The FIN is the last thing sent, and what the timer repeats until it is acked.
THEOREM FinIsLastHolds == Spec => []FinIsLast
  <1>1. IInv => FinIsLast
    <2> SUFFICES ASSUME IInv, NEW p \in Peers
                 PROVE  /\ conns[p].state \in FinStates => conns[p].txq = <<>>
                        /\ conns[p].state \in {"FIN_WAIT_1", "LAST_ACK"} <=>
                             \E s \in conns[p].unacked : "FIN" \in s.flags
      BY DEF FinIsLast
    <2>1. Shape(conns[p])
      BY MachineType DEF IInv, MachineOK
    <2>2. QED
      BY <2>1 DEF Shape
  <1>2. QED
    BY <1>1, Invariance, PTL

\* The request table follows the connection table.
THEOREM TableFollowsConnsHolds == Spec => []TableFollowsConns
  <1>1. IInv => TableFollowsConns
    <2> SUFFICES ASSUME IInv, NEW p \in Peers
                 PROVE  hsrv[p].known <=> conns[p].state \in OpenStates \cup FinStates
      BY DEF TableFollowsConns
    <2>1. Tied(Machine(p)) /\ Machine(p).conn = conns[p] /\ Machine(p).up = hsrv[p]
      BY MachineType DEF IInv, MachineOK
    <2>2. QED
      BY <2>1 DEF Tied
  <1>2. QED
    BY <1>1, Invariance, PTL

\* Both tables stay within the cap.
THEOREM TablesBoundedHolds == Spec => []TablesBounded
  <1>1. IInv => TablesBounded
    <2> SUFFICES ASSUME IInv PROVE TablesBounded
      OBVIOUS
    <2>1. ASSUME NEW p \in Peers, hsrv[p].known PROVE p \in Live
      <3>1. Tied(Machine(p)) /\ Machine(p).conn = conns[p] /\ Machine(p).up = hsrv[p]
        BY MachineType DEF IInv, MachineOK
      <3>2. QED
        BY <2>1, <3>1 DEF Tied, Live, OpenStates, FinStates
    <2>2. Live \cup {p \in Peers : hsrv[p].known} = Live
      BY <2>1
    <2>3. QED
      BY <2>2 DEF TablesBounded, IInv
  <1>2. QED
    BY <1>1, Invariance, PTL

-----------------------------------------------------------------------------
(* What the two ends have said to each other. *)

Texts == {Response(status) : status \in Statuses}

\* How much of the rabbit's stream, its FIN included, a peer has read, and how
\* much of it was sent.
Heard(peer) == Len(peer.got) + (IF peer.eof THEN 1 ELSE 0)
Sent(c, u) == Len(u.said) - Len(c.txq) + (IF c.state \in FinStates THEN 1 ELSE 0)

\* What a peer sends before it has heard of a connection, and after it is gone;
\* and between: what it has written of its request, and its FIN behind that.
Opening(s) == \/ s.flags = {"RST"} /\ s.data = <<>>
              \/ s.flags = {"SYN"} /\ s.data = <<>> /\ s.seq = PeerIss
Asked(peer, s) ==
  \/ Opening(s)
  \/ s.flags = {"ACK"} /\ s.data = <<>>
  \/ /\ s.flags = {"ACK", "PSH"}
     /\ \E j \in 0 .. peer.sent : /\ j + Len(s.data) <= peer.sent
                                  /\ s.seq = SeqAdd(PeerIss, 1 + j)
                                  /\ s.data = SubSeq(peer.req, j + 1, j + Len(s.data))
  \/ /\ s.flags = {"ACK", "FIN"} /\ s.data = <<>>
     /\ peer.fin /\ s.seq = SeqAdd(PeerIss, 1 + peer.sent)

\* It acknowledges what it has read of the stream that begins at base.
Acks(peer, base, s) == "ACK" \in s.flags => \E j \in 0 .. Heard(peer) : s.ack = SeqAdd(base, 1 + j)

\* What the rabbit may have sent: the SYN+ACK of any of its e embryos; and of one
\* connection, which began at base, the first top units of its stream.
Told(p, e, base, said, top, s) ==
  \/ s.flags = {"SYN", "ACK"} /\ s.data = <<>> /\ \E n \in 0 .. e - 1 : s.seq = Iss(p, n)
  \/ s.flags = {"ACK"} /\ s.data = <<>>
  \/ /\ s.flags = {"ACK", "PSH"}
     /\ \E i \in 1 .. top : i <= Len(said) /\ s.seq = SeqAdd(base, i) /\ s.data = <<said[i]>>
  \/ /\ s.flags = {"ACK", "FIN"} /\ s.data = <<>>
     /\ top > Len(said) /\ s.seq = SeqAdd(base, 1 + Len(said))

\* An embryo, of which nobody has heard but by its SYN+ACK.
Embryo(c, base) == /\ c.state = "SYN_RCVD" /\ c.unacked # {}
                   /\ c.snd_nxt = SeqAdd(base, 1) /\ c.rcv_nxt = SeqAdd(PeerIss, 1)

\* The stream the connection writes to the peer that reads it: one answer or none,
\* of which the queue is the rest, and at most one unit unread.
Writes(c, u, peer, base) ==
  /\ c.state \in OpenStates \cup FinStates
  /\ u.done <=> u.said # <<>>
  /\ Len(c.txq) <= Len(u.said)
  /\ \A i \in 1 .. Len(c.txq) : c.txq[i] = <<u.said[Len(u.said) - Len(c.txq) + i]>>
  /\ c.snd_nxt = SeqAdd(base, 1 + Sent(c, u))
  /\ Heard(peer) <= Sent(c, u) /\ Sent(c, u) <= Heard(peer) + 1
  /\ c.unacked = {} => Heard(peer) = Sent(c, u)
  /\ ~u.done => \/ c.state = "ESTAB" /\ c.unacked = {} /\ ~c.close_after
                \/ c.state = "LAST_ACK"

\* And the request it takes from the peer, until it has answered, or the FIN.
Takes(c, u, peer) ==
  /\ c.state \in {"ESTAB", "FIN_WAIT_1", "FIN_WAIT_2"} =>
       \E n \in 0 .. peer.sent : /\ c.rcv_nxt = SeqAdd(PeerIss, 1 + n)
                                 /\ ~u.done => u.buf = SubSeq(peer.req, 1, n)
  /\ c.state \in {"CLOSE_WAIT", "LAST_ACK"} =>
       peer.fin /\ c.rcv_nxt = SeqAdd(PeerIss, 2 + peer.sent)

\* The peer has heard of no connection yet.
Unheard(p, c, u, peer, asked, told, e) ==
  /\ peer.state \in {"idle", "syn", "over"} /\ peer.got = <<>> /\ ~peer.eof /\ u.said = <<>>
  /\ peer.sent = 0 /\ ~peer.fin
  /\ c.state = "CLOSED" \/ (e > 0 /\ Embryo(c, Iss(p, e - 1)))
  /\ \A s \in asked : Opening(s)
  /\ \A s \in told : Told(p, e, 0, <<>>, 0, s)

\* The connection whose stream the peer reads is gone, and no embryo is taken
\* for it.
Past(p, c, u, told, e, k) ==
  /\ c.state = "CLOSED" \/ /\ c.state = "SYN_RCVD" /\ k < e - 1
                           /\ c.unacked # {} /\ c.snd_nxt = SeqAdd(Iss(p, e - 1), 1)
  /\ \A s \in told : Told(p, e, Iss(p, k), u.said, Len(u.said) + 1, s)

\* It is the one in the table.
Present(p, c, u, peer, told, e, k) ==
  /\ k = e - 1
  /\ \/ Writes(c, u, peer, Iss(p, k)) /\ Takes(c, u, peer)
     \/ Embryo(c, Iss(p, k)) /\ u.said = <<>> /\ Heard(peer) = 0
  /\ \A s \in told : Told(p, e, Iss(p, k), u.said, Sent(c, u), s)

\* What the peer has read is the beginning of what was said, and the end of it
\* behind all of it.
Follows(peer, said) == /\ Len(peer.got) <= Len(said) /\ peer.got = SubSeq(said, 1, Len(peer.got))
                       /\ peer.eof => Len(peer.got) = Len(said)

\* The peer reads the stream of the connection that was the k-th embryo.
Reads(p, c, u, peer, asked, told, e, k) ==
  /\ peer.state \in {"open", "over"}
  /\ peer.rcv = SeqAdd(Iss(p, k), 1 + Heard(peer)) /\ Follows(peer, u.said)
  /\ \A s \in asked : Asked(peer, s) /\ Acks(peer, Iss(p, k), s)
  /\ Past(p, c, u, told, e, k) \/ Present(p, c, u, peer, told, e, k)

\* One peer and its connection: c is the record, u the server's entry, e the
\* number of embryos so far; asked and told are what is in the air.
Talk(p, c, u, peer, asked, told, e) ==
  /\ u.said \in {<<>>} \cup Texts /\ peer.sent <= Len(peer.req) /\ c.unacked \subseteq told
  /\ \/ Unheard(p, c, u, peer, asked, told, e)
     \/ \E k \in 0 .. e - 1 : Reads(p, c, u, peer, asked, told, e, k)

Talks == \A p \in Peers : Talk(p, conns[p], hsrv[p], peers[p], toRabbit[p], toPeer[p], embryos[p])

-----------------------------------------------------------------------------
(* Places in a stream, as sequence numbers.                                  *)

\* Quotient and remainder by the modulus of the sequence space.
LEMMA DivLaw ==
  ASSUME NEW x \in Int PROVE /\ x \div SeqMod \in Int /\ x = SeqMod * (x \div SeqMod) + (x % SeqMod)
                             /\ x % SeqMod \in 0 .. SeqMod - 1
  BY TcpAssumption

\* The only multiple of M closer than M to zero is zero.
LEMMA Multiple ==
  ASSUME NEW M \in Nat, NEW d \in Int, M > 0, M * d < M, -M < M * d PROVE d = 0
  BY Z3

\* Two places less than a modulus apart are two sequence numbers.
LEMMA SeqAddApart ==
  ASSUME NEW b \in Int, NEW i \in Int, NEW j \in Int, i < j, j < i + SeqMod PROVE SeqAdd(b, i) # SeqAdd(b, j)
  <1> SUFFICES ASSUME SeqAdd(b, i) = SeqAdd(b, j) PROVE FALSE
    OBVIOUS
  <1> DEFINE qi == (b + i) \div SeqMod
             qj == (b + j) \div SeqMod
             r == SeqAdd(b, i)
  <1>1. b + i \in Int /\ b + j \in Int
    OBVIOUS
  <1>2. qi \in Int /\ b + i = SeqMod * qi + r
    BY <1>1, DivLaw DEF SeqAdd
  <1>3. qj \in Int /\ b + j = SeqMod * qj + r
    BY <1>1, DivLaw DEF SeqAdd
  <1>4. r \in Int
    BY SeqAddType DEF SeqNums
  <1> HIDE DEF qi, qj, r
  <1>5. SeqMod \in Nat /\ SeqMod > 0
    BY TcpAssumption
  <1> DEFINE d == qj - qi
  <1>6. d \in Int /\ SeqMod * d = j - i
    BY <1>2, <1>3, <1>4, <1>5
  <1> HIDE DEF d
  <1>7. d = 0
    BY <1>5, <1>6, Multiple
  <1>8. SeqMod * d = 0
    BY <1>5, <1>7
  <1>. QED BY <1>6, <1>8

\* Moving on twice is moving on by the sum.
LEMMA SeqAddTwice ==
  ASSUME NEW b \in Int, NEW i \in Int, NEW j \in Int PROVE SeqAdd(SeqAdd(b, i), j) = SeqAdd(b, i + j)
  <1> DEFINE r == SeqAdd(b, i)
             s == SeqAdd(r, j)
             t == SeqAdd(b, i + j)
             q == (b + i) \div SeqMod
             u == (r + j) \div SeqMod
             v == (b + (i + j)) \div SeqMod
  <1>1. q \in Int /\ b + i = SeqMod * q + r /\ r \in 0 .. SeqMod - 1
    <2>1. b + i \in Int
      OBVIOUS
    <2>. QED BY <2>1, DivLaw DEF SeqAdd
  <1> HIDE DEF r, q
  <1>2. u \in Int /\ r + j = SeqMod * u + s /\ s \in 0 .. SeqMod - 1
    <2>1. r + j \in Int
      BY <1>1
    <2>. QED BY <2>1, DivLaw DEF SeqAdd
  <1>3. v \in Int /\ b + (i + j) = SeqMod * v + t /\ t \in 0 .. SeqMod - 1
    <2>1. b + (i + j) \in Int
      OBVIOUS
    <2>. QED BY <2>1, DivLaw DEF SeqAdd
  <1> HIDE DEF s, t, u, v
  <1>5. SeqMod \in Nat /\ SeqMod > 0
    BY TcpAssumption
  <1> DEFINE d == v - q - u
  <1>6. d \in Int /\ SeqMod * d = s - t
    BY <1>1, <1>2, <1>3, <1>5
  <1> HIDE DEF d
  <1>7. d = 0
    BY <1>2, <1>3, <1>5, <1>6, Multiple
  <1>8. SeqMod * d = 0
    BY <1>5, <1>7
  <1>9. s = t
    BY <1>2, <1>3, <1>5, <1>6, <1>8
  <1>. QED BY <1>9 DEF r, s, t

\* What the theorems need of the constants, for one peer.
LEMMA Streams ==
  ASSUME StreamsApart, NEW p \in Peers, NEW e \in 0 .. MaxEmbryos, NEW said \in {<<>>} \cup Texts
  PROVE  /\ said \in Seq(ResponseUnits) /\ Len(said) \in Nat /\ Len(said) + 2 < SeqMod
         /\ \A n \in 0 .. e - 1 : Iss(p, n) \in SeqNums
         /\ \A m \in 0 .. e - 1, n \in 0 .. e - 1 : m # n =>
               \A j \in 0 .. Len(said) + 2 : Iss(p, n) # SeqAdd(Iss(p, m), j)
  <1>1. PICK status \in Statuses : said = <<>> \/ said = Response(status)
    BY DEF Texts, Statuses
  <1>2. RespLen[status] \in Nat /\ RespLen[status] + 2 < SeqMod
    BY HsrvAssumption DEF StreamsApart
  <1>3. Response(status) \in Seq(ResponseUnits) /\ Len(Response(status)) = RespLen[status]
    BY <1>2, ResponseType DEF Response
  <1>4. said \in Seq(ResponseUnits) /\ Len(said) \in Nat /\ Len(said) <= RespLen[status]
    <2>1. CASE said = <<>>
      BY <1>2, <2>1, EmptySeq
    <2>2. CASE said = Response(status)
      BY <1>2, <1>3, <2>2
    <2>. QED  BY <1>1, <2>1, <2>2
  <1>5. \A n \in 0 .. e - 1 : n \in 0 .. MaxEmbryos - 1 /\ n \in 0 .. MaxEmbryos
    BY ServerAssumption
  <1>6. \A n \in 0 .. e - 1 : Iss(p, n) \in SeqNums
    BY <1>5, ServerAssumption
  <1>7. \A j \in 0 .. Len(said) + 2 : j \in 0 .. RespLen[status] + 2
    BY <1>2, <1>4
  <1>8. \A m \in 0 .. e - 1, n \in 0 .. e - 1 : m # n =>
               \A j \in 0 .. Len(said) + 2 : Iss(p, n) # SeqAdd(Iss(p, m), j)
    BY <1>5, <1>7 DEF StreamsApart
  <1>. QED  BY <1>2, <1>4, <1>6, <1>8, TcpAssumption

\* Places within a stream that does not wrap are told apart by their numbers.
LEMMA Places ==
  ASSUME NEW b \in SeqNums, NEW i \in Int, NEW j \in Int, SeqAdd(b, i) = SeqAdd(b, j),
         i < j + SeqMod, j < i + SeqMod
  PROVE  i = j
  <1>1. b \in Int
    BY DEF SeqNums
  <1>. QED  BY <1>1, SeqAddApart

-----------------------------------------------------------------------------
(* The stream, while the rabbit writes it.                                   *)

\* What is in the air stays told when more of the stream is.
LEMMA ToldMore ==
  ASSUME NEW p, NEW e, NEW base, NEW said, NEW top \in Int, NEW s, NEW more \in Int,
         Told(p, e, base, said, top, s), top <= more
  PROVE  Told(p, e, base, said, more, s)
  <1>. USE DEF Told
  <1>1. Len(said) < top => Len(said) < more
    OBVIOUS
  <1>2. \A i \in 1 .. top : i \in 1 .. more
    OBVIOUS
  <1>. QED  BY <1>2

\* And when nothing of it was, whatever it is to be.
LEMMA ToldNothing ==
  ASSUME NEW p, NEW e, NEW base, NEW other, NEW said \in Seq(ResponseUnits), NEW s, NEW top \in Nat,
         Told(p, e, other, <<>>, 0, s)
  PROVE  Told(p, e, base, said, top, s)
  BY DEF Told

\* A stream of the rabbit's in the middle of a handler: what has left, what is in
\* flight and what is queued are one answer, and the peer has read all but what is
\* in flight.
Flow(m, p, e, base, peer, told) ==
  /\ m \in Machines /\ Shape(m.conn) /\ m.up.said \in {<<>>} \cup Texts
  /\ Writes(m.conn, m.up, peer, base)
  /\ m.conn.unacked \subseteq told \cup m.out
  /\ \A s \in told \cup m.out : Told(p, e, base, m.up.said, Sent(m.conn, m.up), s)

\* How much was sent, from the lengths of the answer and of the queue.
LEMMA SentIs ==
  ASSUME NEW c, NEW u, NEW a \in Nat, NEW b \in Nat, Len(u.said) = a, Len(c.txq) = b
  PROVE  /\ c.state \in FinStates => Sent(c, u) = a - b + 1
         /\ c.state \notin FinStates => Sent(c, u) = a - b
  <1>1. CASE c.state \in FinStates
    BY <1>1 DEF Sent
  <1>2. CASE c.state \notin FinStates
    BY <1>2 DEF Sent
  <1>. QED  BY <1>1, <1>2

\* The numbers of a flow.
LEMMA FlowType ==
  ASSUME StreamsApart, NEW p \in Peers, NEW e \in 0 .. MaxEmbryos, NEW base \in SeqNums,
         NEW peer \in Peer, NEW told, NEW m, Flow(m, p, e, base, peer, told)
  PROVE  /\ m.conn \in Conn /\ m.up \in Hsrv /\ m.conn.state \in TcpStates
         /\ m.up.said \in Seq(ResponseUnits) /\ Len(m.up.said) \in Nat /\ Len(m.up.said) + 2 < SeqMod
         /\ m.conn.txq \in Seq(Seq(ResponseUnits)) /\ Len(m.conn.txq) \in Nat
         /\ Sent(m.conn, m.up) \in Nat /\ Sent(m.conn, m.up) <= Len(m.up.said) + 1
         /\ Heard(peer) \in Nat /\ m.conn.snd_nxt \in SeqNums
  <1>1. m.conn \in Conn /\ m.up \in Hsrv
    BY DEF Flow, Machines
  <1>2. m.up.said \in Seq(ResponseUnits) /\ Len(m.up.said) \in Nat /\ Len(m.up.said) + 2 < SeqMod
    BY Streams DEF Flow
  <1>3. m.conn.txq \in Seq(Seq(ResponseUnits)) /\ Len(m.conn.txq) \in Nat
    BY <1>1, LenProperties DEF Conn
  <1>4. Len(peer.got) \in Nat /\ Heard(peer) \in Nat
    BY LenProperties DEF Peer, Heard
  <1>5. Len(m.conn.txq) <= Len(m.up.said)
    BY DEF Flow, Writes
  <1>6. Sent(m.conn, m.up) \in Nat /\ Sent(m.conn, m.up) <= Len(m.up.said) + 1
    <2>1. /\ m.conn.state \in FinStates => Sent(m.conn, m.up) = Len(m.up.said) - Len(m.conn.txq) + 1
          /\ m.conn.state \notin FinStates => Sent(m.conn, m.up) = Len(m.up.said) - Len(m.conn.txq)
      BY <1>2, <1>3, SentIs
    <2> DEFINE a == Len(m.up.said)
               b == Len(m.conn.txq)
               x == Sent(m.conn, m.up)
    <2>2. a \in Nat /\ b \in Nat /\ b <= a /\ (x = a - b + 1 \/ x = a - b)
      BY <1>2, <1>3, <1>5, <2>1
    <2> HIDE DEF a, b, x
    <2>3. x \in Nat /\ x <= a + 1
      BY <2>2
    <2>. QED  BY <2>3 DEF a, x
  <1>. QED  BY <1>1, <1>2, <1>3, <1>4, <1>6 DEF Conn

\* What a reliable send leaves: one frame, in flight and in the air.
Leaves(m, n, flags, payload, f) ==
  /\ n.conn.snd_nxt = SeqAdd(m.conn.snd_nxt, SeqLen(flags, payload))
  /\ n.conn.unacked = {f} /\ n.out = m.out \cup {f}
  /\ n.conn.rcv_nxt = m.conn.rcv_nxt
  /\ f.flags = flags /\ f.data = payload /\ f.seq = m.conn.snd_nxt

\* A reliable send leaves exactly its frame.
LEMMA FlowSends ==
  ASSUME NEW m \in Machines, NEW flags \in SUBSET Flags, NEW payload \in Seq(ResponseUnits)
  PROVE  Leaves(m, SendRel(m, flags, payload), flags, payload, Frame(m.conn, flags, payload))
  <1>1. m.conn \in Conn
    BY DEF Machines
  <1>2. /\ Frame(m.conn, flags, payload).flags = flags /\ Frame(m.conn, flags, payload).data = payload
        /\ Frame(m.conn, flags, payload).seq = m.conn.snd_nxt
    BY <1>1, FrameType
  <1>. QED  BY <1>1, <1>2 DEF SendRel, SentRel, Machines, Conn, Leaves

\* What the queue engine does with a flow: the next unit, or the FIN, or nothing.
LEMMA FlowKick ==
  ASSUME StreamsApart, NEW p \in Peers, NEW e \in 0 .. MaxEmbryos, NEW base \in SeqNums,
         NEW peer \in Peer, NEW told, NEW m, Flow(m, p, e, base, peer, told)
  PROVE  LET n == TxqKick(m)
         IN /\ Flow(n, p, e, base, peer, told) /\ n.up = m.up /\ n.conn.rcv_nxt = m.conn.rcv_nxt
            /\ \/ n.conn.state = m.conn.state
               \/ m.conn.state = "ESTAB" /\ n.conn.state = "FIN_WAIT_1"
               \/ m.conn.state = "CLOSE_WAIT" /\ n.conn.state = "LAST_ACK"
  <1> DEFINE c == m.conn
             u == m.up
             L == Len(u.said)
             Q == Len(c.txq)
             S == Sent(c, u)
             H == Heard(peer)
  <1>1. /\ m.conn = c /\ m.up = u /\ c \in Conn /\ u \in Hsrv /\ m \in Machines /\ Shape(c)
        /\ u.said \in Seq(ResponseUnits) /\ c.txq \in Seq(Seq(ResponseUnits))
        /\ L = Len(u.said) /\ Q = Len(c.txq) /\ H = Heard(peer) /\ S = Sent(c, u)
    BY FlowType DEF Flow
  <1>2. L \in Nat /\ Q \in Nat /\ S \in Nat /\ H \in Nat /\ base \in Int
    BY FlowType DEF SeqNums
  <1>3. Q <= L /\ H <= S /\ S <= H + 1 /\ (c.unacked = {} => H = S) /\ c.snd_nxt = SeqAdd(base, 1 + S)
    BY DEF Flow, Writes
  <1>4. \A i \in 1 .. Q : c.txq[i] = <<u.said[L - Q + i]>>
    BY DEF Flow, Writes
  <1>5. /\ u.done <=> u.said # <<>>
        /\ ~u.done => \/ c.state = "ESTAB" /\ c.unacked = {} /\ ~c.close_after
                      \/ c.state = "LAST_ACK"
        /\ c.unacked \subseteq told \cup m.out /\ u.said \in {<<>>} \cup Texts
        /\ \A s \in told \cup m.out : Told(p, e, base, u.said, S, s)
    BY DEF Flow, Writes
  <1>6. TxqKick(m) \in Machines /\ Shape(TxqKick(m).conn) /\ TxqKick(m).up = u
    BY <1>1, TxqKickOK
  <1>7. CASE c.state \notin OpenStates \/ c.unacked # {} \/ (c.txq = <<>> /\ ~c.close_after)
    BY <1>7 DEF TxqKick
  <1>8. c.state \in OpenStates => S = L - Q /\ c.state \notin FinStates
    <2>1. c.state \in OpenStates => c.state \notin FinStates
      BY DEF OpenStates, FinStates
    <2>. QED  BY <1>2, <2>1, SentIs
  <1>9. SeqAdd(SeqAdd(base, 1 + S), 1) = SeqAdd(base, 1 + (S + 1))
    <2>1. SeqAdd(SeqAdd(base, 1 + S), 1) = SeqAdd(base, (1 + S) + 1)
      <3>. HIDE DEF S
      <3>. QED  BY <1>2, SeqAddTwice
    <2>2. (1 + S) + 1 = 1 + (S + 1)
      <3>. HIDE DEF S
      <3>. QED  BY <1>2
    <2>. QED  BY <2>1, <2>2
  <1> HIDE DEF c, u, L, Q, S, H
  <1>10. \A s \in told \cup m.out : Told(p, e, base, u.said, S + 1, s)
    BY <1>2, <1>5, ToldMore
  <1>11. CASE c.state \in OpenStates /\ c.unacked = {} /\ c.txq # <<>>
    <2> DEFINE popped == [m EXCEPT !.conn.txq = Tail(@)]
               h == Head(c.txq)
               n == SendRel(popped, {"ACK", "PSH"}, h)
    <2>1. S = L - Q /\ S = H /\ c.state \notin FinStates
      BY <1>3, <1>8, <1>11
    <2>2. /\ Q > 0 /\ h = c.txq[1] /\ h \in Seq(ResponseUnits)
          /\ Tail(c.txq) \in Seq(Seq(ResponseUnits)) /\ Len(Tail(c.txq)) = Q - 1
          /\ \A i \in 1 .. Q - 1 : Tail(c.txq)[i] = c.txq[i + 1]
      <3>1. Len(c.txq) > 0 /\ Len(Tail(c.txq)) = Len(c.txq) - 1
        BY <1>1, <1>2, <1>11, HeadTailProperties, EmptySeq
      <3>2. \A i \in 1 .. Len(Tail(c.txq)) : Tail(c.txq)[i] = c.txq[i + 1]
        BY <1>1, <1>11, HeadTailProperties
      <3>3. h = c.txq[1] /\ h \in Seq(ResponseUnits) /\ Tail(c.txq) \in Seq(Seq(ResponseUnits))
        BY <1>1, <1>11, HeadTailProperties
      <3>. QED  BY <1>1, <3>1, <3>2, <3>3
    <2>3. h = <<u.said[S + 1]>> /\ S + 1 <= L
      <3>1. 1 \in 1 .. Q /\ L - Q + 1 = S + 1 /\ S + 1 <= L
        BY <1>2, <1>3, <2>1, <2>2
      <3>. QED  BY <1>4, <2>2, <3>1
    <2>4. SeqLen({"ACK", "PSH"}, h) = 1
      <3>1. Len(h) = 1
        BY <2>3
      <3>2. {"ACK", "PSH"} \cap {"SYN", "FIN"} = {}
        OBVIOUS
      <3>. QED  BY <3>1, <3>2 DEF SeqLen
    <2> HIDE DEF h
    <2>5. /\ popped \in Machines /\ popped.up = u /\ popped.out = m.out
          /\ popped.conn.state = c.state /\ popped.conn.snd_nxt = c.snd_nxt
          /\ popped.conn.txq = Tail(c.txq) /\ popped.conn.close_after = c.close_after
          /\ popped.conn.rcv_nxt = c.rcv_nxt
      BY <1>1, <2>2 DEF Machines, Conn
    <2>6. {"ACK", "PSH"} \in SUBSET Flags
      BY DEF Flags
    <2>7. TxqKick(m) = n
      BY <1>1, <1>11 DEF TxqKick, h
    <2> DEFINE f == Frame(popped.conn, {"ACK", "PSH"}, h)
    <2> HIDE DEF popped
    <2>8. Leaves(popped, n, {"ACK", "PSH"}, h, f)
      <3>1. popped \in Machines /\ h \in Seq(ResponseUnits)
        BY <2>2, <2>5
      <3>. QED  BY <2>6, <3>1, FlowSends
    <2>9. n.conn.state = c.state /\ n.conn.txq = Tail(c.txq) /\ n.up = u
      BY <2>2, <2>5, <2>6, SendRelOK
    <2> HIDE DEF n, f
    <2>. USE DEF Leaves
    <2>10. Sent(n.conn, u) = S + 1
      <3>1. Sent(n.conn, u) = L - (Q - 1)
        <4>1. Len(n.conn.txq) = Q - 1 /\ Q - 1 \in Nat /\ n.conn.state \notin FinStates
          BY <1>2, <2>1, <2>2, <2>9
        <4>. QED  BY <1>1, <1>2, <4>1 DEF Sent
      <3>. QED  BY <1>2, <2>1, <3>1
    <2>11. n.conn.snd_nxt = SeqAdd(base, 1 + (S + 1))
      BY <1>3, <1>9, <2>4, <2>5, <2>8
    <2>12. Told(p, e, base, u.said, S + 1, f)
      <3>1. S + 1 \in 1 .. S + 1 /\ 1 + S = S + 1
        BY <1>2
      <3>2. f.seq = SeqAdd(base, S + 1)
        BY <1>3, <2>5, <2>8, <3>1
      <3>. QED  BY <1>1, <2>3, <2>8, <3>1, <3>2 DEF Told
    <2>13. \A s \in told \cup n.out : Told(p, e, base, u.said, S + 1, s)
      BY <1>10, <2>5, <2>8, <2>12
    <2>14. Writes(n.conn, u, peer, base)
      <3>1. \A i \in 1 .. Q - 1 : Tail(c.txq)[i] = <<u.said[L - (Q - 1) + i]>>
        <4>. SUFFICES ASSUME NEW i \in 1 .. Q - 1
                      PROVE  Tail(c.txq)[i] = <<u.said[L - (Q - 1) + i]>>
          OBVIOUS
        <4>1. i + 1 \in 1 .. Q /\ L - Q + (i + 1) = L - (Q - 1) + i
          BY <1>2
        <4>2. c.txq[i + 1] = <<u.said[L - Q + (i + 1)]>>
          BY <1>4, <4>1
        <4>. QED  BY <2>2, <4>1, <4>2
      <3>2. u.done /\ u.said # <<>>
        <4>1. u.said # <<>>
          <5>1. L > 0
            BY <1>2, <2>3
          <5>. QED  BY <1>1, <5>1, EmptySeq
        <4>. QED  BY <1>5, <4>1
      <3>3. Q - 1 <= L /\ H <= S + 1 /\ S + 1 <= H + 1
        BY <1>2, <1>3, <2>1
      <3>4. n.conn.unacked # {} /\ n.conn.state \in OpenStates \cup FinStates
        BY <1>11, <2>8, <2>9
      <3>5. Len(n.conn.txq) = Q - 1 /\ n.conn.txq = Tail(c.txq)
        BY <2>2, <2>9
      <3>. QED  BY <1>1, <2>10, <2>11, <3>1, <3>2, <3>3, <3>4, <3>5, ZenonT(60) DEF Writes
    <2>15. n.conn.unacked \subseteq told \cup n.out
      BY <2>8
    <2>16. Flow(n, p, e, base, peer, told)
      BY <1>5, <1>6, <2>7, <2>9, <2>10, <2>13, <2>14, <2>15 DEF Flow
    <2>. QED  BY <1>1, <2>5, <2>7, <2>8, <2>9, <2>16
  <1>12. CASE c.state \in OpenStates /\ c.unacked = {} /\ c.txq = <<>> /\ c.close_after
    <2> DEFINE to == IF c.state = "CLOSE_WAIT" THEN "LAST_ACK" ELSE "FIN_WAIT_1"
               moved == [m EXCEPT !.conn.state = to]
               n == SendRel(moved, {"ACK", "FIN"}, <<>>)
    <2>1. S = L /\ S = H /\ Q = 0
      <3>1. Q = 0
        BY <1>1, <1>12, EmptySeq
      <3>. QED  BY <1>2, <1>3, <1>8, <1>12, <3>1
    <2>2. /\ (c.state = "CLOSE_WAIT" /\ to = "LAST_ACK") \/ (c.state = "ESTAB" /\ to = "FIN_WAIT_1")
          /\ to \in TcpStates /\ to \in FinStates
      BY <1>12 DEF OpenStates, TcpStates, FinStates
    <2>3. TxqKick(m) = n
      BY <1>1, <1>12 DEF TxqKick
    <2> HIDE DEF to
    <2>4. /\ moved \in Machines /\ moved.up = u /\ moved.out = m.out
          /\ moved.conn.state = to /\ moved.conn.snd_nxt = c.snd_nxt
          /\ moved.conn.txq = c.txq /\ moved.conn.rcv_nxt = c.rcv_nxt
      BY <1>1, <2>2 DEF Machines, Conn
    <2>5. {"ACK", "FIN"} \in SUBSET Flags /\ <<>> \in Seq(ResponseUnits)
      BY EmptySeq DEF Flags
    <2> DEFINE f == Frame(moved.conn, {"ACK", "FIN"}, <<>>)
    <2> HIDE DEF moved
    <2>6. Leaves(moved, n, {"ACK", "FIN"}, <<>>, f)
      BY <2>4, <2>5, FlowSends
    <2>7. n.conn.state = to /\ n.conn.txq = c.txq /\ n.up = u
      BY <2>4, <2>5, SendRelOK
    <2> HIDE DEF n, f
    <2>. USE DEF Leaves
    <2>8. SeqLen({"ACK", "FIN"}, <<>>) = 1
      <3>1. {"ACK", "FIN"} \cap {"SYN", "FIN"} # {}
        OBVIOUS
      <3>. QED  BY <3>1, EmptySeq DEF SeqLen
    <2>9. Sent(n.conn, u) = S + 1
      <3>1. Sent(n.conn, u) = L - Q + 1
        <4>1. Len(n.conn.txq) = Q /\ n.conn.state \in FinStates
          BY <1>1, <2>2, <2>7
        <4>. QED  BY <1>1, <1>2, <4>1 DEF Sent
      <3>2. L - Q + 1 = S + 1
        BY <1>2, <2>1
      <3>. QED  BY <3>1, <3>2
    <2>10. n.conn.snd_nxt = SeqAdd(base, 1 + (S + 1))
      BY <1>3, <1>9, <2>4, <2>6, <2>8
    <2>11. Told(p, e, base, u.said, S + 1, f)
      <3>1. S + 1 > Len(u.said) /\ f.seq = SeqAdd(base, 1 + Len(u.said))
        <4>1. S + 1 > L /\ f.seq = SeqAdd(base, 1 + L)
          BY <1>2, <1>3, <2>1, <2>4, <2>6
        <4>. QED  BY <1>1, <4>1
      <3>. QED  BY <2>6, <3>1 DEF Told
    <2>12. \A s \in told \cup n.out : Told(p, e, base, u.said, S + 1, s)
      BY <1>10, <2>4, <2>6, <2>11
    <2>13. Writes(n.conn, u, peer, base)
      <3>1. u.done
        BY <1>5, <1>12 DEF OpenStates
      <3>2. H <= S + 1 /\ S + 1 <= H + 1
        BY <1>2, <2>1
      <3>3. n.conn.txq = c.txq /\ n.conn.state \in OpenStates \cup FinStates /\ n.conn.unacked # {}
        BY <2>2, <2>6, <2>7
      <3>. QED  BY <1>1, <1>3, <1>4, <1>5, <2>9, <2>10, <3>1, <3>2, <3>3, ZenonT(60) DEF Writes
    <2>14. n.conn.unacked \subseteq told \cup n.out
      BY <2>6
    <2>15. Flow(n, p, e, base, peer, told)
      BY <1>5, <1>6, <2>3, <2>7, <2>9, <2>12, <2>13, <2>14 DEF Flow
    <2>. QED  BY <1>1, <2>2, <2>3, <2>4, <2>6, <2>7, <2>15
  <1>. QED
    <2>1. CASE c.state \notin OpenStates \/ c.unacked # {} \/ (c.txq = <<>> /\ ~c.close_after)
      BY <1>7, <2>1 DEF c
    <2>. QED  BY <1>1, <1>11, <1>12, <2>1

\* What the rabbit expects next is no part of what it writes.
LEMMA FlowExpects ==
  ASSUME NEW p, NEW e, NEW base, NEW peer, NEW told, NEW m, Flow(m, p, e, base, peer, told),
         NEW r \in SeqNums
  PROVE  LET n == [m EXCEPT !.conn.rcv_nxt = r]
         IN /\ Flow(n, p, e, base, peer, told) /\ n.up = m.up /\ n.conn.state = m.conn.state
            /\ n.conn = [m.conn EXCEPT !.rcv_nxt = r] /\ n.conn.rcv_nxt = r /\ n.out = m.out
            /\ n.conn.unacked = m.conn.unacked /\ n.conn.txq = m.conn.txq
  <1> DEFINE n == [m EXCEPT !.conn.rcv_nxt = r]
  <1>1. m \in Machines /\ m.conn \in Conn
    BY DEF Flow, Machines
  <1>2. /\ n \in Machines /\ n.up = m.up /\ n.out = m.out
        /\ n.conn = [m.conn EXCEPT !.rcv_nxt = r] /\ n.conn.rcv_nxt = r
        /\ n.conn.state = m.conn.state /\ n.conn.unacked = m.conn.unacked
        /\ n.conn.txq = m.conn.txq /\ n.conn.snd_nxt = m.conn.snd_nxt
        /\ n.conn.close_after = m.conn.close_after
    BY <1>1 DEF Machines, Conn
  <1> HIDE DEF n
  <1>3. Sent(n.conn, n.up) = Sent(m.conn, m.up)
    BY <1>2 DEF Sent
  <1>4. Writes(n.conn, n.up, peer, base)
    BY <1>2, <1>3 DEF Flow, Writes
  <1>5. Shape(n.conn)
    BY <1>2 DEF Flow, Shape
  <1>6. Flow(n, p, e, base, peer, told)
    BY <1>2, <1>3, <1>4, <1>5 DEF Flow
  <1>. QED  BY <1>2, <1>6 DEF n

\* Nor is a bare acknowledgement.
LEMMA FlowAcks ==
  ASSUME NEW p, NEW e, NEW base, NEW peer, NEW told, NEW m, Flow(m, p, e, base, peer, told)
  PROVE  /\ Flow(SendAck(m), p, e, base, peer, told)
         /\ SendAck(m).conn = m.conn /\ SendAck(m).up = m.up
  <1> DEFINE f == Frame(m.conn, {"ACK"}, <<>>)
  <1>1. m \in Machines /\ m.conn \in Conn
    BY DEF Flow, Machines
  <1>2. SendAck(m) \in Machines /\ SendAck(m).conn = m.conn /\ SendAck(m).up = m.up
    BY <1>1, SendAckOK
  <1>3. {"ACK"} \in SUBSET Flags /\ <<>> \in Seq(ResponseUnits)
    BY EmptySeq DEF Flags
  <1>4. f.flags = {"ACK"} /\ f.data = <<>>
    <2>1. PICK flags \in SUBSET Flags : flags = {"ACK"}
      BY <1>3
    <2>2. PICK payload \in Seq(ResponseUnits) : payload = <<>>
      BY <1>3
    <2>3. /\ Frame(m.conn, flags, payload).flags = flags
          /\ Frame(m.conn, flags, payload).data = payload
      BY <1>1, FrameType
    <2>. QED  BY <2>1, <2>2, <2>3
  <1>5. SendAck(m).out = m.out \cup {f}
    BY <1>1 DEF SendAck, Machines
  <1> HIDE DEF f
  <1>6. Told(p, e, base, m.up.said, Sent(m.conn, m.up), f)
    BY <1>4 DEF Told
  <1>. QED  BY <1>2, <1>5, <1>6 DEF Flow

\* A close asked for after the answer.
LEMMA FlowClose ==
  ASSUME StreamsApart, NEW p \in Peers, NEW e \in 0 .. MaxEmbryos, NEW base \in SeqNums,
         NEW peer \in Peer, NEW told, NEW m, Flow(m, p, e, base, peer, told), m.up.done
  PROVE  LET n == TcpClose(m)
         IN /\ Flow(n, p, e, base, peer, told) /\ n.up = m.up /\ n.conn.rcv_nxt = m.conn.rcv_nxt
            /\ \/ n.conn.state = m.conn.state
               \/ m.conn.state = "ESTAB" /\ n.conn.state = "FIN_WAIT_1"
               \/ m.conn.state = "CLOSE_WAIT" /\ n.conn.state = "LAST_ACK"
  <1>1. CASE m.conn.state \notin OpenStates
    BY <1>1 DEF TcpClose
  <1>2. CASE m.conn.state \in OpenStates
    <2> DEFINE n == [m EXCEPT !.conn.close_after = TRUE]
    <2>1. m \in Machines /\ m.conn \in Conn
      BY DEF Flow, Machines
    <2>2. /\ n \in Machines /\ n.up = m.up /\ n.out = m.out
          /\ n.conn.state = m.conn.state /\ n.conn.unacked = m.conn.unacked
          /\ n.conn.txq = m.conn.txq /\ n.conn.snd_nxt = m.conn.snd_nxt
          /\ n.conn.rcv_nxt = m.conn.rcv_nxt
      BY <2>1 DEF Machines, Conn
    <2>3. TcpClose(m) = TxqKick(n)
      BY <1>2 DEF TcpClose
    <2> HIDE DEF n
    <2>4. Sent(n.conn, n.up) = Sent(m.conn, m.up)
      BY <2>2 DEF Sent
    <2>5. Writes(n.conn, n.up, peer, base)
      BY <2>2, <2>4, ZenonT(60) DEF Flow, Writes
    <2>6. Shape(n.conn)
      BY <1>2, <2>2 DEF Flow, Shape, OpenStates
    <2>7. Flow(n, p, e, base, peer, told)
      BY <2>2, <2>4, <2>5, <2>6 DEF Flow
    <2>. QED  BY <2>2, <2>3, <2>7, FlowKick
  <1>. QED  BY <1>1, <1>2

\* The answer: nothing was written before it, and the peer has read nothing.
LEMMA FlowAnswer ==
  ASSUME StreamsApart, NEW p \in Peers, NEW e \in 0 .. MaxEmbryos, NEW base \in SeqNums,
         NEW peer \in Peer, NEW told, NEW m, Flow(m, p, e, base, peer, told),
         m.conn.state = "ESTAB", ~m.up.done, NEW status \in Statuses
  PROVE  LET n == HsrvAnswer(m, status)
         IN /\ Flow(n, p, e, base, peer, told) /\ n.up.done /\ n.up.said = Response(status)
            /\ n.up.known = m.up.known /\ n.conn.rcv_nxt = m.conn.rcv_nxt
            /\ n.conn.state \in {"ESTAB", "FIN_WAIT_1"}
            /\ m.up.said = <<>> /\ Heard(peer) = 0
  <1> DEFINE R == Response(status)
             asked == [m EXCEPT !.up.done = TRUE, !.up.said = @ \o R]
             n == [asked EXCEPT !.conn.txq = @ \o Chunks(R)]
             sent == TxqKick(n)
  <1>1. m \in Machines /\ m.conn \in Conn /\ m.up \in Hsrv /\ Shape(m.conn)
    BY DEF Flow, Machines
  <1>2. m.up.said = <<>> /\ m.conn.txq = <<>> /\ m.conn.unacked = {}
    <2>1. m.up.said = <<>> /\ m.conn.unacked = {} /\ Len(m.conn.txq) <= Len(m.up.said)
      BY DEF Flow, Writes
    <2>2. m.conn.txq \in Seq(Seq(ResponseUnits))
      BY <1>1 DEF Conn
    <2>. QED  BY <2>1, <2>2, EmptySeq
  <1>3. Sent(m.conn, m.up) = 0 /\ Heard(peer) = 0
    <2>1. m.conn.state \notin FinStates /\ Len(m.up.said) = 0 /\ Len(m.conn.txq) = 0
      BY <1>2, EmptySeq DEF FinStates
    <2>2. Sent(m.conn, m.up) = 0
      BY <2>1 DEF Sent
    <2>. QED  BY <1>2, <2>2 DEF Flow, Writes
  <1>4. /\ R \in Seq(ResponseUnits) /\ Chunks(R) \in Seq(Seq(ResponseUnits))
        /\ Len(R) \in Nat /\ Len(R) > 0 /\ Len(Chunks(R)) = Len(R)
        /\ \A i \in 1 .. Len(R) : Chunks(R)[i] = <<R[i]>>
    <2>1. R \in Seq(ResponseUnits) /\ Chunks(R) \in Seq(Seq(ResponseUnits))
      BY ResponseType
    <2>2. RespLen[status] \in Nat /\ RespLen[status] > 0
      BY HsrvAssumption
    <2>3. Len(R) = RespLen[status]
      BY <2>2 DEF Response
    <2>. QED  BY <2>1, <2>2, <2>3 DEF Chunks
  <1>5. HsrvAnswer(m, status) = TcpClose(TcpWrite(asked, Chunks(R)))
    BY DEF HsrvAnswer
  <1>6. R \in Texts
    BY DEF Texts
  <1> HIDE DEF R
  <1>7. m.up.said \o R = R /\ m.conn.txq \o Chunks(R) = Chunks(R)
    BY <1>2, <1>4, ConcatEmptySeq
  <1>8. /\ asked \in Machines /\ asked.conn = m.conn /\ asked.out = m.out
        /\ asked.up = [m.up EXCEPT !.done = TRUE, !.said = R]
    BY <1>1, <1>4, <1>7 DEF Machines, Hsrv
  <1>9. asked.up.done /\ asked.up.said = R /\ asked.up.known = m.up.known
    BY <1>1, <1>8, ZenonT(60) DEF Hsrv
  <1> HIDE DEF asked
  <1>10. /\ n \in Machines /\ n.up = asked.up /\ n.out = m.out
         /\ n.conn = [m.conn EXCEPT !.txq = Chunks(R)]
    <2>1. asked.conn.txq \o Chunks(R) = Chunks(R)
      BY <1>7, <1>8
    <2>2. n = [asked EXCEPT !.conn.txq = Chunks(R)]
      BY <1>1, <1>8, <2>1 DEF Machines, Conn
    <2> HIDE DEF n
    <2>. QED  BY <1>1, <1>4, <1>8, <2>2 DEF Machines, Conn
  <1>11. /\ n.conn.state = m.conn.state /\ n.conn.unacked = m.conn.unacked
         /\ n.conn.txq = Chunks(R) /\ n.conn.snd_nxt = m.conn.snd_nxt
         /\ n.conn.rcv_nxt = m.conn.rcv_nxt /\ n.conn.close_after = m.conn.close_after
    BY <1>1, <1>10 DEF Conn
  <1>12. TcpWrite(asked, Chunks(R)) = sent
    <2>1. Chunks(R) # <<>>
      BY <1>4, EmptySeq
    <2>. QED  BY <1>8, <2>1 DEF TcpWrite, OpenStates
  <1> HIDE DEF n
  <1>13. Sent(n.conn, n.up) = 0
    <2>1. n.conn.state \notin FinStates /\ Len(n.up.said) = Len(R) /\ Len(n.conn.txq) = Len(R)
      BY <1>4, <1>9, <1>10, <1>11 DEF FinStates
    <2>. QED  BY <1>4, <2>1 DEF Sent
  <1>14. Writes(n.conn, n.up, peer, base)
    <2>1. \A i \in 1 .. Len(n.conn.txq) :
             n.conn.txq[i] = <<n.up.said[Len(n.up.said) - Len(n.conn.txq) + i]>>
      <3>1. \A i \in 1 .. Len(R) : Len(R) - Len(R) + i = i
        BY <1>4
      <3>. QED  BY <1>4, <1>9, <1>10, <1>11, <3>1
    <2>2. n.up.said # <<>> /\ n.up.done /\ Len(n.conn.txq) <= Len(n.up.said)
      BY <1>4, <1>9, <1>10, <1>11, EmptySeq
    <2>3. n.conn.snd_nxt = SeqAdd(base, 1 + Sent(n.conn, n.up))
      BY <1>3, <1>11, <1>13 DEF Flow, Writes
    <2>4. n.conn.state \in OpenStates \cup FinStates
      BY <1>11 DEF OpenStates
    <2>5. Heard(peer) <= Sent(n.conn, n.up) /\ Sent(n.conn, n.up) <= Heard(peer) + 1
      BY <1>3, <1>13
    <2>6. n.conn.unacked = {} => Heard(peer) = Sent(n.conn, n.up)
      BY <1>3, <1>13
    <2>. QED  BY <2>1, <2>2, <2>3, <2>4, <2>5, <2>6 DEF Writes
  <1>15. Flow(n, p, e, base, peer, told)
    <2>1. Shape(n.conn)
      BY <1>1, <1>11 DEF Shape, FinStates
    <2>2. \A s \in told \cup m.out : Told(p, e, base, <<>>, 0, s)
      BY <1>2, <1>3 DEF Flow
    <2>3. \A s \in told \cup n.out : Told(p, e, base, R, 0, s)
      BY <1>4, <1>10, <2>2, ToldNothing
    <2>4. n.conn.unacked \subseteq told \cup n.out
      BY <1>2, <1>11
    <2>. QED  BY <1>6, <1>9, <1>10, <1>13, <1>14, <2>1, <2>3, <2>4 DEF Flow
  <1>16. /\ Flow(sent, p, e, base, peer, told) /\ sent.up = asked.up
         /\ sent.conn.rcv_nxt = m.conn.rcv_nxt /\ sent.conn.state \in {"ESTAB", "FIN_WAIT_1"}
    <2>1. sent = TxqKick(n)
      OBVIOUS
    <2> HIDE DEF sent
    <2>2. /\ Flow(TxqKick(n), p, e, base, peer, told) /\ TxqKick(n).up = n.up
          /\ TxqKick(n).conn.rcv_nxt = n.conn.rcv_nxt
          /\ \/ TxqKick(n).conn.state = n.conn.state
             \/ n.conn.state = "ESTAB" /\ TxqKick(n).conn.state = "FIN_WAIT_1"
             \/ n.conn.state = "CLOSE_WAIT" /\ TxqKick(n).conn.state = "LAST_ACK"
      BY <1>15, FlowKick
    <2>. QED  BY <1>10, <1>11, <2>1, <2>2
  <1> HIDE DEF sent
  <1> DEFINE z == TcpClose(sent)
  <1>17. /\ Flow(z, p, e, base, peer, told) /\ z.up = sent.up /\ z.conn.rcv_nxt = sent.conn.rcv_nxt
         /\ \/ z.conn.state = sent.conn.state
            \/ sent.conn.state = "ESTAB" /\ z.conn.state = "FIN_WAIT_1"
            \/ sent.conn.state = "CLOSE_WAIT" /\ z.conn.state = "LAST_ACK"
    BY <1>9, <1>16, FlowClose
  <1>18. HsrvAnswer(m, status) = z
    BY <1>5, <1>12
  <1> HIDE DEF z
  <1>. QED  BY <1>2, <1>3, <1>9, <1>16, <1>17, <1>18 DEF R

-----------------------------------------------------------------------------
(* What a segment does to a flow.                                            *)

\* The ways of a connection's state that leave alone what it expects.
Moves(c, d) == /\ d.rcv_nxt = c.rcv_nxt
               /\ \/ d.state = c.state
                  \/ c.state = "ESTAB" /\ d.state = "FIN_WAIT_1"
                  \/ c.state = "FIN_WAIT_1" /\ d.state = "FIN_WAIT_2"
                  \/ c.state = "CLOSE_WAIT" /\ d.state = "LAST_ACK"

\* Such a move leaves the request it takes alone.
LEMMA TakesMoves ==
  ASSUME NEW c, NEW d, NEW u, NEW peer, Takes(c, u, peer), Moves(c, d)
  PROVE  Takes(d, u, peer)
  BY DEF Takes, Moves

\* A handler leaves the flow as one, or ends the connection; in an orderly end the
\* peer has read everything.
Serves(m, p, e, base, peer, told) == Flow(m, p, e, base, peer, told) /\ Takes(m.conn, m.up, peer)
Ends(m, n, p, e, base, peer, told) ==
  /\ n.conn = NoConn /\ n.up.said = m.up.said
  /\ n.up.ended = "CLOSED" => peer.got = m.up.said
  /\ \A s \in told \cup n.out : Told(p, e, base, m.up.said, Len(m.up.said) + 1, s)

\* One sequence number further on both sides.
LEMMA SeqCancel ==
  ASSUME NEW b \in SeqNums, NEW a \in Int, NEW j \in Int, SeqAdd(b, 1) = SeqAdd(a, 1 + j)
  PROVE  b = SeqAdd(a, j)
  <1>1. b \in Int /\ 0 <= b /\ b < SeqMod /\ SeqMod \in Nat
    BY TcpAssumption DEF SeqNums
  <1>2. SeqAdd(SeqAdd(b, 1), -1) = SeqAdd(b, 1 + (-1))
    BY <1>1, SeqAddTwice
  <1>3. SeqAdd(SeqAdd(a, 1 + j), -1) = SeqAdd(a, (1 + j) + (-1))
    BY SeqAddTwice
  <1>4. 1 + (-1) = 0 /\ (1 + j) + (-1) = j /\ b + 0 = b
    BY <1>1
  <1>5. SeqAdd(b, 0) = b
    BY <1>1, <1>4 DEF SeqAdd
  <1>. QED  BY <1>2, <1>3, <1>4, <1>5

\* A connection that dies has told no more than it said.
LEMMA FlowEnds ==
  ASSUME StreamsApart, NEW p \in Peers, NEW e \in 0 .. MaxEmbryos, NEW base \in SeqNums,
         NEW peer \in Peer, NEW told, NEW m, Flow(m, p, e, base, peer, told),
         NEW ev \in {"CLOSED", "ERROR"}, ev = "CLOSED" => peer.got = m.up.said
  PROVE  Ends(m, Die(m, ev), p, e, base, peer, told)
  <1> DEFINE n == Die(m, ev)
  <1>1. m \in Machines /\ m.up \in Hsrv
    BY DEF Flow, Machines
  <1>2. n.conn = NoConn
    BY <1>1, DieOK
  <1>3. n.up.said = m.up.said /\ n.up.ended = ev /\ n.out = m.out
    BY <1>1 DEF Die, Ended, HsrvEnded, Machines, Hsrv
  <1> HIDE DEF n
  <1>4. /\ Sent(m.conn, m.up) \in Int /\ Len(m.up.said) + 1 \in Int
        /\ Sent(m.conn, m.up) <= Len(m.up.said) + 1
    BY FlowType
  <1>5. \A s \in told \cup m.out : Told(p, e, base, m.up.said, Len(m.up.said) + 1, s)
    BY <1>4, ToldMore DEF Flow
  <1>. QED  BY <1>2, <1>3, <1>5 DEF Ends, n

\* Once our FIN is sent, all that was said is, and the peer has read it.
Finishing(m, peer) == \/ m.conn.state \in {"FIN_WAIT_1", "FIN_WAIT_2"}
                      \/ m.conn.state = "LAST_ACK" /\ Heard(peer) = Sent(m.conn, m.up)

\* A peer that has read our FIN has read all that was said.
LEMMA FlowRead ==
  ASSUME StreamsApart, NEW p \in Peers, NEW e \in 0 .. MaxEmbryos, NEW base \in SeqNums,
         NEW peer \in Peer, NEW told, NEW m, Flow(m, p, e, base, peer, told),
         Follows(peer, m.up.said), Finishing(m, peer)
  PROVE  peer.got = m.up.said
  <1> DEFINE L == Len(m.up.said)
             G == Len(peer.got)
             S == Sent(m.conn, m.up)
             H == Heard(peer)
  <1>1. m.up.said \in Seq(ResponseUnits) /\ L \in Nat /\ peer.got \in Seq(ResponseUnits) /\ G \in Nat
    BY FlowType, LenProperties DEF Peer
  <1>2. m.conn.state \in FinStates /\ m.conn.txq = <<>>
    BY DEF FinStates, Flow, Shape, Finishing
  <1>3. S = L + 1
    <2>1. Len(m.conn.txq) = 0
      BY <1>2, EmptySeq
    <2>2. S = L - 0 + 1
      BY <1>1, <1>2, <2>1, SentIs
    <2>. QED  BY <1>1, <2>2
  <1>4. S <= H + 1
    BY DEF Flow, Writes
  <1>5. CASE peer.eof
    <2>1. L = G
      BY <1>5 DEF Follows
    <2>. QED  BY <1>1, <2>1, SubSeqFull DEF Follows
  <1>6. CASE ~peer.eof
    <2>1. H = G
      BY <1>1, <1>6 DEF Heard
    <2>2. G <= L
      BY DEF Follows
    <2>3. L = G
      <3> HIDE DEF L, G, S, H
      <3>. QED  BY <1>1, <1>3, <1>4, <2>1, <2>2
    <2>. QED  BY <1>1, <2>3, SubSeqFull DEF Follows
  <1>. QED  BY <1>5, <1>6

\* The acknowledgement of the segment in flight says that all that was sent has
\* been read.
LEMMA FlowHeard ==
  ASSUME StreamsApart, NEW p \in Peers, NEW e \in 0 .. MaxEmbryos, NEW base \in SeqNums,
         NEW peer \in Peer, NEW told, NEW m, Flow(m, p, e, base, peer, told),
         NEW s, "ACK" \in s.flags, Acks(peer, base, s), s.ack = m.conn.snd_nxt
  PROVE  Heard(peer) = Sent(m.conn, m.up)
  <1> DEFINE S == Sent(m.conn, m.up)
             H == Heard(peer)
             L == Len(m.up.said)
  <1>1. PICK j \in 0 .. H : s.ack = SeqAdd(base, 1 + j)
    BY DEF Acks
  <1>2. m.conn.snd_nxt = SeqAdd(base, 1 + S) /\ H <= S
    BY DEF Flow, Writes
  <1>3. S \in Nat /\ H \in Nat /\ L \in Nat /\ S <= L + 1 /\ L + 2 < SeqMod /\ SeqMod \in Nat
    BY FlowType, TcpAssumption
  <1>4. SeqAdd(base, 1 + j) = SeqAdd(base, 1 + S)
    BY <1>1, <1>2
  <1> HIDE DEF S, H, L
  <1>5. 1 + j \in Int /\ 1 + S \in Int /\ 1 + j < 1 + S + SeqMod /\ 1 + S < 1 + j + SeqMod
    BY <1>1, <1>2, <1>3
  <1>6. 1 + j = 1 + S
    BY <1>4, <1>5, Places
  <1>7. H = S
    BY <1>1, <1>2, <1>3, <1>6
  <1>. QED  BY <1>7 DEF H, S

\* What is in flight is read, and off.
Cleared(m) == [m EXCEPT !.conn.unacked = {}]

\* An acknowledgement of an open connection keeps the flow.
LEMMA FlowAcked ==
  ASSUME StreamsApart, NEW p \in Peers, NEW e \in 0 .. MaxEmbryos, NEW base \in SeqNums,
         NEW peer \in Peer, NEW told, NEW m, Flow(m, p, e, base, peer, told),
         Heard(peer) = Sent(m.conn, m.up), m.conn.state \in OpenStates
  PROVE  /\ Flow(Cleared(m), p, e, base, peer, told) /\ Cleared(m).up = m.up
         /\ Cleared(m).conn.rcv_nxt = m.conn.rcv_nxt /\ Cleared(m).conn.state = m.conn.state
  <1> DEFINE n == Cleared(m)
  <1>1. m \in Machines /\ m.conn \in Conn /\ Shape(m.conn) /\ Writes(m.conn, m.up, peer, base)
    BY DEF Flow, Machines
  <1>2. /\ n \in Machines /\ n.up = m.up /\ n.out = m.out /\ n.conn.unacked = {}
        /\ n.conn.state = m.conn.state /\ n.conn.txq = m.conn.txq
        /\ n.conn.snd_nxt = m.conn.snd_nxt /\ n.conn.rcv_nxt = m.conn.rcv_nxt
        /\ n.conn.close_after = m.conn.close_after
    BY <1>1 DEF Machines, Conn, Cleared
  <1> HIDE DEF n
  <1>3. Sent(n.conn, n.up) = Sent(m.conn, m.up)
    BY <1>2 DEF Sent
  <1>4. Shape(n.conn)
    BY <1>1, <1>2 DEF Shape, OpenStates, FinStates
  <1>5. Writes(n.conn, n.up, peer, base)
    <2>1. Sent(m.conn, m.up) \in Nat
      BY FlowType
    <2>2. Heard(peer) <= Sent(n.conn, n.up) /\ Sent(n.conn, n.up) <= Heard(peer) + 1
      BY <1>3, <2>1
    <2>3. ~n.up.done => \/ n.conn.state = "ESTAB" /\ n.conn.unacked = {} /\ ~n.conn.close_after
                        \/ n.conn.state = "LAST_ACK"
      BY <1>1, <1>2 DEF Writes
    <2>8. n.up.done <=> n.up.said # <<>>
      BY <1>1, <1>2, Zenon DEF Writes
    <2>9. Len(n.conn.txq) <= Len(n.up.said)
      BY <1>1, <1>2 DEF Writes
    <2>4. \A i \in 1 .. Len(n.conn.txq) :
            n.conn.txq[i] = <<n.up.said[Len(n.up.said) - Len(n.conn.txq) + i]>>
      <3>1. \A i \in 1 .. Len(m.conn.txq) :
              m.conn.txq[i] = <<m.up.said[Len(m.up.said) - Len(m.conn.txq) + i]>>
        BY <1>1 DEF Writes
      <3>. QED  BY <1>2, <3>1, Zenon
    <2>7. n.conn.snd_nxt = SeqAdd(base, 1 + Sent(n.conn, n.up))
      BY <1>1, <1>2, <1>3 DEF Writes
    <2>5. n.conn.unacked = {} => Heard(peer) = Sent(n.conn, n.up)
      BY <1>3
    <2>6. n.conn.state \in OpenStates \cup FinStates
      BY <1>2
    <2>. QED  BY <2>2, <2>3, <2>4, <2>5, <2>6, <2>7, <2>8, <2>9 DEF Writes
  <1>6. Flow(n, p, e, base, peer, told)
    BY <1>2, <1>3, <1>4, <1>5 DEF Flow
  <1>. QED  BY <1>2, <1>6 DEF n

\* Our FIN is read.
Halved(m) == [m EXCEPT !.conn.unacked = {}, !.conn.state = "FIN_WAIT_2"]

\* So does that of the FIN, which leaves the connection half closed.
LEMMA FlowHalf ==
  ASSUME StreamsApart, NEW p \in Peers, NEW e \in 0 .. MaxEmbryos, NEW base \in SeqNums,
         NEW peer \in Peer, NEW told, NEW m, Flow(m, p, e, base, peer, told),
         Heard(peer) = Sent(m.conn, m.up), m.conn.state = "FIN_WAIT_1"
  PROVE  /\ Flow(Halved(m), p, e, base, peer, told) /\ Halved(m).up = m.up
         /\ Halved(m).conn.rcv_nxt = m.conn.rcv_nxt /\ Halved(m).conn.state = "FIN_WAIT_2"
  <1> DEFINE n == Halved(m)
  <1>1. m \in Machines /\ m.conn \in Conn /\ Shape(m.conn) /\ Writes(m.conn, m.up, peer, base)
    BY DEF Flow, Machines
  <1>2. /\ n \in Machines /\ n.up = m.up /\ n.out = m.out /\ n.conn.unacked = {}
        /\ n.conn.state = "FIN_WAIT_2" /\ n.conn.txq = m.conn.txq
        /\ n.conn.snd_nxt = m.conn.snd_nxt /\ n.conn.rcv_nxt = m.conn.rcv_nxt
        /\ n.conn.close_after = m.conn.close_after
    BY <1>1 DEF Machines, Conn, Halved, TcpStates, FinStates
  <1> HIDE DEF n
  <1>3. Sent(n.conn, n.up) = Sent(m.conn, m.up)
    BY <1>2 DEF Sent, FinStates
  <1>4. Shape(n.conn)
    BY <1>1, <1>2 DEF Shape, ActiveStates, FinStates
  <1>5. Writes(n.conn, n.up, peer, base)
    <2>1. m.up.done /\ n.conn.state \in FinStates
      BY <1>1, <1>2 DEF Writes, FinStates
    <2>. QED  BY <1>1, <1>2, <1>3, <2>1 DEF Writes
  <1>6. Flow(n, p, e, base, peer, told)
    BY <1>2, <1>3, <1>4, <1>5 DEF Flow
  <1>. QED  BY <1>2, <1>6 DEF n

\* The acknowledgement a segment carries.
LEMMA FlowAckIn ==
  ASSUME StreamsApart, NEW p \in Peers, NEW e \in 0 .. MaxEmbryos, NEW base \in SeqNums,
         NEW peer \in Peer, NEW told, NEW m, Serves(m, p, e, base, peer, told),
         Follows(peer, m.up.said), NEW s, Acks(peer, base, s)
  PROVE  LET n == AckIn(m, s)
         IN \/ Ends(m, n, p, e, base, peer, told)
            \/ Serves(n, p, e, base, peer, told) /\ n.up = m.up
  <1> DEFINE acked == Cleared(m)
  <1>1. CASE "ACK" \notin s.flags \/ m.conn.unacked = {} \/ s.ack # m.conn.snd_nxt
    BY <1>1 DEF AckIn
  <1>2. CASE "ACK" \in s.flags /\ m.conn.unacked # {} /\ s.ack = m.conn.snd_nxt
    <2>1. Flow(m, p, e, base, peer, told) /\ Takes(m.conn, m.up, peer)
      BY DEF Serves
    <2>2. m \in Machines /\ m.conn \in Conn /\ Shape(m.conn) /\ Writes(m.conn, m.up, peer, base)
      BY <2>1 DEF Flow, Machines
    <2>3. Heard(peer) = Sent(m.conn, m.up)
      BY <1>2, <2>1, FlowHeard
    <2>4. m.conn.state \in OpenStates \cup {"FIN_WAIT_1", "LAST_ACK"}
      BY <1>2, <2>2 DEF Shape, Writes, FinStates
    <2>5. CASE m.conn.state \in OpenStates
      <3>1. AckIn(m, s) = TxqKick(acked)
        BY <1>2, <2>5 DEF AckIn, OpenStates, Cleared
      <3>2. /\ Flow(acked, p, e, base, peer, told) /\ acked.up = m.up
            /\ acked.conn.rcv_nxt = m.conn.rcv_nxt /\ acked.conn.state = m.conn.state
        BY <2>1, <2>3, <2>5, FlowAcked
      <3> HIDE DEF acked
      <3> DEFINE n == TxqKick(acked)
      <3>3. /\ Flow(n, p, e, base, peer, told) /\ n.up = acked.up
            /\ n.conn.rcv_nxt = acked.conn.rcv_nxt
            /\ \/ n.conn.state = acked.conn.state
               \/ acked.conn.state = "ESTAB" /\ n.conn.state = "FIN_WAIT_1"
               \/ acked.conn.state = "CLOSE_WAIT" /\ n.conn.state = "LAST_ACK"
        BY <3>2, FlowKick
      <3> HIDE DEF n
      <3>4. Moves(m.conn, n.conn) /\ n.up = m.up
        BY <3>2, <3>3 DEF Moves
      <3>5. Takes(n.conn, n.up, peer)
        BY <2>1, <3>4, TakesMoves
      <3>. QED  BY <3>1, <3>3, <3>4, <3>5 DEF Serves, n
    <2>6. CASE m.conn.state = "FIN_WAIT_1"
      <3> DEFINE n == AckIn(m, s)
      <3>1. n = Halved(m)
        BY <1>2, <2>2, <2>6 DEF AckIn, Machines, Conn, Halved
      <3> HIDE DEF n
      <3>2. /\ Flow(n, p, e, base, peer, told) /\ n.up = m.up
            /\ n.conn.rcv_nxt = m.conn.rcv_nxt /\ n.conn.state = "FIN_WAIT_2"
        BY <2>1, <2>3, <2>6, <3>1, FlowHalf
      <3>3. Moves(m.conn, n.conn)
        BY <2>6, <3>2 DEF Moves
      <3>4. Takes(n.conn, n.up, peer)
        BY <2>1, <3>2, <3>3, TakesMoves
      <3>. QED  BY <3>2, <3>4 DEF Serves, n
    <2>7. CASE m.conn.state = "LAST_ACK"
      <3>1. AckIn(m, s) = Die(acked, "CLOSED")
        BY <1>2, <2>7 DEF AckIn, Cleared
      <3>2. Die(acked, "CLOSED") = Die(m, "CLOSED")
        BY <2>2 DEF Die, Machines, Cleared
      <3>3. peer.got = m.up.said
        <4>1. Finishing(m, peer)
          BY <2>3, <2>7 DEF Finishing
        <4>. QED  BY <2>1, <4>1, FlowRead
      <3>4. Ends(m, Die(m, "CLOSED"), p, e, base, peer, told)
        BY <2>1, <3>3, FlowEnds
      <3>. QED  BY <3>1, <3>2, <3>4
    <2>. QED  BY <2>4, <2>5, <2>6, <2>7
  <1>. QED  BY <1>1, <1>2

\* What a handler adds to what was said: nothing, or the one answer, to a peer that
\* has read nothing.
Tells(said, more, peer) == more = said \/ (said = <<>> /\ Heard(peer) = 0 /\ more \in Texts)

\* The numbers of a request.
LEMMA Asking ==
  ASSUME StreamsApart, NEW peer \in Peer, peer.sent <= Len(peer.req)
  PROVE  /\ peer.req \in Seq(RequestUnits) /\ Len(peer.req) \in Nat /\ Len(peer.req) + 2 <= SeqMod
         /\ peer.sent \in Nat /\ PeerIss \in SeqNums /\ PeerIss \in Int /\ SeqMod \in Nat
  <1>1. peer.req \in Requests \cup {<<>>} /\ peer.sent \in Nat
    BY DEF Peer
  <1>2. SeqMod \in Nat /\ SeqMod > 1 /\ PeerIss \in SeqNums /\ PeerIss \in Int
    BY TcpAssumption, ServerAssumption DEF SeqNums
  <1>3. CASE peer.req \in Requests
    BY <1>1, <1>2, <1>3, ServerAssumption, LenProperties DEF StreamsApart
  <1>4. CASE peer.req = <<>>
    BY <1>1, <1>2, <1>4, EmptySeq
  <1>. QED  BY <1>1, <1>3, <1>4

\* The request buffer is no part of what is written.
Buffers(m, buf) == [m EXCEPT !.up.buf = buf]

\* Filling it keeps the flow.
LEMMA FlowBuf ==
  ASSUME NEW p, NEW e, NEW base, NEW peer, NEW told, NEW m, Flow(m, p, e, base, peer, told),
         NEW buf \in Seq(RequestUnits)
  PROVE  /\ Flow(Buffers(m, buf), p, e, base, peer, told) /\ Buffers(m, buf).conn = m.conn
         /\ Buffers(m, buf).up.done = m.up.done /\ Buffers(m, buf).up.said = m.up.said
         /\ Buffers(m, buf).up.buf = buf
  <1> DEFINE n == Buffers(m, buf)
  <1>1. m \in Machines /\ m.up \in Hsrv
    BY DEF Flow, Machines
  <1>2. /\ n \in Machines /\ n.conn = m.conn /\ n.out = m.out
        /\ n.up.done = m.up.done /\ n.up.said = m.up.said /\ n.up.buf = buf
    BY <1>1 DEF Machines, Hsrv, Buffers
  <1> HIDE DEF n
  <1>3. Sent(n.conn, n.up) = Sent(m.conn, m.up)
    BY <1>2 DEF Sent
  <1>4. Writes(n.conn, n.up, peer, base)
    BY <1>2, <1>3 DEF Flow, Writes
  <1>5. Flow(n, p, e, base, peer, told)
    BY <1>2, <1>3, <1>4 DEF Flow
  <1>. QED  BY <1>2, <1>5 DEF n

\* The server is handed the next units of a request, of which it then has the
\* first k.
LEMMA FlowHsrvData ==
  ASSUME StreamsApart, NEW p \in Peers, NEW e \in 0 .. MaxEmbryos, NEW base \in SeqNums,
         NEW peer \in Peer, NEW told, NEW m, Flow(m, p, e, base, peer, told),
         m.up.known, m.conn.state \in {"ESTAB", "FIN_WAIT_1", "FIN_WAIT_2"},
         NEW data \in Seq(RequestUnits), NEW k \in 0 .. peer.sent,
         m.conn.rcv_nxt = SeqAdd(PeerIss, 1 + k),
         ~m.up.done => m.up.buf \o data = SubSeq(peer.req, 1, k)
  PROVE  /\ Serves(HsrvData(m, data), p, e, base, peer, told)
         /\ Tells(m.up.said, HsrvData(m, data).up.said, peer)
  <1>1. m \in Machines /\ m.conn \in Conn /\ m.up \in Hsrv
    BY DEF Flow, Machines
  <1>2. CASE m.up.done
    <2>1. Takes(m.conn, m.up, peer)
      BY <1>2 DEF Takes
    <2>. QED  BY <1>2, <2>1 DEF HsrvData, Serves, Tells
  <1>3. CASE ~m.up.done
    <2> DEFINE buf == m.up.buf \o data
               got == Buffers(m, buf)
    <2>1. buf \in Seq(RequestUnits)
      BY <1>1, ConcatProperties DEF Hsrv
    <2>2. m.conn.state = "ESTAB"
      BY <1>3 DEF Flow, Writes
    <2>3. buf = SubSeq(peer.req, 1, k)
      BY <1>3
    <2>4. HsrvData(m, data) = IF TooLong(buf) THEN HsrvAnswer(got, 400)
                              ELSE IF Complete(buf) THEN HsrvAnswer(got, Route(buf))
                              ELSE got
      BY <1>3 DEF HsrvData, Buffers
    <2> HIDE DEF buf
    <2>5. /\ Flow(got, p, e, base, peer, told) /\ got.conn = m.conn
          /\ got.up.done = m.up.done /\ got.up.said = m.up.said /\ got.up.buf = buf
      BY <2>1, FlowBuf
    <2> HIDE DEF got
    <2>6. ASSUME NEW status \in Statuses
          PROVE  /\ Serves(HsrvAnswer(got, status), p, e, base, peer, told)
                 /\ Tells(m.up.said, HsrvAnswer(got, status).up.said, peer)
      <3> DEFINE n == HsrvAnswer(got, status)
      <3>1. got.conn.state = "ESTAB" /\ ~got.up.done
        BY <1>3, <2>2, <2>5
      <3>2. /\ Flow(n, p, e, base, peer, told) /\ n.up.done /\ n.up.said = Response(status)
            /\ n.conn.rcv_nxt = got.conn.rcv_nxt /\ n.conn.state \in {"ESTAB", "FIN_WAIT_1"}
            /\ got.up.said = <<>> /\ Heard(peer) = 0
        BY <2>5, <3>1, FlowAnswer
      <3> HIDE DEF n
      <3>3. Takes(n.conn, n.up, peer)
        BY <2>5, <3>2 DEF Takes
      <3>4. Response(status) \in Texts
        BY DEF Texts
      <3>. QED  BY <2>5, <3>2, <3>3, <3>4 DEF Serves, Tells, n
    <2>7. 400 \in Statuses /\ Route(buf) \in Statuses
      BY DEF Route, Statuses
    <2>8. Takes(got.conn, got.up, peer)
      BY <2>2, <2>3, <2>5 DEF Takes
    <2>9. CASE TooLong(buf)
      BY <2>4, <2>6, <2>7, <2>9
    <2>10. CASE ~TooLong(buf) /\ Complete(buf)
      BY <2>4, <2>6, <2>7, <2>10
    <2>11. CASE ~TooLong(buf) /\ ~Complete(buf)
      BY <2>4, <2>5, <2>8, <2>11 DEF Serves, Tells
    <2>. QED  BY <2>9, <2>10, <2>11
  <1>. QED  BY <1>2, <1>3

\* Where a segment of the request stands, if it is the next in order.
LEMMA NextAsked ==
  ASSUME StreamsApart, NEW peer \in Peer, peer.sent <= Len(peer.req), NEW c, NEW u,
         Takes(c, u, peer), c.state \in {"ESTAB", "CLOSE_WAIT"} \cup FinStates,
         NEW j \in 0 .. peer.sent, c.rcv_nxt = SeqAdd(PeerIss, 1 + j)
  PROVE  /\ c.state \in {"ESTAB", "FIN_WAIT_1", "FIN_WAIT_2"}
         /\ ~u.done => u.buf = SubSeq(peer.req, 1, j)
  <1> DEFINE R == Len(peer.req)
             W == peer.sent
  <1>1. /\ R \in Nat /\ R + 2 <= SeqMod /\ W \in Nat /\ W <= R /\ j \in 0 .. W
        /\ PeerIss \in SeqNums /\ SeqMod \in Nat
    BY Asking
  <1>2. ASSUME c.state \in {"CLOSE_WAIT", "LAST_ACK"} PROVE FALSE
    <2>1. SeqAdd(PeerIss, 1 + j) = SeqAdd(PeerIss, 2 + W)
      BY <1>2 DEF Takes
    <2> HIDE DEF R, W
    <2>2. 1 + j \in Int /\ 2 + W \in Int /\ 1 + j < 2 + W + SeqMod /\ 2 + W < 1 + j + SeqMod
      BY <1>1
    <2>3. 1 + j = 2 + W
      BY <1>1, <2>1, <2>2, Places
    <2>. QED  BY <1>1, <2>3
  <1>3. c.state \in {"ESTAB", "FIN_WAIT_1", "FIN_WAIT_2"}
    BY <1>2 DEF FinStates
  <1>4. PICK n \in 0 .. W : /\ c.rcv_nxt = SeqAdd(PeerIss, 1 + n)
                            /\ ~u.done => u.buf = SubSeq(peer.req, 1, n)
    BY <1>3 DEF Takes
  <1>5. SeqAdd(PeerIss, 1 + j) = SeqAdd(PeerIss, 1 + n)
    BY <1>4
  <1> HIDE DEF R, W
  <1>6. 1 + j \in Int /\ 1 + n \in Int /\ 1 + j < 1 + n + SeqMod /\ 1 + n < 1 + j + SeqMod
    BY <1>1
  <1>7. 1 + j = 1 + n
    BY <1>1, <1>5, <1>6, Places
  <1>8. j = n
    BY <1>1, <1>7
  <1>. QED  BY <1>3, <1>4, <1>8

\* What rcv_nxt becomes behind a payload.
Received(m, l) == [m EXCEPT !.conn.rcv_nxt = SeqAdd(@, l)]

\* Moving rcv_nxt keeps the flow.
LEMMA FlowReceived ==
  ASSUME NEW p, NEW e, NEW base, NEW peer, NEW told, NEW m, Flow(m, p, e, base, peer, told),
         NEW l \in Nat
  PROVE  /\ Flow(Received(m, l), p, e, base, peer, told) /\ Received(m, l).up = m.up
         /\ Received(m, l).conn.state = m.conn.state /\ Received(m, l).conn.unacked = m.conn.unacked
         /\ Received(m, l).conn.txq = m.conn.txq
         /\ Received(m, l).conn.rcv_nxt = SeqAdd(m.conn.rcv_nxt, l)
  <1> DEFINE r == SeqAdd(m.conn.rcv_nxt, l)
             n == [m EXCEPT !.conn.rcv_nxt = r]
  <1>1. m \in Machines /\ m.conn \in Conn
    BY DEF Flow, Machines
  <1>2. r \in SeqNums
    <2>1. m.conn.rcv_nxt \in Int
      BY <1>1 DEF Conn, SeqNums
    <2>. QED  BY <2>1, SeqAddType
  <1>3. Received(m, l) = n
    BY <1>1 DEF Received, Machines, Conn
  <1> HIDE DEF r
  <1>4. /\ Flow(n, p, e, base, peer, told) /\ n.up = m.up /\ n.conn.state = m.conn.state
        /\ n.conn.rcv_nxt = r /\ n.conn.unacked = m.conn.unacked /\ n.conn.txq = m.conn.txq
    BY <1>2, FlowExpects
  <1> HIDE DEF n
  <1>. QED  BY <1>3, <1>4 DEF r

\* Payload next in order is the next of the request.
LEMMA FlowDataIn ==
  ASSUME StreamsApart, NEW p \in Peers, NEW e \in 0 .. MaxEmbryos, NEW base \in SeqNums,
         NEW peer \in Peer, peer.sent <= Len(peer.req), NEW told,
         NEW m, Serves(m, p, e, base, peer, told), m.up.known,
         NEW s \in RequestSegments, Asked(peer, s), s.seq = m.conn.rcv_nxt
  PROVE  /\ Serves(DataIn(m, s), p, e, base, peer, told)
         /\ Tells(m.up.said, DataIn(m, s).up.said, peer)
  <1>1. CASE s.data = <<>>
    BY <1>1 DEF DataIn, Tells
  <1>2. CASE s.data # <<>>
    <2> DEFINE W == peer.sent
               l == Len(s.data)
    <2>1. s.data \in Seq(RequestUnits) /\ l \in Nat
      BY LenProperties DEF RequestSegments, Segments
    <2>2. PICK j \in 0 .. W : /\ j + l <= W /\ s.seq = SeqAdd(PeerIss, 1 + j)
                              /\ s.data = SubSeq(peer.req, j + 1, j + l)
      BY <1>2 DEF Asked, Opening
    <2>3. /\ peer.req \in Seq(RequestUnits) /\ Len(peer.req) \in Nat /\ W \in Nat
          /\ PeerIss \in Int /\ W <= Len(peer.req)
      BY Asking
    <2>4. Flow(m, p, e, base, peer, told) /\ Takes(m.conn, m.up, peer) /\ Writes(m.conn, m.up, peer, base)
      BY DEF Serves, Flow
    <2>5. /\ m.conn.state \in {"ESTAB", "FIN_WAIT_1", "FIN_WAIT_2"}
          /\ ~m.up.done => m.up.buf = SubSeq(peer.req, 1, j)
      <3>1. m.conn.state \in {"ESTAB", "CLOSE_WAIT"} \cup FinStates
        BY <2>4 DEF Writes, OpenStates
      <3>2. m.conn.rcv_nxt = SeqAdd(PeerIss, 1 + j)
        BY <2>2
      <3>. QED  BY <2>2, <2>4, <3>1, <3>2, NextAsked
    <2> DEFINE got == Received(m, l)
               ack == SendAck(got)
               k == j + l
    <2>6. DataIn(m, s) = HsrvData(ack, s.data)
      BY <1>2 DEF DataIn, Data, Received
    <2> HIDE DEF l
    <2>7. /\ Flow(got, p, e, base, peer, told) /\ got.up = m.up
          /\ got.conn.state = m.conn.state /\ got.conn.rcv_nxt = SeqAdd(m.conn.rcv_nxt, l)
      <3>1. Flow(m, p, e, base, peer, told) /\ l \in Nat
        BY <2>1, <2>4
      <3>. QED  BY ONLY <3>1, FlowReceived
    <2> HIDE DEF got
    <2>8. Flow(ack, p, e, base, peer, told) /\ ack.conn = got.conn /\ ack.up = got.up
      BY <2>7, FlowAcks
    <2> HIDE DEF ack
    <2>9. k \in 0 .. W /\ k \in j .. Len(peer.req) /\ j \in 0 .. Len(peer.req)
      <3> DEFINE L == Len(peer.req)
      <3>1. l \in Nat /\ j \in Nat /\ W \in Nat /\ L \in Nat /\ j + l <= W /\ W <= L
        BY <2>1, <2>2, <2>3
      <3> HIDE DEF L, W
      <3>2. j + l \in 0 .. W /\ j + l \in j .. L /\ j \in 0 .. L
        BY ONLY <3>1
      <3>. QED  BY <3>2 DEF L
    <2>10. ack.conn.rcv_nxt = SeqAdd(PeerIss, 1 + k)
      <3>1. PeerIss \in Int
        BY ONLY <2>3
      <3>2. l \in Nat
        BY ONLY <2>1
      <3>3. j \in Nat
        <4>1. j \in 0 .. W /\ W \in Nat
          BY <2>2, <2>3
        <4> HIDE DEF W
        <4>. QED  BY ONLY <4>1
      <3>4. 1 + j \in Int /\ l \in Int /\ (1 + j) + l = 1 + (j + l)
        BY ONLY <3>2, <3>3
      <3>5. SeqAdd(SeqAdd(PeerIss, 1 + j), l) = SeqAdd(PeerIss, (1 + j) + l)
        BY ONLY <3>1, <3>4, SeqAddTwice
      <3>6. ack.conn.rcv_nxt = SeqAdd(m.conn.rcv_nxt, l) /\ m.conn.rcv_nxt = SeqAdd(PeerIss, 1 + j)
        BY <2>2, <2>7, <2>8
      <3>. QED  BY ONLY <3>4, <3>5, <3>6
    <2>11. ~ack.up.done => ack.up.buf \o s.data = SubSeq(peer.req, 1, k)
      <3>1. 1 \in 1 .. Len(peer.req) + 1 /\ j \in 1 - 1 .. Len(peer.req)
        BY <2>3, <2>9
      <3>2. SubSeq(peer.req, 1, j) \o SubSeq(peer.req, j + 1, k) = SubSeq(peer.req, 1, k)
        <4>. HIDE DEF k
        <4>. QED  BY <2>3, <2>9, <3>1, ConcatAdjacentSubSeq
      <3>. QED  BY <2>2, <2>5, <2>7, <2>8, <3>2
    <2> HIDE DEF k
    <2>12. ack.up.known /\ ack.conn.state \in {"ESTAB", "FIN_WAIT_1", "FIN_WAIT_2"} /\ ack.up.said = m.up.said
      BY <2>5, <2>7, <2>8
    <2>13. /\ Serves(HsrvData(ack, s.data), p, e, base, peer, told)
           /\ Tells(ack.up.said, HsrvData(ack, s.data).up.said, peer)
      BY <2>1, <2>8, <2>9, <2>10, <2>11, <2>12, FlowHsrvData
    <2>. QED  BY <2>6, <2>12, <2>13
  <1>. QED  BY <1>1, <1>2

\* The FIN of a peer to which nothing is left to say is answered with ours.
LEMMA FlowFinLast ==
  ASSUME StreamsApart, NEW p \in Peers, NEW e \in 0 .. MaxEmbryos, NEW base \in SeqNums,
         NEW peer \in Peer, NEW told, NEW m, Flow(m, p, e, base, peer, told),
         peer.fin, m.conn.rcv_nxt = SeqAdd(PeerIss, 2 + peer.sent),
         m.conn.state = "ESTAB", m.conn.unacked = {}, m.conn.txq = <<>>
  PROVE  LET n == SendRel([m EXCEPT !.conn.state = "LAST_ACK"], {"ACK", "FIN"}, <<>>)
         IN Serves(n, p, e, base, peer, told) /\ n.up = m.up
  <1> DEFINE last == [m EXCEPT !.conn.state = "LAST_ACK"]
             n == SendRel(last, {"ACK", "FIN"}, <<>>)
             f == Frame(last.conn, {"ACK", "FIN"}, <<>>)
             u == m.up
             L == Len(u.said)
             H == Heard(peer)
  <1>1. /\ m \in Machines /\ m.conn \in Conn /\ Shape(m.conn) /\ Writes(m.conn, u, peer, base)
        /\ u.said \in {<<>>} \cup Texts /\ m.conn.unacked \subseteq told \cup m.out
        /\ \A s \in told \cup m.out : Told(p, e, base, u.said, Sent(m.conn, u), s)
    BY DEF Flow, Machines
  <1>2. L \in Nat /\ H \in Nat /\ Sent(m.conn, u) = L /\ u.said \in Seq(ResponseUnits)
    <2>1. m.conn.state \notin FinStates /\ Len(m.conn.txq) = 0
      BY EmptySeq DEF FinStates
    <2>2. L \in Nat /\ H \in Nat /\ u.said \in Seq(ResponseUnits)
      BY FlowType
    <2>3. Sent(m.conn, u) = L - 0
      BY <2>1, <2>2, SentIs
    <2>. QED  BY <2>2, <2>3
  <1>3. H = L /\ m.conn.snd_nxt = SeqAdd(base, 1 + L)
    BY <1>1, <1>2 DEF Writes
  <1>4. /\ last \in Machines /\ last.up = u /\ last.out = m.out
        /\ last.conn.state = "LAST_ACK" /\ last.conn.snd_nxt = m.conn.snd_nxt
        /\ last.conn.txq = <<>> /\ last.conn.rcv_nxt = m.conn.rcv_nxt
    BY <1>1 DEF Machines, Conn, TcpStates, FinStates
  <1> HIDE DEF last
  <1>5. {"ACK", "FIN"} \in SUBSET Flags /\ <<>> \in Seq(ResponseUnits)
    BY EmptySeq DEF Flags
  <1>6. Leaves(last, n, {"ACK", "FIN"}, <<>>, f)
    BY <1>4, <1>5, FlowSends
  <1>7. n \in Machines /\ n.up = u /\ n.conn.state = "LAST_ACK" /\ n.conn.txq = <<>>
        /\ Carries(n.conn, {"ACK", "FIN"})
    BY <1>4, <1>5, SendRelOK
  <1> HIDE DEF n, f, L, H, u
  <1>8. SeqLen({"ACK", "FIN"}, <<>>) = 1
    <2>1. {"ACK", "FIN"} \cap {"SYN", "FIN"} # {}
      OBVIOUS
    <2>. QED  BY <2>1, EmptySeq DEF SeqLen
  <1>9. Sent(n.conn, u) = L + 1
    <2>1. Len(n.conn.txq) = 0 /\ n.conn.state \in FinStates
      BY <1>7, EmptySeq DEF FinStates
    <2>2. Sent(n.conn, u) = L - 0 + 1
      BY <1>2, <2>1, SentIs DEF L
    <2>. QED  BY <1>2, <2>2
  <1>10. n.conn.snd_nxt = SeqAdd(base, 1 + (L + 1))
    <2>1. SeqAdd(SeqAdd(base, 1 + L), 1) = SeqAdd(base, (1 + L) + 1)
      BY <1>2, SeqAddTwice DEF SeqNums
    <2>2. (1 + L) + 1 = 1 + (L + 1)
      BY <1>2
    <2>. QED  BY <1>3, <1>4, <1>6, <1>8, <2>1, <2>2 DEF Leaves
  <1>11. \A s \in told \cup n.out : Told(p, e, base, u.said, L + 1, s)
    <2>1. \A s \in told \cup m.out : Told(p, e, base, u.said, L + 1, s)
      <3>1. L \in Int /\ L + 1 \in Int /\ L <= L + 1
        BY <1>2
      <3>. QED  BY <1>1, <1>2, <3>1, ToldMore
    <2>2. Told(p, e, base, u.said, L + 1, f)
      <3>1. L + 1 > Len(u.said) /\ f.seq = SeqAdd(base, 1 + Len(u.said))
        <4>1. L + 1 > L /\ f.seq = SeqAdd(base, 1 + L)
          BY <1>2, <1>3, <1>4, <1>6 DEF Leaves
        <4>. QED  BY <4>1 DEF L
      <3>. QED  BY <1>6, <3>1 DEF Told, Leaves
    <2>. QED  BY <1>4, <1>6, <2>1, <2>2 DEF Leaves
  <1>12. Shape(n.conn)
    BY <1>7 DEF Shape, Carries, ActiveStates
  <1>13. Writes(n.conn, u, peer, base)
    <2>1. H <= L + 1 /\ L + 1 <= H + 1 /\ 0 <= Len(u.said)
      BY <1>2, <1>3 DEF L
    <2>2. Len(n.conn.txq) = 0
      BY <1>7, EmptySeq
    <2>3. n.conn.state \in OpenStates \cup FinStates /\ n.conn.unacked # {}
      BY <1>6, <1>7 DEF FinStates, Leaves
    <2>4. \A i \in 1 .. Len(n.conn.txq) :
             n.conn.txq[i] = <<u.said[Len(u.said) - Len(n.conn.txq) + i]>>
      BY <2>2
    <2>5. u.done <=> u.said # <<>>
      BY <1>1, Zenon DEF Writes
    <2>. QED  BY <1>7, <1>9, <1>10, <2>1, <2>2, <2>3, <2>4, <2>5 DEF Writes, H
  <1>14. n.conn.unacked \subseteq told \cup n.out
    BY <1>6 DEF Leaves
  <1>15. Flow(n, p, e, base, peer, told)
    BY <1>1, <1>7, <1>9, <1>11, <1>12, <1>13, <1>14 DEF Flow
  <1>16. n.conn.rcv_nxt = m.conn.rcv_nxt
    BY <1>4, <1>6 DEF Leaves
  <1>17. Takes(n.conn, n.up, peer)
    BY <1>7, <1>16 DEF Takes
  <1>. QED  BY <1>7, <1>15, <1>17 DEF Serves, n, last, u

\* The FIN of a peer that is still being answered waits for the end of the answer.
Waits(m) == [m EXCEPT !.conn.state = "CLOSE_WAIT", !.conn.close_after = TRUE]

\* And the flow goes on behind it.
LEMMA FlowFinWait ==
  ASSUME NEW p, NEW e, NEW base, NEW peer, NEW told, NEW m, Flow(m, p, e, base, peer, told),
         peer.fin, m.conn.rcv_nxt = SeqAdd(PeerIss, 2 + peer.sent),
         m.conn.state = "ESTAB", m.conn.unacked # {} \/ m.conn.txq # <<>>
  PROVE  Serves(Waits(m), p, e, base, peer, told) /\ Waits(m).up = m.up
  <1> DEFINE n == Waits(m)
  <1>1. /\ m \in Machines /\ m.conn \in Conn /\ Shape(m.conn)
        /\ Writes(m.conn, m.up, peer, base) /\ m.up \in Hsrv
    BY DEF Flow, Machines
  <1>2. /\ n \in Machines /\ n.up = m.up /\ n.out = m.out /\ n.conn.unacked = m.conn.unacked
        /\ n.conn.state = "CLOSE_WAIT" /\ n.conn.txq = m.conn.txq
        /\ n.conn.snd_nxt = m.conn.snd_nxt /\ n.conn.rcv_nxt = m.conn.rcv_nxt
    BY <1>1 DEF Machines, Conn, TcpStates, OpenStates, Waits
  <1> HIDE DEF n
  <1>3. Sent(n.conn, n.up) = Sent(m.conn, m.up)
    BY <1>2 DEF Sent, FinStates
  <1>4. Shape(n.conn)
    BY <1>1, <1>2 DEF Shape, ActiveStates, FinStates
  <1>5. m.up.done
    <2>1. SUFFICES ASSUME ~m.up.done PROVE FALSE
      OBVIOUS
    <2>2. m.up.said = <<>> /\ m.conn.unacked = {} /\ Len(m.conn.txq) <= Len(m.up.said)
      BY <1>1, <2>1 DEF Writes
    <2>3. m.conn.txq \in Seq(Seq(ResponseUnits))
      BY <1>1 DEF Conn
    <2>. QED  BY <2>2, <2>3, EmptySeq
  <1>6. Writes(n.conn, n.up, peer, base)
    BY <1>1, <1>2, <1>3, <1>5, ZenonT(60) DEF Writes, OpenStates
  <1>7. Flow(n, p, e, base, peer, told)
    BY <1>2, <1>3, <1>4, <1>6 DEF Flow
  <1>8. Takes(n.conn, n.up, peer)
    BY <1>2 DEF Takes
  <1>. QED  BY <1>2, <1>7, <1>8 DEF Serves, n

\* The peer's FIN, next in order.
LEMMA FlowFinIn ==
  ASSUME StreamsApart, NEW p \in Peers, NEW e \in 0 .. MaxEmbryos, NEW base \in SeqNums,
         NEW peer \in Peer, peer.sent <= Len(peer.req), NEW told,
         NEW m, Serves(m, p, e, base, peer, told), Follows(peer, m.up.said),
         peer.fin, m.conn.rcv_nxt = SeqAdd(PeerIss, 1 + peer.sent)
  PROVE  LET n == FinIn(m)
         IN \/ Ends(m, n, p, e, base, peer, told)
            \/ Serves(n, p, e, base, peer, told) /\ n.up = m.up
  <1> DEFINE got == Received(m, 1)
  <1>1. Flow(m, p, e, base, peer, told) /\ Takes(m.conn, m.up, peer) /\ Writes(m.conn, m.up, peer, base)
    BY DEF Serves, Flow
  <1>2. m.conn.state \in {"ESTAB", "FIN_WAIT_1", "FIN_WAIT_2"}
    <2>1. peer.sent \in 0 .. peer.sent
      BY Asking
    <2>2. m.conn.state \in {"ESTAB", "CLOSE_WAIT"} \cup FinStates
      BY <1>1 DEF Writes, OpenStates
    <2>. QED  BY <1>1, <2>1, <2>2, NextAsked
  <1>3. /\ Flow(got, p, e, base, peer, told) /\ got.up = m.up
        /\ got.conn.state = m.conn.state /\ got.conn.unacked = m.conn.unacked
        /\ got.conn.txq = m.conn.txq /\ got.conn.rcv_nxt = SeqAdd(m.conn.rcv_nxt, 1)
    <2>1. Flow(m, p, e, base, peer, told) /\ 1 \in Nat
      BY <1>1
    <2>. QED  BY ONLY <2>1, FlowReceived
  <1>4. FinIn(m) = IF m.conn.state = "ESTAB" /\ m.conn.unacked = {} /\ m.conn.txq = <<>>
                   THEN SendRel([got EXCEPT !.conn.state = "LAST_ACK"], {"ACK", "FIN"}, <<>>)
                   ELSE IF m.conn.state = "ESTAB"
                   THEN SendAck(Waits(got))
                   ELSE Die(SendAck(got), "CLOSED")
    BY DEF FinIn, Received, Waits
  <1> HIDE DEF got
  <1>5. got.conn.rcv_nxt = SeqAdd(PeerIss, 2 + peer.sent)
    <2>1. SeqAdd(SeqAdd(PeerIss, 1 + peer.sent), 1) = SeqAdd(PeerIss, (1 + peer.sent) + 1)
      <3>1. PeerIss \in Int /\ 1 + peer.sent \in Int /\ 1 \in Int
        BY Asking
      <3>. QED  BY ONLY <3>1, SeqAddTwice
    <2>2. (1 + peer.sent) + 1 = 2 + peer.sent
      BY Asking
    <2>. QED  BY <1>3, <2>1, <2>2
  <1>6. CASE m.conn.state = "ESTAB" /\ m.conn.unacked = {} /\ m.conn.txq = <<>>
    <2> DEFINE n == SendRel([got EXCEPT !.conn.state = "LAST_ACK"], {"ACK", "FIN"}, <<>>)
    <2>1. got.conn.state = "ESTAB" /\ got.conn.unacked = {} /\ got.conn.txq = <<>>
      BY <1>3, <1>6
    <2>2. Serves(n, p, e, base, peer, told) /\ n.up = got.up
      BY <1>3, <1>5, <2>1, FlowFinLast
    <2>3. FinIn(m) = n
      BY <1>4, <1>6
    <2> HIDE DEF n
    <2>. QED  BY <1>3, <2>2, <2>3
  <1>7. CASE m.conn.state = "ESTAB" /\ ~(m.conn.unacked = {} /\ m.conn.txq = <<>>)
    <2> DEFINE wait == Waits(got)
               n == SendAck(wait)
    <2>1. got.conn.state = "ESTAB" /\ (got.conn.unacked # {} \/ got.conn.txq # <<>>)
      BY <1>3, <1>7
    <2>2. Serves(wait, p, e, base, peer, told) /\ wait.up = got.up
      BY <1>3, <1>5, <2>1, FlowFinWait
    <2>3. FinIn(m) = n
      BY <1>4, <1>7
    <2> HIDE DEF wait
    <2>4. Flow(n, p, e, base, peer, told) /\ n.conn = wait.conn /\ n.up = wait.up
      BY <2>2, FlowAcks DEF Serves
    <2> HIDE DEF n
    <2>5. Takes(n.conn, n.up, peer)
      BY <2>2, <2>4 DEF Serves
    <2>. QED  BY <1>3, <2>2, <2>3, <2>4, <2>5 DEF Serves
  <1>8. CASE m.conn.state # "ESTAB"
    <2> DEFINE k == SendAck(got)
    <2>1. Flow(k, p, e, base, peer, told) /\ k.conn = got.conn /\ k.up = got.up
      BY <1>3, FlowAcks
    <2>2. FinIn(m) = Die(k, "CLOSED")
      BY <1>4, <1>8
    <2> HIDE DEF k
    <2>3. k.conn.state \in {"FIN_WAIT_1", "FIN_WAIT_2"} /\ Follows(peer, k.up.said) /\ k.up = m.up
      BY <1>2, <1>3, <1>8, <2>1
    <2>4. peer.got = k.up.said
      <3>1. /\ Flow(k, p, e, base, peer, told) /\ Follows(peer, k.up.said)
            /\ Finishing(k, peer)
        BY <2>1, <2>3 DEF Finishing
      <3>. QED  BY <3>1, FlowRead
    <2>5. Ends(k, Die(k, "CLOSED"), p, e, base, peer, told)
      BY <2>1, <2>4, FlowEnds
    <2>6. Ends(m, Die(k, "CLOSED"), p, e, base, peer, told)
      BY <2>3, <2>5 DEF Ends
    <2>. QED  BY <2>2, <2>6
  <1>. QED  BY <1>6, <1>7, <1>8

\* tcp_input behind the acknowledgement.
Rest(m, s) == IF s.seq = m.conn.rcv_nxt THEN InOrder(m, s) ELSE SendAck(m)

\* What a handler makes of a flow.
Goes(m, n, p, e, base, peer, told) ==
  \/ Ends(m, n, p, e, base, peer, told)
  \/ Serves(n, p, e, base, peer, told) /\ Tells(m.up.said, n.up.said, peer)

\* Payload and FIN, in order or not, keep the flow or end it.
LEMMA FlowRest ==
  ASSUME StreamsApart, NEW p \in Peers, NEW e \in 0 .. MaxEmbryos, NEW base \in SeqNums,
         NEW peer \in Peer, peer.sent <= Len(peer.req), NEW told,
         NEW m, Serves(m, p, e, base, peer, told), m.up.known, Follows(peer, m.up.said),
         NEW s \in RequestSegments, Asked(peer, s)
  PROVE  Goes(m, Rest(m, s), p, e, base, peer, told)
  <1>1. CASE s.seq # m.conn.rcv_nxt
    <2>1. /\ Flow(SendAck(m), p, e, base, peer, told)
          /\ SendAck(m).conn = m.conn /\ SendAck(m).up = m.up
      BY FlowAcks DEF Serves
    <2>2. Takes(SendAck(m).conn, SendAck(m).up, peer)
      BY <2>1 DEF Serves
    <2>3. Rest(m, s) = SendAck(m)
      BY <1>1 DEF Rest
    <2>. QED  BY <2>1, <2>2, <2>3 DEF Serves, Tells, Goes
  <1>2. CASE s.seq = m.conn.rcv_nxt /\ "FIN" \notin s.flags
    <2>1. Rest(m, s) = DataIn(m, s)
      BY <1>2 DEF Rest, InOrder
    <2>2. Serves(DataIn(m, s), p, e, base, peer, told) /\ Tells(m.up.said, DataIn(m, s).up.said, peer)
      BY <1>2, FlowDataIn
    <2>. QED  BY <2>1, <2>2 DEF Goes
  <1>3. CASE s.seq = m.conn.rcv_nxt /\ "FIN" \in s.flags
    <2>1. s.data = <<>> /\ peer.fin /\ s.seq = SeqAdd(PeerIss, 1 + peer.sent)
      BY <1>3 DEF Asked, Opening
    <2>2. Rest(m, s) = FinIn(m)
      BY <1>3, <2>1 DEF Rest, InOrder, DataIn
    <2> DEFINE n == FinIn(m)
    <2>3. m.conn.rcv_nxt = SeqAdd(PeerIss, 1 + peer.sent)
      BY <1>3, <2>1
    <2>4. Ends(m, n, p, e, base, peer, told) \/ (Serves(n, p, e, base, peer, told) /\ n.up = m.up)
      BY <2>1, <2>3, FlowFinIn
    <2> HIDE DEF n
    <2>. QED  BY <2>2, <2>4 DEF Tells, Goes, n
  <1>. QED  BY <1>1, <1>2, <1>3

\* tcp_input on the connection the peer reads.
LEMMA FlowInput ==
  ASSUME StreamsApart, NEW p \in Peers, NEW e \in 0 .. MaxEmbryos, NEW base \in SeqNums,
         NEW peer \in Peer, peer.sent <= Len(peer.req), NEW told,
         NEW m, Serves(m, p, e, base, peer, told), m.up.known, Follows(peer, m.up.said),
         NEW s \in RequestSegments, Asked(peer, s), Acks(peer, base, s)
  PROVE  Goes(m, Input(m, s), p, e, base, peer, told)
  <1>1. CASE "RST" \in s.flags
    <2>1. Ends(m, Die(m, "ERROR"), p, e, base, peer, told)
      <3>1. Flow(m, p, e, base, peer, told) /\ "ERROR" \in {"CLOSED", "ERROR"}
            /\ ("ERROR" = "CLOSED" => peer.got = m.up.said)
        BY DEF Serves
      <3>. QED  BY <3>1, FlowEnds
    <2>. QED  BY <1>1, <2>1 DEF Input, Goes
  <1>2. CASE "RST" \notin s.flags
    <2> DEFINE acked == AckIn(m, s)
    <2>1. \/ Ends(m, acked, p, e, base, peer, told)
          \/ Serves(acked, p, e, base, peer, told) /\ acked.up = m.up
      BY FlowAckIn
    <2>2. Input(m, s) = IF acked.conn.state = "CLOSED" THEN acked ELSE Rest(acked, s)
      BY <1>2 DEF Input, Rest
    <2> HIDE DEF acked
    <2>3. CASE Ends(m, acked, p, e, base, peer, told)
      <3>1. acked.conn.state = "CLOSED"
        BY <2>3 DEF Ends, NoConn, NewConn
      <3>. QED  BY <2>2, <2>3, <3>1 DEF Goes
    <2>4. CASE Serves(acked, p, e, base, peer, told) /\ acked.up = m.up
      <3>1. acked.conn.state # "CLOSED"
        BY <2>4 DEF Serves, Flow, Writes, OpenStates, FinStates
      <3>2. acked.up.known /\ Follows(peer, acked.up.said)
        BY <2>4
      <3>3. Goes(acked, Rest(acked, s), p, e, base, peer, told)
        BY <2>4, <3>2, FlowRest
      <3>4. Goes(m, Rest(acked, s), p, e, base, peer, told)
        BY <2>4, <3>3 DEF Goes, Ends
      <3>. QED  BY <2>2, <3>1, <3>4
    <2>. QED  BY <2>1, <2>3, <2>4
  <1>. QED  BY <1>1, <1>2

-----------------------------------------------------------------------------
(* What a segment does to an embryo.                                         *)

\* A bare acknowledgement.
Bare(f) == f.flags = {"ACK"} /\ f.data = <<>>

\* The acknowledgement of a segment is a bare one.
LEMMA BareAck ==
  ASSUME NEW m \in Machines
  PROVE  /\ SendAck(m) \in Machines /\ SendAck(m).conn = m.conn /\ SendAck(m).up = m.up
         /\ \A f \in SendAck(m).out : f \in m.out \/ Bare(f)
  <1> DEFINE g == Frame(m.conn, {"ACK"}, <<>>)
  <1>1. m.conn \in Conn /\ SendAck(m) \in Machines /\ SendAck(m).conn = m.conn /\ SendAck(m).up = m.up
    BY SendAckOK DEF Machines
  <1>2. Bare(g)
    <2>1. PICK flags \in SUBSET Flags : flags = {"ACK"}
      BY DEF Flags
    <2>2. PICK payload \in Seq(ResponseUnits) : payload = <<>>
      BY EmptySeq
    <2>3. /\ Frame(m.conn, flags, payload).flags = flags
          /\ Frame(m.conn, flags, payload).data = payload
      BY <1>1, FrameType
    <2>. QED  BY <2>1, <2>2, <2>3 DEF Bare
  <1>3. SendAck(m).out = m.out \cup {g}
    BY <1>1 DEF SendAck, Machines
  <1> HIDE DEF g
  <1>. QED  BY <1>1, <1>2, <1>3

\* What an embryo becomes of a segment that does not acknowledge its SYN+ACK.
Strays(m, n, s) ==
  /\ n.up.said = m.up.said
  /\ \A f \in n.out : f \in m.out \/ Bare(f)
  /\ "RST" \in s.flags => n.conn = NoConn
  /\ \/ n.conn = NoConn
     \/ /\ n.conn.state = "SYN_RCVD" /\ n.conn.unacked = m.conn.unacked
        /\ n.conn.snd_nxt = m.conn.snd_nxt
        /\ s.seq # m.conn.rcv_nxt => n.conn = m.conn

\* A connection that dies has said what it said, and sends nothing more.
LEMMA Died ==
  ASSUME NEW m \in Machines, NEW ev \in {"CLOSED", "ERROR"}
  PROVE  /\ Die(m, ev) \in Machines /\ Die(m, ev).conn = NoConn
         /\ Die(m, ev).up.said = m.up.said /\ Die(m, ev).out = m.out
         /\ Die(m, ev).up.ended = ev /\ ~Die(m, ev).up.known
  <1>1. Die(m, ev) \in Machines /\ Die(m, ev).conn = NoConn
    BY DieOK DEF MachineOK
  <1>. QED  BY <1>1 DEF Die, Ended, HsrvEnded, Machines, Hsrv

\* A segment that does not acknowledge an embryo's SYN opens nothing: the embryo
\* stays one, or dies.
LEMMA StrayInput ==
  ASSUME NEW m \in Machines, m.conn.state = "SYN_RCVD", ~m.up.known,
         NEW s \in RequestSegments, "ACK" \in s.flags => s.ack # m.conn.snd_nxt
  PROVE  Strays(m, Input(m, s), s)
  <1>1. CASE "RST" \in s.flags
    <2>1. Input(m, s) = Die(m, "ERROR") /\ "ERROR" \in {"CLOSED", "ERROR"}
      BY <1>1 DEF Input
    <2>. QED  BY <2>1, Died DEF Strays
  <1>2. CASE "RST" \notin s.flags /\ s.seq # m.conn.rcv_nxt
    <2>1. Input(m, s) = SendAck(m)
      BY <1>2 DEF Input, AckIn
    <2>. QED  BY <1>2, <2>1, BareAck DEF Strays
  <1>3. CASE "RST" \notin s.flags /\ s.seq = m.conn.rcv_nxt
    <2> DEFINE fed == DataIn(m, s)
    <2>1. Input(m, s) = IF "FIN" \in s.flags THEN FinIn(fed) ELSE fed
      BY <1>3 DEF Input, AckIn, InOrder
    <2>2. /\ fed \in Machines /\ fed.up = m.up /\ fed.conn.state = "SYN_RCVD"
          /\ fed.conn.unacked = m.conn.unacked /\ fed.conn.snd_nxt = m.conn.snd_nxt
          /\ \A f \in fed.out : f \in m.out \/ Bare(f)
      <3>1. CASE s.data = <<>>
        BY <3>1 DEF DataIn
      <3>2. CASE s.data # <<>>
        <4> DEFINE r == SeqAdd(m.conn.rcv_nxt, Len(s.data))
                   got == [m EXCEPT !.conn.rcv_nxt = r]
                   ack == SendAck(got)
        <4>1. r \in SeqNums
          <5>1. m.conn.rcv_nxt \in Int /\ Len(s.data) \in Int
            BY LenProperties DEF Machines, Conn, SeqNums, RequestSegments, Segments
          <5>. QED  BY <5>1, SeqAddType
        <4>2. [m EXCEPT !.conn.rcv_nxt = SeqAdd(@, Len(s.data))] = got
          BY DEF Machines, Conn
        <4> HIDE DEF r
        <4>3. /\ got \in Machines /\ got.up = m.up /\ got.conn.state = "SYN_RCVD" /\ got.out = m.out
              /\ got.conn.unacked = m.conn.unacked /\ got.conn.snd_nxt = m.conn.snd_nxt
          BY <4>1 DEF Machines, Conn
        <4>4. fed = HsrvData(ack, s.data)
          BY <3>2, <4>2 DEF DataIn, Data
        <4> HIDE DEF got
        <4>5. /\ ack \in Machines /\ ack.conn = got.conn /\ ack.up = got.up
              /\ \A f \in ack.out : f \in got.out \/ Bare(f)
          BY <4>3, BareAck
        <4> HIDE DEF ack
        <4>6. fed = ack
          BY <4>3, <4>4, <4>5 DEF HsrvData
        <4> HIDE DEF fed
        <4>. QED  BY <4>3, <4>5, <4>6
      <3>. QED  BY <3>1, <3>2
    <2> HIDE DEF fed
    <2>3. CASE "FIN" \notin s.flags
      BY <1>3, <2>1, <2>2, <2>3 DEF Strays
    <2>4. CASE "FIN" \in s.flags
      <3> DEFINE r == SeqAdd(fed.conn.rcv_nxt, 1)
                 got == [fed EXCEPT !.conn.rcv_nxt = r]
                 ack == SendAck(got)
      <3>1. r \in SeqNums
        <4>1. fed.conn.rcv_nxt \in Int
          BY <2>2 DEF Machines, Conn, SeqNums
        <4>. QED  BY <4>1, SeqAddType
      <3>2. FinIn(fed) = Die(ack, "CLOSED")
        BY <2>2 DEF FinIn, Machines, Conn
      <3> HIDE DEF r
      <3>3. got \in Machines /\ got.up = m.up /\ got.out = fed.out
        BY <2>2, <3>1 DEF Machines, Conn
      <3> HIDE DEF got
      <3>4. /\ ack \in Machines /\ ack.up = got.up /\ \A f \in ack.out : f \in got.out \/ Bare(f)
        BY <3>3, BareAck
      <3> HIDE DEF ack
      <3>5. /\ Die(ack, "CLOSED").conn = NoConn /\ Die(ack, "CLOSED").up.said = ack.up.said
            /\ Die(ack, "CLOSED").out = ack.out
        <4>1. "CLOSED" \in {"CLOSED", "ERROR"}
          OBVIOUS
        <4>. QED  BY <3>4, <4>1, Died
      <3>. QED  BY <1>3, <2>1, <2>2, <2>4, <3>2, <3>3, <3>4, <3>5 DEF Strays
    <2>. QED  BY <2>3, <2>4
  <1>. QED  BY <1>1, <1>2, <1>3

\* The acknowledgement of the SYN+ACK begins a flow of which nothing is written.
LEMMA EmbryoAcked ==
  ASSUME StreamsApart, NEW p \in Peers, NEW e \in 0 .. MaxEmbryos, NEW base \in SeqNums,
         NEW peer \in Peer, peer.sent <= Len(peer.req), NEW told,
         NEW m \in Machines, Shape(m.conn), Embryo(m.conn, base), m.up.said = <<>>, Heard(peer) = 0,
         \A s \in told \cup m.out : Told(p, e, base, <<>>, 0, s),
         NEW s \in RequestSegments, "ACK" \in s.flags, Acks(peer, base, s)
  PROVE  /\ Serves(AckIn(m, s), p, e, base, peer, told)
         /\ AckIn(m, s).up.known /\ AckIn(m, s).up.said = <<>>
  <1> DEFINE n == AckIn(m, s)
  <1>1. m.conn \in Conn /\ m.up \in Hsrv
    BY DEF Machines
  <1>2. s.ack = m.conn.snd_nxt
    <2>1. PICK j \in 0 .. 0 : s.ack = SeqAdd(base, 1 + j)
      BY DEF Acks
    <2>2. 1 + j = 1
      OBVIOUS
    <2>. QED  BY <2>1, <2>2 DEF Embryo
  <1>3. n = Connected([[m EXCEPT !.conn.unacked = {}] EXCEPT !.conn.state = "ESTAB"])
    BY <1>2 DEF AckIn, Embryo
  <1> DEFINE k == [[m EXCEPT !.conn.unacked = {}] EXCEPT !.conn.state = "ESTAB"]
  <1>4. /\ k \in Machines /\ k.up = m.up /\ k.out = m.out /\ k.conn.state = "ESTAB"
        /\ k.conn.unacked = {} /\ k.conn.txq = m.conn.txq /\ k.conn.snd_nxt = m.conn.snd_nxt
        /\ k.conn.rcv_nxt = m.conn.rcv_nxt /\ k.conn.close_after = m.conn.close_after
    BY <1>1 DEF Machines, Conn, TcpStates, OpenStates
  <1> HIDE DEF k
  <1>5. /\ n \in Machines /\ n.conn = k.conn /\ n.out = k.out
        /\ n.up.known /\ ~n.up.done /\ n.up.buf = <<>> /\ n.up.said = <<>>
    <2>1. n = [k EXCEPT !.up.known = TRUE, !.up.buf = <<>>, !.up.done = FALSE]
      BY <1>3 DEF Connected, HsrvConnected, k
    <2> HIDE DEF n
    <2>2. k.up \in Hsrv /\ <<>> \in Seq(RequestUnits)
      BY <1>4, EmptySeq DEF Machines
    <2>. QED  BY <1>4, <2>1, <2>2 DEF Machines, Hsrv
  <1> HIDE DEF n
  <1>6. n.conn.txq = <<>> /\ ~n.conn.close_after
    <2>1. m.conn.txq = <<>> /\ ~m.conn.close_after
      BY DEF Embryo, Shape
    <2>. QED  BY <1>4, <1>5, <2>1
  <1>7. Len(n.up.said) = 0 /\ Len(n.conn.txq) = 0
    BY <1>5, <1>6, EmptySeq
  <1>8. Sent(n.conn, n.up) = 0
    BY <1>4, <1>5, <1>7 DEF Sent, FinStates
  <1>9. n.conn.snd_nxt = SeqAdd(base, 1 + 0)
    BY <1>4, <1>5 DEF Embryo
  <1>10. Shape(n.conn)
    BY <1>4, <1>5, <1>6 DEF Shape, ActiveStates, FinStates
  <1>11. Writes(n.conn, n.up, peer, base)
    BY <1>4, <1>5, <1>6, <1>7, <1>8, <1>9 DEF Writes, OpenStates
  <1>12. Flow(n, p, e, base, peer, told)
    BY <1>4, <1>5, <1>8, <1>10, <1>11 DEF Flow
  <1>13. Takes(n.conn, n.up, peer)
    <2>1. 0 \in 0 .. peer.sent /\ 1 + 0 = 1
      BY Asking
    <2>2. n.conn.rcv_nxt = SeqAdd(PeerIss, 1 + 0)
      BY <1>4, <1>5, <2>1 DEF Embryo
    <2>3. SubSeq(peer.req, 1, 0) = <<>>
      BY SubSeqEmpty
    <2>. QED  BY <1>4, <1>5, <2>1, <2>2, <2>3 DEF Takes
  <1>. QED  BY <1>5, <1>12, <1>13 DEF Serves, n

\* What reaches the embryo the peer has heard of: the rest of the handshake, or
\* what the peer sent before it.
LEMMA EmbryoInput ==
  ASSUME StreamsApart, NEW p \in Peers, NEW e \in 0 .. MaxEmbryos, NEW base \in SeqNums,
         NEW peer \in Peer, peer.sent <= Len(peer.req), NEW told,
         NEW m \in Machines, Shape(m.conn), ~m.up.known, Embryo(m.conn, base), m.up.said = <<>>,
         Heard(peer) = 0, Follows(peer, <<>>),
         \A s \in told \cup m.out : Told(p, e, base, <<>>, 0, s),
         NEW s \in RequestSegments, Asked(peer, s), Acks(peer, base, s)
  PROVE  \/ Goes(m, Input(m, s), p, e, base, peer, told)
         \/ Strays(m, Input(m, s), s) /\ Opening(s)
  <1>1. CASE "ACK" \notin s.flags
    <2>1. Opening(s)
      BY <1>1 DEF Asked
    <2>2. m.conn.state = "SYN_RCVD"
      BY DEF Embryo
    <2>. QED  BY <1>1, <2>1, <2>2, StrayInput
  <1>2. CASE "ACK" \in s.flags
    <2> DEFINE a == AckIn(m, s)
    <2>1. Serves(a, p, e, base, peer, told) /\ a.up.known /\ a.up.said = <<>>
      BY <1>2, EmbryoAcked, SMTT(40)
    <2>2. "RST" \notin s.flags
      BY <1>2 DEF Asked, Opening
    <2>3. Input(m, s) = IF a.conn.state = "CLOSED" THEN a ELSE Rest(a, s)
      BY <2>2 DEF Input, Rest
    <2> HIDE DEF a
    <2>4. a.conn.state # "CLOSED"
      BY <2>1 DEF Serves, Flow, Writes, OpenStates, FinStates
    <2>5. Follows(peer, a.up.said)
      BY <2>1
    <2>6. Goes(a, Rest(a, s), p, e, base, peer, told)
      BY <2>1, <2>5, FlowRest
    <2>7. Goes(m, Rest(a, s), p, e, base, peer, told)
      BY <2>1, <2>6 DEF Goes, Ends
    <2>. QED  BY <2>3, <2>4, <2>7
  <1>. QED  BY <1>1, <1>2

-----------------------------------------------------------------------------
(* A segment reaches the rabbit.                                             *)

\* The history of one step of the server's: it answers once, a peer that has not
\* read the end; and in an orderly end the peer has read everything.
Speaks(u, v, peer) == v.said = u.said \/ (u.said = <<>> /\ ~peer.eof /\ v.said \in Texts)
Orderly(u, v, peer) == u.known /\ ~v.known /\ v.ended = "CLOSED" => peer.got = u.said

Keeps(m, n, p, e, peer, asked, told) ==
  /\ Talk(p, n.conn, n.up, peer, asked, told \cup n.out, e)
  /\ Speaks(m.up, n.up, peer) /\ Orderly(m.up, n.up, peer)

\* A peer that has read nothing of what was said follows whatever is.
LEMMA FollowsTold ==
  ASSUME NEW peer \in Peer, NEW said, NEW more, Follows(peer, said), Tells(said, more, peer),
         more \in Seq(ResponseUnits)
  PROVE  Follows(peer, more) /\ (more = said \/ (said = <<>> /\ ~peer.eof /\ more \in Texts))
  <1>1. CASE more = said
    BY <1>1
  <1>2. CASE more # said
    <2>1. said = <<>> /\ Heard(peer) = 0 /\ more \in Texts
      BY <1>2 DEF Tells
    <2>2. peer.got \in Seq(ResponseUnits) /\ Len(peer.got) \in Nat /\ Len(more) \in Nat
      BY LenProperties DEF Peer
    <2>3. ~peer.eof
      <3>1. SUFFICES ASSUME peer.eof PROVE FALSE
        OBVIOUS
      <3>2. Heard(peer) = Len(peer.got) + 1
        BY <3>1 DEF Heard
      <3>. QED  BY <2>1, <2>2, <3>2
    <2>4. Len(peer.got) = 0
      <3>1. Heard(peer) = Len(peer.got) + 0
        BY <2>3 DEF Heard
      <3>. QED  BY <2>1, <2>2, <3>1
    <2>5. peer.got = <<>> /\ SubSeq(more, 1, 0) = <<>>
      BY <2>2, <2>4, EmptySeq, SubSeqEmpty
    <2>. QED  BY <2>1, <2>2, <2>3, <2>4, <2>5 DEF Follows
  <1>. QED  BY <1>1, <1>2

\* The peer and what it has sent, apart from what the rabbit does.
Reader(p, peer, asked, k) ==
  /\ peer.state \in {"open", "over"} /\ peer.sent <= Len(peer.req)
  /\ peer.rcv = SeqAdd(Iss(p, k), 1 + Heard(peer))
  /\ \A s \in asked : Asked(peer, s) /\ Acks(peer, Iss(p, k), s)

\* A bare acknowledgement is always told.
LEMMA BareTold == ASSUME NEW p, NEW e, NEW base, NEW said, NEW top, NEW f, Bare(f)
                  PROVE  Told(p, e, base, said, top, f)
  BY DEF Bare, Told

\* A flow goes on, or it ends.
LEMMA GoesTalk ==
  ASSUME StreamsApart, NEW p \in Peers, NEW e \in 0 .. MaxEmbryos, NEW k \in 0 .. e - 1, k = e - 1,
         NEW peer \in Peer, NEW asked, NEW told, Reader(p, peer, asked, k),
         NEW m, MachineOK(m), m.up.said \in {<<>>} \cup Texts, Follows(peer, m.up.said),
         NEW n, MachineOK(n), Goes(m, n, p, e, Iss(p, k), peer, told)
  PROVE  Keeps(m, n, p, e, peer, asked, told)
  <1>1. CASE Ends(m, n, p, e, Iss(p, k), peer, told)
    <2>1. n.conn.state = "CLOSED" /\ n.conn.unacked = {}
      BY <1>1 DEF Ends, NoConn, NewConn
    <2>2. Past(p, n.conn, n.up, told \cup n.out, e, k)
      BY <1>1, <2>1 DEF Ends, Past
    <2>3. Reads(p, n.conn, n.up, peer, asked, told \cup n.out, e, k)
      BY <1>1, <2>2 DEF Reader, Reads, Ends
    <2>4. Talk(p, n.conn, n.up, peer, asked, told \cup n.out, e)
      BY <1>1, <2>1, <2>3 DEF Talk, Ends, Reader
    <2>5. Speaks(m.up, n.up, peer) /\ Orderly(m.up, n.up, peer)
      BY <1>1 DEF Ends, Speaks, Orderly
    <2>. QED  BY <2>4, <2>5 DEF Keeps
  <1>2. CASE Serves(n, p, e, Iss(p, k), peer, told) /\ Tells(m.up.said, n.up.said, peer)
    <2>1. Flow(n, p, e, Iss(p, k), peer, told) /\ Takes(n.conn, n.up, peer)
      BY <1>2 DEF Serves
    <2>2. n.up.said \in {<<>>} \cup Texts /\ n.up.said \in Seq(ResponseUnits)
      BY <2>1 DEF Flow, Machines, Hsrv
    <2>3. Follows(peer, n.up.said) /\ Speaks(m.up, n.up, peer)
      BY <1>2, <2>2, FollowsTold DEF Speaks
    <2>4. Present(p, n.conn, n.up, peer, told \cup n.out, e, k)
      BY <2>1 DEF Flow, Present
    <2>5. Reads(p, n.conn, n.up, peer, asked, told \cup n.out, e, k)
      BY <2>3, <2>4 DEF Reader, Reads
    <2>6. Talk(p, n.conn, n.up, peer, asked, told \cup n.out, e)
      BY <2>1, <2>2, <2>5 DEF Talk, Reader, Flow
    <2>7. n.up.known
      BY <2>1 DEF MachineOK, Tied, Flow, Writes
    <2>8. Orderly(m.up, n.up, peer)
      BY <2>7 DEF Orderly
    <2>. QED  BY <2>3, <2>6, <2>8 DEF Keeps
  <1>. QED  BY <1>1, <1>2 DEF Goes

\* An opening segment ends an embryo or leaves it.
LEMMA StraysOpening ==
  ASSUME NEW m, NEW n, NEW s, NEW base, Strays(m, n, s), Opening(s), Embryo(m.conn, base)
  PROVE  n.conn = NoConn \/ n.conn = m.conn
  <1>1. CASE s.flags = {"RST"}
    BY <1>1 DEF Strays
  <1>2. CASE s.seq = PeerIss
    <2>1. PeerIss \in Int /\ PeerIss \in SeqNums /\ SeqMod \in Nat /\ SeqMod > 1
      BY ServerAssumption, TcpAssumption DEF SeqNums
    <2>2. SeqAdd(PeerIss, 0) = PeerIss
      <3>1. PeerIss + 0 = PeerIss /\ 0 <= PeerIss /\ PeerIss < SeqMod
        BY <2>1 DEF SeqNums
      <3>. QED  BY <2>1, <3>1 DEF SeqAdd
    <2>3. SeqAdd(PeerIss, 0) # SeqAdd(PeerIss, 1)
      <3>1. 0 \in Int /\ 1 \in Int /\ 0 < 1 /\ 1 < 0 + SeqMod
        BY <2>1
      <3>. QED  BY <2>1, <3>1, SeqAddApart
    <2>4. s.seq # m.conn.rcv_nxt
      BY <1>2, <2>2, <2>3 DEF Embryo
    <2>. QED  BY <2>4 DEF Strays
  <1>. QED  BY <1>1, <1>2 DEF Opening

\* Nobody knows an embryo but its own connection.
LEMMA Unknown == ASSUME NEW m, MachineOK(m), m.conn.state \in {"CLOSED", "SYN_RCVD"} PROVE ~m.up.known
  BY DEF MachineOK, Tied, OpenStates, FinStates

\* No record, in the terms of the table.
LEMMA NoConnIs == NoConn.state = "CLOSED" /\ NoConn.unacked = {}
  BY DEF NoConn, NewConn

\* Before the peer has heard of a connection.
LEMMA UnheardInput ==
  ASSUME NEW p \in Peers, NEW e \in 0 .. MaxEmbryos, NEW peer \in Peer,
         NEW asked \in SUBSET RequestSegments, NEW told, NEW m, MachineOK(m), m.out = {},
         m.conn.state # "CLOSED", Talk(p, m.conn, m.up, peer, asked, told, e),
         Unheard(p, m.conn, m.up, peer, asked, told, e), NEW s \in asked
  PROVE  Keeps(m, Input(m, s), p, e, peer, asked, told)
  <1> DEFINE n == Input(m, s)
  <1>1. e > 0 /\ Embryo(m.conn, Iss(p, e - 1)) /\ Opening(s) /\ m \in Machines
    BY DEF Unheard, MachineOK
  <1>2. m.conn.state = "SYN_RCVD" /\ ~m.up.known
    BY <1>1, Unknown DEF Embryo
  <1>3. "ACK" \notin s.flags /\ s \in RequestSegments
    BY <1>1 DEF Opening
  <1>4. Strays(m, n, s)
    BY <1>1, <1>2, <1>3, StrayInput
  <1> HIDE DEF n
  <1>5. n.conn = NoConn \/ n.conn = m.conn
    BY <1>1, <1>4, StraysOpening
  <1>6. n.conn.state = "CLOSED" \/ (e > 0 /\ Embryo(n.conn, Iss(p, e - 1)))
    BY <1>1, <1>5, NoConnIs
  <1>7. n.up.said = m.up.said /\ \A f \in n.out : Told(p, e, 0, <<>>, 0, f)
    BY <1>4, BareTold DEF Strays
  <1>8. Unheard(p, n.conn, n.up, peer, asked, told \cup n.out, e)
    BY <1>6, <1>7 DEF Unheard
  <1>9. n.conn.unacked \subseteq told \cup n.out
    BY <1>5, NoConnIs DEF Talk
  <1>10. Talk(p, n.conn, n.up, peer, asked, told \cup n.out, e)
    BY <1>7, <1>8, <1>9 DEF Talk
  <1>. QED  BY <1>2, <1>7, <1>10 DEF Keeps, Speaks, Orderly, n

\* The acknowledgements of one stream are none of an embryo's that came after.
LEMMA PastAcks ==
  ASSUME StreamsApart, NEW p \in Peers, NEW e \in 0 .. MaxEmbryos, NEW k \in 0 .. e - 2,
         NEW peer \in Peer, NEW said \in {<<>>} \cup Texts, Follows(peer, said),
         NEW s, "ACK" \in s.flags, Acks(peer, Iss(p, k), s)
  PROVE  s.ack # SeqAdd(Iss(p, e - 1), 1)
  <1> DEFINE L == Len(said)
             H == Heard(peer)
  <1>1. e - 1 \in 0 .. e - 1 /\ k \in 0 .. e - 1 /\ k # e - 1
    BY ServerAssumption
  <1>2. /\ L \in Nat
        /\ Iss(p, e - 1) \in SeqNums /\ Iss(p, k) \in SeqNums
        /\ \A j \in 0 .. L + 2 : Iss(p, e - 1) # SeqAdd(Iss(p, k), j)
    BY <1>1, Streams
  <1>3. H \in Nat /\ H <= L + 1
    <2>1. Len(peer.got) \in Nat /\ Len(peer.got) <= L
      BY LenProperties DEF Peer, Follows
    <2>2. H = Len(peer.got) + 1 \/ H = Len(peer.got) + 0
      BY DEF Heard
    <2>. QED  BY <1>2, <2>1, <2>2
  <1>4. PICK j \in 0 .. H : s.ack = SeqAdd(Iss(p, k), 1 + j)
    BY DEF Acks
  <1> HIDE DEF L, H
  <1>5. j \in 0 .. L + 2 /\ j \in Int
    BY <1>2, <1>3, <1>4
  <1>6. Iss(p, e - 1) # SeqAdd(Iss(p, k), j)
    BY <1>2, <1>5
  <1>7. Iss(p, k) \in Int
    BY <1>2 DEF SeqNums
  <1>. QED  BY <1>2, <1>4, <1>5, <1>6, <1>7, SeqCancel

\* After the connection whose stream the peer read.
LEMMA PastInput ==
  ASSUME StreamsApart, NEW p \in Peers, NEW e \in 0 .. MaxEmbryos, NEW k \in 0 .. e - 1,
         NEW peer \in Peer, NEW asked \in SUBSET RequestSegments, NEW told,
         Reader(p, peer, asked, k), NEW m, MachineOK(m), m.out = {},
         m.up.said \in {<<>>} \cup Texts, Follows(peer, m.up.said), m.conn.state # "CLOSED",
         Past(p, m.conn, m.up, told, e, k), m.conn.unacked \subseteq told, NEW s \in asked
  PROVE  Keeps(m, Input(m, s), p, e, peer, asked, told)
  <1> DEFINE n == Input(m, s)
  <1>1. /\ m.conn.state = "SYN_RCVD" /\ k < e - 1 /\ m.conn.unacked # {}
        /\ m.conn.snd_nxt = SeqAdd(Iss(p, e - 1), 1) /\ m \in Machines
    BY DEF Past, MachineOK
  <1>2. ~m.up.known /\ s \in RequestSegments
    BY <1>1, Unknown
  <1>3. k \in 0 .. e - 2
    BY <1>1, ServerAssumption
  <1>4. "ACK" \in s.flags => s.ack # m.conn.snd_nxt
    BY <1>1, <1>3, PastAcks DEF Reader
  <1>5. Strays(m, n, s)
    BY <1>1, <1>2, <1>4, StrayInput
  <1> HIDE DEF n
  <1>6. n.up.said = m.up.said /\ \A f \in n.out : Told(p, e, Iss(p, k), n.up.said, Len(n.up.said) + 1, f)
    BY <1>5, BareTold DEF Strays
  <1>7. n.conn = NoConn \/ /\ n.conn.state = "SYN_RCVD" /\ n.conn.unacked = m.conn.unacked
                           /\ n.conn.snd_nxt = m.conn.snd_nxt
    BY <1>5 DEF Strays
  <1>8. Past(p, n.conn, n.up, told \cup n.out, e, k)
    BY <1>1, <1>6, <1>7, NoConnIs DEF Past
  <1>9. Reads(p, n.conn, n.up, peer, asked, told \cup n.out, e, k)
    BY <1>6, <1>8 DEF Reads, Reader
  <1>10. n.conn.unacked \subseteq told \cup n.out
    BY <1>7, NoConnIs
  <1>11. Talk(p, n.conn, n.up, peer, asked, told \cup n.out, e)
    BY <1>6, <1>9, <1>10 DEF Talk, Reader
  <1>. QED  BY <1>2, <1>6, <1>11 DEF Keeps, Speaks, Orderly, n

\* On the connection the peer reads.
LEMMA PresentInput ==
  ASSUME StreamsApart, NEW p \in Peers, NEW e \in 0 .. MaxEmbryos, NEW k \in 0 .. e - 1,
         NEW peer \in Peer, NEW asked \in SUBSET RequestSegments, NEW told,
         Reader(p, peer, asked, k), NEW m, MachineOK(m), m.out = {},
         m.up.said \in {<<>>} \cup Texts, Follows(peer, m.up.said), m.conn.state # "CLOSED",
         Present(p, m.conn, m.up, peer, told, e, k), m.conn.unacked \subseteq told, NEW s \in asked
  PROVE  Keeps(m, Input(m, s), p, e, peer, asked, told)
  <1> DEFINE n == Input(m, s)
             base == Iss(p, k)
  <1>1. base \in SeqNums /\ k = e - 1
    BY Streams DEF Present
  <1>2. s \in RequestSegments /\ MachineOK(n)
    BY InputOK
  <1>3. Asked(peer, s) /\ Acks(peer, base, s) /\ peer.sent <= Len(peer.req)
    BY DEF Reader
  <1>4. m \in Machines /\ Shape(m.conn)
    BY DEF MachineOK
  <1>5. \A f \in told \cup m.out : Told(p, e, base, m.up.said, Sent(m.conn, m.up), f)
    BY DEF Present
  <1>6. CASE Writes(m.conn, m.up, peer, base) /\ Takes(m.conn, m.up, peer)
    <2>1. Serves(m, p, e, base, peer, told)
      <3>1. m.conn.unacked \subseteq told \cup m.out
        OBVIOUS
      <3>. QED  BY <1>4, <1>5, <1>6, <3>1 DEF Serves, Flow
    <2>2. m.up.known
      BY <1>6 DEF MachineOK, Tied, Writes
    <2> HIDE DEF base
    <2>3. Goes(m, Input(m, s), p, e, base, peer, told)
      BY <1>1, <1>2, <1>3, <2>1, <2>2, FlowInput
    <2> HIDE DEF n
    <2>4. Goes(m, n, p, e, Iss(p, k), peer, told)
      BY <2>3 DEF n, base
    <2>5. Keeps(m, n, p, e, peer, asked, told)
      BY <1>1, <1>2, <2>4, GoesTalk
    <2>. QED  BY <2>5 DEF n
  <1>7. CASE Embryo(m.conn, base) /\ m.up.said = <<>> /\ Heard(peer) = 0
    <2>1. ~m.up.known
      BY <1>7, Unknown DEF Embryo
    <2>2. Sent(m.conn, m.up) = 0
      <3>1. m.conn.txq = <<>> /\ m.conn.state \notin FinStates
        BY <1>4, <1>7 DEF Shape, Embryo, FinStates
      <3>2. Len(m.up.said) = 0 /\ Len(m.conn.txq) = 0
        BY <1>7, <3>1, EmptySeq
      <3>. QED  BY <3>1, <3>2 DEF Sent
    <2>3. \A f \in told \cup m.out : Told(p, e, base, <<>>, 0, f)
      BY <1>5, <1>7, <2>2
    <2>4. Follows(peer, <<>>)
      BY <1>7
    <2> HIDE DEF base
    <2>5. \/ Goes(m, Input(m, s), p, e, base, peer, told)
          \/ Strays(m, Input(m, s), s) /\ Opening(s)
      BY <1>1, <1>2, <1>3, <1>4, <1>7, <2>1, <2>3, <2>4, EmbryoInput
    <2> HIDE DEF n
    <2>6. CASE Goes(m, n, p, e, Iss(p, k), peer, told)
      <3>1. Keeps(m, n, p, e, peer, asked, told)
        BY <1>1, <1>2, <2>6, GoesTalk
      <3>. QED  BY <3>1 DEF n
    <2>7. CASE Strays(m, n, s) /\ Opening(s)
      <3>1. n.conn = NoConn \/ n.conn = m.conn
        BY <1>7, <2>7, StraysOpening
      <3>2. n.up.said = <<>> /\ \A f \in n.out : f \in m.out \/ Bare(f)
        BY <1>7, <2>7 DEF Strays
      <3>3. ASSUME n.conn = NoConn PROVE Past(p, n.conn, n.up, told \cup n.out, e, k)
        <4>1. Len(n.up.said) + 1 = 1
          BY <3>2, EmptySeq
        <4>2. \A f \in told : Told(p, e, Iss(p, k), n.up.said, 1, f)
          <5>1. 0 \in Int /\ 1 \in Int /\ 0 <= 1
            OBVIOUS
          <5>. QED  BY <2>3, <3>2, <5>1, ToldMore DEF base
        <4>3. \A f \in n.out : Told(p, e, Iss(p, k), n.up.said, 1, f)
          BY <3>2, BareTold
        <4>. QED  BY <3>3, <4>1, <4>2, <4>3, NoConnIs DEF Past
      <3>4. ASSUME n.conn = m.conn PROVE Present(p, n.conn, n.up, peer, told \cup n.out, e, k)
        <4>1. Sent(n.conn, n.up) = 0
          BY <1>7, <2>2, <3>2, <3>4 DEF Sent
        <4>2. \A f \in told \cup n.out : Told(p, e, Iss(p, k), n.up.said, 0, f)
          BY <2>3, <3>2, BareTold DEF base
        <4>. QED  BY <1>1, <1>7, <3>2, <3>4, <4>1, <4>2 DEF Present, base
      <3>5. Reads(p, n.conn, n.up, peer, asked, told \cup n.out, e, k)
        BY <1>7, <3>1, <3>2, <3>3, <3>4 DEF Reads, Reader
      <3>6. n.conn.unacked \subseteq told \cup n.out
        BY <3>1, NoConnIs
      <3>7. Talk(p, n.conn, n.up, peer, asked, told \cup n.out, e)
        BY <3>2, <3>5, <3>6 DEF Talk, Reader
      <3>. QED  BY <1>7, <2>1, <3>2, <3>7 DEF Keeps, Speaks, Orderly, n
    <2>. QED  BY <2>5, <2>6, <2>7 DEF n, base
  <1>. QED  BY <1>6, <1>7 DEF Present

\* tcp_input keeps what is between a peer and the rabbit.
LEMMA TalkInput ==
  ASSUME StreamsApart, NEW p \in Peers, NEW e \in 0 .. MaxEmbryos, NEW peer \in Peer,
         NEW asked \in SUBSET RequestSegments, NEW told, NEW m, MachineOK(m), m.out = {},
         m.conn.state # "CLOSED", Talk(p, m.conn, m.up, peer, asked, told, e), NEW s \in asked
  PROVE  Keeps(m, Input(m, s), p, e, peer, asked, told)
  <1>1. CASE Unheard(p, m.conn, m.up, peer, asked, told, e)
    BY <1>1, UnheardInput
  <1>2. ASSUME NEW k \in 0 .. e - 1, Reads(p, m.conn, m.up, peer, asked, told, e, k)
        PROVE  Keeps(m, Input(m, s), p, e, peer, asked, told)
    <2>1. Reader(p, peer, asked, k) /\ Follows(peer, m.up.said)
      BY <1>2 DEF Reader, Reads, Talk
    <2>2. m.up.said \in {<<>>} \cup Texts /\ m.conn.unacked \subseteq told
      BY DEF Talk
    <2>3. CASE Past(p, m.conn, m.up, told, e, k)
      BY <2>1, <2>2, <2>3, PastInput
    <2>4. CASE Present(p, m.conn, m.up, peer, told, e, k)
      BY <2>1, <2>2, <2>4, PresentInput
    <2>. QED  BY <1>2, <2>3, <2>4 DEF Reads
  <1>. QED  BY <1>1, <1>2 DEF Talk

-----------------------------------------------------------------------------
(* The timer, and a new connection.                                          *)

\* No more was sent than was said, and our FIN.
LEMMA SentMost ==
  ASSUME NEW m \in Machines, m.up.said \in Seq(ResponseUnits)
  PROVE  /\ Sent(m.conn, m.up) \in Int /\ Len(m.up.said) + 1 \in Int
         /\ Sent(m.conn, m.up) <= Len(m.up.said) + 1
  <1> DEFINE a == Len(m.up.said)
             b == Len(m.conn.txq)
             x == Sent(m.conn, m.up)
  <1>1. a \in Nat /\ b \in Nat
    BY LenProperties DEF Machines, Conn
  <1>2. x = a - b + 1 \/ x = a - b
    <2>1. /\ m.conn.state \in FinStates => Sent(m.conn, m.up) = a - b + 1
          /\ m.conn.state \notin FinStates => Sent(m.conn, m.up) = a - b
      BY <1>1, SentIs
    <2>. QED  BY <2>1
  <1> HIDE DEF a, b, x
  <1>3. x \in Int /\ a + 1 \in Int /\ x <= a + 1
    BY <1>1, <1>2
  <1>. QED  BY <1>3 DEF a, x

\* A connection dies of an error, whoever reads its stream.
LEMMA TalkError ==
  ASSUME StreamsApart, NEW p \in Peers, NEW e \in 0 .. MaxEmbryos, NEW peer \in Peer, NEW asked,
         NEW told, NEW m \in Machines, m.out = {}, Talk(p, m.conn, m.up, peer, asked, told, e)
  PROVE  Keeps(m, Die(m, "ERROR"), p, e, peer, asked, told)
  <1> DEFINE n == Die(m, "ERROR")
  <1>1. n.conn = NoConn /\ n.up.said = m.up.said /\ n.out = {} /\ n.up.ended = "ERROR"
    <2>1. "ERROR" \in {"CLOSED", "ERROR"}
      OBVIOUS
    <2>. QED  BY <2>1, Died
  <1> HIDE DEF n
  <1>2. Speaks(m.up, n.up, peer) /\ Orderly(m.up, n.up, peer)
    BY <1>1 DEF Speaks, Orderly
  <1>3. told \cup n.out = told /\ n.conn.unacked \subseteq told /\ n.conn.state = "CLOSED"
    BY <1>1, NoConnIs
  <1>4. CASE Unheard(p, m.conn, m.up, peer, asked, told, e)
    <2>1. Unheard(p, n.conn, n.up, peer, asked, told, e)
      BY <1>1, <1>3, <1>4 DEF Unheard
    <2>. QED  BY <1>1, <1>2, <1>3, <2>1 DEF Talk, Keeps, n
  <1>5. ASSUME NEW k \in 0 .. e - 1, Reads(p, m.conn, m.up, peer, asked, told, e, k)
        PROVE  Keeps(m, Die(m, "ERROR"), p, e, peer, asked, told)
    <2>1. \A s \in told : Told(p, e, Iss(p, k), m.up.said, Len(m.up.said) + 1, s)
      <3>1. CASE Past(p, m.conn, m.up, told, e, k)
        BY <3>1 DEF Past
      <3>2. CASE Present(p, m.conn, m.up, peer, told, e, k)
        <4>1. m.up.said \in Seq(ResponseUnits)
          BY DEF Machines, Hsrv
        <4>. QED  BY <3>2, <4>1, SentMost, ToldMore DEF Present
      <3>. QED  BY <1>5, <3>1, <3>2 DEF Reads
    <2>2. Past(p, n.conn, n.up, told, e, k)
      BY <1>1, <1>3, <2>1 DEF Past
    <2>3. Reads(p, n.conn, n.up, peer, asked, told, e, k)
      BY <1>1, <1>5, <2>2 DEF Reads
    <2>. QED  BY <1>1, <1>2, <1>3, <2>3 DEF Talk, Keeps, n
  <1>. QED  BY <1>4, <1>5 DEF Talk

\* What is between a peer and the rabbit reads a connection but for its count of
\* retransmissions.
LEMMA TalkSame ==
  ASSUME NEW p, NEW c, NEW d, NEW u, NEW peer, NEW asked, NEW told, NEW e,
         Talk(p, c, u, peer, asked, told, e),
         d.state = c.state, d.unacked = c.unacked, d.snd_nxt = c.snd_nxt, d.rcv_nxt = c.rcv_nxt,
         d.txq = c.txq, d.close_after = c.close_after
  PROVE  Talk(p, d, u, peer, asked, told, e)
  <1>1. Sent(d, u) = Sent(c, u)
    BY DEF Sent
  <1>2. ASSUME NEW base, Embryo(c, base) PROVE Embryo(d, base)
    BY <1>2 DEF Embryo
  <1>3. ASSUME NEW base, Writes(c, u, peer, base), Takes(c, u, peer)
        PROVE  Writes(d, u, peer, base) /\ Takes(d, u, peer)
    BY <1>1, <1>3, Zenon DEF Writes, Takes
  <1>4. ASSUME NEW k, Reads(p, c, u, peer, asked, told, e, k)
        PROVE  Reads(p, d, u, peer, asked, told, e, k)
    <2>1. Past(p, c, u, told, e, k) => Past(p, d, u, told, e, k)
      BY DEF Past
    <2>2. Present(p, c, u, peer, told, e, k) => Present(p, d, u, peer, told, e, k)
      BY <1>1, <1>2, <1>3, Zenon DEF Present
    <2>. QED  BY <1>4, <2>1, <2>2, Zenon DEF Reads
  <1>5. Unheard(p, c, u, peer, asked, told, e) => Unheard(p, d, u, peer, asked, told, e)
    BY <1>2, Zenon DEF Unheard
  <1>. QED  BY <1>4, <1>5, Zenon DEF Talk

\* A tick repeats what is in flight, or gives the connection up.
LEMMA TalkRetransmit ==
  ASSUME StreamsApart, NEW p \in Peers, NEW e \in 0 .. MaxEmbryos, NEW peer \in Peer, NEW asked,
         NEW told, NEW m, MachineOK(m), m.out = {}, Talk(p, m.conn, m.up, peer, asked, told, e)
  PROVE  Keeps(m, Retransmit(m), p, e, peer, asked, told)
  <1>1. m \in Machines
    BY DEF MachineOK
  <1>2. CASE m.conn.retries + 1 > MaxRetries
    BY <1>1, <1>2, TalkError DEF Retransmit
  <1>3. CASE ~(m.conn.retries + 1 > MaxRetries)
    <2> DEFINE n == [m EXCEPT !.conn.retries = @ + 1, !.out = @ \cup m.conn.unacked]
    <2>1. Retransmit(m) = n
      BY <1>3 DEF Retransmit
    <2>2. /\ n.up = m.up /\ n.out = m.conn.unacked
          /\ n.conn.state = m.conn.state /\ n.conn.unacked = m.conn.unacked
          /\ n.conn.snd_nxt = m.conn.snd_nxt /\ n.conn.rcv_nxt = m.conn.rcv_nxt
          /\ n.conn.txq = m.conn.txq /\ n.conn.close_after = m.conn.close_after
      BY <1>1 DEF Machines, Conn
    <2> HIDE DEF n
    <2>3. Talk(p, n.conn, m.up, peer, asked, told, e)
      BY <2>2, TalkSame
    <2>4. told \cup n.out = told
      BY <2>2 DEF Talk
    <2>5. Speaks(m.up, n.up, peer) /\ Orderly(m.up, n.up, peer)
      BY <2>2 DEF Speaks, Orderly
    <2>. QED  BY <2>1, <2>2, <2>3, <2>4, <2>5 DEF Keeps
  <1>. QED  BY <1>2, <1>3

\* What is told stays told when there are more embryos.
LEMMA ToldLater ==
  ASSUME NEW p, NEW e \in Nat, NEW base, NEW said, NEW top, NEW s, Told(p, e, base, said, top, s)
  PROVE  Told(p, e + 1, base, said, top, s)
  <1>1. 0 .. e - 1 \subseteq 0 .. (e + 1) - 1
    OBVIOUS
  <1>. QED  BY <1>1 DEF Told

\* A SYN makes an embryo, and nothing is said.
Begins(m, n, p, e, peer, asked, told) ==
  Talk(p, n.conn, n.up, peer, asked, told \cup n.out, e + 1) /\ n.up = m.up

\* A SYN is accepted: whatever the peer reads or is to read, there is one embryo
\* more.
LEMMA TalkAccept ==
  ASSUME StreamsApart, NEW p \in Peers, NEW e \in 0 .. MaxEmbryos, e < MaxEmbryos, NEW peer \in Peer,
         NEW asked \in SUBSET RequestSegments, NEW told, NEW m, MachineOK(m), m.out = {},
         m.conn.state = "CLOSED", Talk(p, m.conn, m.up, peer, asked, told, e),
         NEW s \in asked, "SYN" \in s.flags
  PROVE  Begins(m, Accept(m, s, Iss(p, e)), p, e, peer, asked, told)
  <1> DEFINE n == Accept(m, s, Iss(p, e))
             iss == Iss(p, e)
             c == NewConn("SYN_RCVD", iss, SeqAdd(s.seq, 1))
             k == [m EXCEPT !.conn = c]
             f == Frame(c, {"SYN", "ACK"}, <<>>)
  <1>1. m \in Machines /\ iss \in SeqNums /\ s \in RequestSegments
    BY ServerAssumption DEF MachineOK
  <1>2. SeqAdd(s.seq, 1) \in SeqNums
    <2>1. s.seq \in Int
      BY <1>1 DEF RequestSegments, Segments, SeqNums
    <2>. QED  BY <2>1, SeqAddType
  <1>3. /\ c \in Conn /\ c.state = "SYN_RCVD" /\ c.snd_nxt = iss /\ c.rcv_nxt = SeqAdd(s.seq, 1)
    <2>1. <<>> \in Seq(Seq(ResponseUnits)) /\ Window \in Nat /\ MaxRetries \in Nat /\ "SYN_RCVD" \in TcpStates
      BY TcpAssumption, EmptySeq DEF TcpStates, PassiveStates
    <2>. QED  BY <1>1, <1>2, <2>1 DEF NewConn, Conn
  <1> HIDE DEF c, iss
  <1>4. k \in Machines /\ k.up = m.up /\ k.out = {} /\ k.conn = c
    BY <1>1, <1>3 DEF Machines
  <1>5. n = SendRel(k, {"SYN", "ACK"}, <<>>) /\ f = Frame(k.conn, {"SYN", "ACK"}, <<>>)
    BY <1>4 DEF Accept, c, iss
  <1> HIDE DEF k, n, f
  <1>6. {"SYN", "ACK"} \in SUBSET Flags /\ <<>> \in Seq(ResponseUnits)
    BY EmptySeq DEF Flags
  <1>7. Leaves(k, n, {"SYN", "ACK"}, <<>>, f)
    BY <1>4, <1>5, <1>6, FlowSends
  <1>8. n.up = m.up /\ n.conn.state = "SYN_RCVD"
    BY <1>3, <1>4, <1>5, <1>6, SendRelOK
  <1>9. SeqLen({"SYN", "ACK"}, <<>>) = 1
    <2>1. {"SYN", "ACK"} \cap {"SYN", "FIN"} # {}
      OBVIOUS
    <2>. QED  BY <2>1, EmptySeq DEF SeqLen
  <1>10. /\ n.conn.snd_nxt = SeqAdd(iss, 1) /\ n.conn.rcv_nxt = SeqAdd(s.seq, 1)
         /\ n.conn.unacked = {f} /\ n.out = {f}
         /\ f.flags = {"SYN", "ACK"} /\ f.data = <<>> /\ f.seq = iss
    BY <1>3, <1>4, <1>7, <1>9 DEF Leaves
  <1>11. e \in Nat /\ (e + 1) - 1 = e /\ e + 1 > 0 /\ e \in 0 .. (e + 1) - 1
    BY ServerAssumption
  <1>12. \A base, said, top : Told(p, e + 1, base, said, top, f)
    BY <1>10, <1>11 DEF Told, iss
  <1>13. n.conn.unacked \subseteq told \cup n.out
    BY <1>10
  <1>14. ASSUME Unheard(p, m.conn, m.up, peer, asked, told, e)
         PROVE  Talk(p, n.conn, n.up, peer, asked, told \cup n.out, e + 1) /\ n.up = m.up
    <2>1. s.seq = PeerIss
      BY <1>14 DEF Unheard, Opening
    <2>2. Embryo(n.conn, Iss(p, (e + 1) - 1))
      BY <1>8, <1>10, <1>11, <2>1 DEF Embryo, iss
    <2>3. \A g \in told \cup n.out : Told(p, e + 1, 0, <<>>, 0, g)
      BY <1>10, <1>11, <1>12, <1>14, ToldLater DEF Unheard
    <2>4. Unheard(p, n.conn, n.up, peer, asked, told \cup n.out, e + 1)
      BY <1>8, <1>11, <1>14, <2>2, <2>3 DEF Unheard
    <2>. QED  BY <1>8, <1>13, <2>4 DEF Talk
  <1>15. ASSUME NEW i \in 0 .. e - 1, Reads(p, m.conn, m.up, peer, asked, told, e, i)
         PROVE  Talk(p, n.conn, n.up, peer, asked, told \cup n.out, e + 1) /\ n.up = m.up
    <2>1. Past(p, m.conn, m.up, told, e, i)
      BY <1>15 DEF Reads, Present, Embryo, Writes, OpenStates, FinStates
    <2>2. i \in 0 .. (e + 1) - 1 /\ i < (e + 1) - 1
      BY <1>11
    <2>3. \A g \in told \cup n.out : Told(p, e + 1, Iss(p, i), n.up.said, Len(n.up.said) + 1, g)
      BY <1>8, <1>10, <1>11, <1>12, <2>1, ToldLater DEF Past
    <2>4. n.conn.snd_nxt = SeqAdd(Iss(p, (e + 1) - 1), 1) /\ n.conn.unacked # {}
      BY <1>10, <1>11 DEF iss
    <2>5. Past(p, n.conn, n.up, told \cup n.out, e + 1, i)
      BY <1>8, <2>2, <2>3, <2>4 DEF Past
    <2>6. Reads(p, n.conn, n.up, peer, asked, told \cup n.out, e + 1, i)
      BY <1>8, <1>15, <2>5 DEF Reads
    <2>. QED  BY <1>8, <1>13, <2>2, <2>6 DEF Talk
  <1>. QED  BY <1>14, <1>15 DEF Begins, Talk, n

-----------------------------------------------------------------------------
(* The peer.                                                                 *)

\* A peer goes on: it has read no less, and not unwritten what it wrote.
GoesOn(peer, next) ==
  /\ next.req = peer.req /\ peer.sent <= next.sent /\ next.sent <= Len(peer.req)
  /\ peer.fin => next.fin /\ next.sent = peer.sent
  /\ Heard(peer) <= Heard(next)

\* What it asked it still has.
LEMMA AskedOn ==
  ASSUME NEW peer \in Peer, NEW next \in Peer, GoesOn(peer, next),
         NEW s \in RequestSegments, Asked(peer, s)
  PROVE  Asked(next, s)
  <1>1. 0 .. peer.sent \subseteq 0 .. next.sent
    BY DEF Peer, GoesOn
  <1>2. CASE Opening(s) \/ (s.flags = {"ACK"} /\ s.data = <<>>)
    BY <1>2 DEF Asked
  <1>3. CASE /\ s.flags = {"ACK", "PSH"}
             /\ \E j \in 0 .. peer.sent : /\ j + Len(s.data) <= peer.sent
                                          /\ s.seq = SeqAdd(PeerIss, 1 + j)
                                          /\ s.data = SubSeq(peer.req, j + 1, j + Len(s.data))
    <2>1. PICK j \in 0 .. peer.sent : /\ j + Len(s.data) <= peer.sent
                                      /\ s.seq = SeqAdd(PeerIss, 1 + j)
                                      /\ s.data = SubSeq(peer.req, j + 1, j + Len(s.data))
      BY <1>3
    <2>2. Len(s.data) \in Nat
      BY LenProperties DEF RequestSegments, Segments
    <2>3. j \in 0 .. next.sent /\ j + Len(s.data) <= next.sent /\ next.req = peer.req
      BY <1>1, <2>1, <2>2 DEF GoesOn, Peer
    <2>. QED  BY <1>3, <2>1, <2>3 DEF Asked
  <1>4. CASE /\ s.flags = {"ACK", "FIN"} /\ s.data = <<>>
             /\ peer.fin /\ s.seq = SeqAdd(PeerIss, 1 + peer.sent)
    BY <1>4 DEF Asked, GoesOn
  <1>. QED  BY <1>2, <1>3, <1>4 DEF Asked

\* How much a peer has read.
LEMMA HeardNat ==
  ASSUME NEW peer \in Peer
  PROVE  /\ Len(peer.got) \in Nat /\ Heard(peer) \in Nat
         /\ peer.eof => Heard(peer) = Len(peer.got) + 1
         /\ ~peer.eof => Heard(peer) = Len(peer.got)
  <1>1. Len(peer.got) \in Nat
    BY LenProperties DEF Peer
  <1>2. CASE peer.eof
    BY <1>1, <1>2 DEF Heard
  <1>3. CASE ~peer.eof
    BY <1>1, <1>3 DEF Heard
  <1>. QED  BY <1>1, <1>2, <1>3

\* What it acknowledged it has still read.
LEMMA AcksOn ==
  ASSUME NEW peer \in Peer, NEW next \in Peer, GoesOn(peer, next), NEW base, NEW s, Acks(peer, base, s)
  PROVE  Acks(next, base, s)
  <1>1. 0 .. Heard(peer) \subseteq 0 .. Heard(next)
    BY HeardNat DEF GoesOn
  <1>. QED  BY <1>1 DEF Acks

\* The request a connection takes is that of the peer as it goes on.
LEMMA TakesOn ==
  ASSUME NEW peer \in Peer, NEW next \in Peer, GoesOn(peer, next), NEW c, NEW u, Takes(c, u, peer)
  PROVE  Takes(c, u, next)
  <1>1. 0 .. peer.sent \subseteq 0 .. next.sent /\ next.req = peer.req
    BY DEF Peer, GoesOn
  <1>2. c.state \in {"ESTAB", "FIN_WAIT_1", "FIN_WAIT_2"} =>
         \E n \in 0 .. next.sent : /\ c.rcv_nxt = SeqAdd(PeerIss, 1 + n)
                                   /\ ~u.done => u.buf = SubSeq(next.req, 1, n)
    BY <1>1 DEF Takes
  <1>3. c.state \in {"CLOSE_WAIT", "LAST_ACK"} =>
          next.fin /\ c.rcv_nxt = SeqAdd(PeerIss, 2 + next.sent)
    BY DEF Takes, GoesOn
  <1>. QED  BY <1>2, <1>3 DEF Takes

\* A peer of a connection says more, and has heard nothing new.
LEMMA TalkSays ==
  ASSUME NEW p, NEW c, NEW u, NEW peer \in Peer, NEW next \in Peer,
         NEW asked \in SUBSET RequestSegments, NEW told, NEW e, NEW k \in 0 .. e - 1,
         Talk(p, c, u, peer, asked, told, e), Reads(p, c, u, peer, asked, told, e, k),
         GoesOn(peer, next), next.state \in {"open", "over"},
         next.got = peer.got, next.eof = peer.eof, next.rcv = peer.rcv,
         NEW segs, \A s \in segs : Asked(next, s) /\ ("ACK" \in s.flags => s.ack = peer.rcv)
  PROVE  Talk(p, c, u, next, asked \cup segs, told, e)
  <1>1. Heard(next) = Heard(peer)
    BY DEF Heard
  <1>2. Follows(next, u.said)
    BY DEF Follows, Reads
  <1>3. \A s \in asked : Asked(next, s) /\ Acks(next, Iss(p, k), s)
    BY AskedOn, AcksOn DEF Reads
  <1>4. \A s \in segs : Acks(next, Iss(p, k), s)
    <2>1. Heard(next) \in 0 .. Heard(next)
      BY HeardNat
    <2>. QED  BY <1>1, <2>1 DEF Acks, Reads
  <1>5. Present(p, c, u, peer, told, e, k) => Present(p, c, u, next, told, e, k)
    <2>1. Writes(c, u, peer, Iss(p, k)) => Writes(c, u, next, Iss(p, k))
      BY <1>1 DEF Writes
    <2>2. Takes(c, u, peer) => Takes(c, u, next)
      BY TakesOn
    <2>. QED  BY <1>1, <2>1, <2>2 DEF Present
  <1>6. Reads(p, c, u, next, asked \cup segs, told, e, k)
    BY <1>1, <1>2, <1>3, <1>4, <1>5 DEF Reads
  <1>7. next.sent <= Len(next.req)
    BY DEF GoesOn
  <1>. QED  BY <1>6, <1>7 DEF Talk

\* A peer that has heard of no connection says no more than an opening.
LEMMA TalkOpens ==
  ASSUME NEW p, NEW c, NEW u, NEW peer \in Peer, NEW next \in Peer, NEW asked, NEW told, NEW e,
         Talk(p, c, u, peer, asked, told, e), Unheard(p, c, u, peer, asked, told, e),
         next.state \in {"idle", "syn", "over"},
         next.got = peer.got, next.eof = peer.eof, next.sent = peer.sent, next.fin = peer.fin,
         NEW segs, \A s \in segs : Opening(s)
  PROVE  Talk(p, c, u, next, asked \cup segs, told, e)
  <1>1. Unheard(p, c, u, next, asked \cup segs, told, e)
    <2>1. ~next.eof /\ ~next.fin
      BY Zenon DEF Unheard
    <2>. QED  BY <2>1 DEF Unheard
  <1>2. next.sent <= Len(next.req)
    <2>1. next.sent = 0 /\ Len(next.req) \in Nat
      BY ServerAssumption, LenProperties, EmptySeq DEF Unheard, Peer
    <2>. QED  BY <2>1
  <1>. QED  BY <1>1, <1>2 DEF Talk

\* The SYN+ACK of an embryo opens the peer's connection: it reads that embryo's
\* stream from then on, be it gone or there.
LEMMA TalkSynAck ==
  ASSUME StreamsApart, NEW p \in Peers, NEW e \in 0 .. MaxEmbryos, NEW peer \in Peer, NEW next \in Peer,
         NEW asked, NEW told, NEW m, MachineOK(m), Talk(p, m.conn, m.up, peer, asked, told, e),
         Unheard(p, m.conn, m.up, peer, asked, told, e),
         NEW s \in told, {"SYN", "ACK"} \subseteq s.flags,
         next.state = "open", next.req = peer.req, next.sent = peer.sent, next.fin = peer.fin,
         next.got = peer.got, next.eof = peer.eof, next.rcv = SeqAdd(s.seq, 1),
         NEW f, f.flags = {"ACK"}, f.data = <<>>, f.ack = next.rcv
  PROVE  Talk(p, m.conn, m.up, next, asked \cup {f}, told, e)
  <1> DEFINE c == m.conn
             u == m.up
  <1>1. PICK k \in 0 .. e - 1 : s.seq = Iss(p, k)
    <2>1. Told(p, e, 0, <<>>, 0, s)
      BY DEF Unheard
    <2>2. "SYN" \in s.flags
      OBVIOUS
    <2>. QED  BY <2>1, <2>2 DEF Told
  <1>2. /\ next.got = <<>> /\ ~next.eof /\ u.said = <<>> /\ next.sent = 0 /\ ~next.fin
    <2>1. ~next.eof /\ ~next.fin
      BY Zenon DEF Unheard
    <2>. QED  BY <2>1 DEF Unheard
  <1>3. Len(next.got) = 0 /\ Heard(next) = 0 /\ Len(u.said) = 0
    <2>1. Len(next.got) = 0 /\ Len(u.said) = 0
      BY <1>2, EmptySeq
    <2>. QED  BY <1>2, <2>1, HeardNat
  <1>4. next.rcv = SeqAdd(Iss(p, k), 1 + Heard(next))
    BY <1>1, <1>3
  <1>5. Follows(next, u.said)
    <2>1. SubSeq(u.said, 1, 0) = <<>>
      BY SubSeqEmpty
    <2>. QED  BY <1>2, <1>3, <2>1 DEF Follows
  <1>6. \A g \in asked \cup {f} : Asked(next, g) /\ Acks(next, Iss(p, k), g)
    <2>1. \A g \in asked : Opening(g)
      BY DEF Unheard
    <2>2. \A g \in asked : Asked(next, g) /\ Acks(next, Iss(p, k), g)
      BY <2>1 DEF Opening, Asked, Acks
    <2>3. Asked(next, f) /\ Acks(next, Iss(p, k), f)
      <3>1. 0 \in 0 .. Heard(next)
        BY <1>3
      <3>. QED  BY <1>3, <1>4, <3>1 DEF Asked, Acks
    <2>. QED  BY <2>2, <2>3
  <1>7. \A top \in Nat, g \in told : Told(p, e, Iss(p, k), u.said, top, g)
    <2>1. \A g \in told : Told(p, e, 0, <<>>, 0, g) /\ <<>> \in Seq(ResponseUnits)
      BY EmptySeq DEF Unheard
    <2>2. \A top \in Nat, g \in told : Told(p, e, Iss(p, k), <<>>, top, g)
      BY <2>1, ToldNothing
    <2>. QED  BY <1>2, <2>2
  <1>8. Past(p, c, u, told, e, k) \/ Present(p, c, u, next, told, e, k)
    <2>1. \A g \in told : Told(p, e, Iss(p, k), u.said, Len(u.said) + 1, g)
      BY <1>3, <1>7
    <2>2. CASE c.state = "CLOSED"
      BY <2>1, <2>2 DEF Past
    <2>3. CASE e > 0 /\ Embryo(c, Iss(p, e - 1)) /\ k < e - 1
      BY <2>1, <2>3 DEF Past, Embryo
    <2>4. CASE e > 0 /\ Embryo(c, Iss(p, e - 1)) /\ ~(k < e - 1)
      <3>1. k = e - 1
        BY <2>4, ServerAssumption
      <3>2. Sent(c, u) = 0
        <4>1. c.txq = <<>> /\ c.state \notin FinStates
          BY <2>4 DEF MachineOK, Shape, Embryo, FinStates
        <4>2. Len(c.txq) = 0
          BY <4>1, EmptySeq
        <4>. QED  BY <1>3, <4>1, <4>2 DEF Sent
      <3>. QED  BY <1>2, <1>3, <1>7, <2>4, <3>1, <3>2 DEF Present
    <2>. QED  BY <2>2, <2>3, <2>4 DEF Unheard
  <1>9. Reads(p, c, u, next, asked \cup {f}, told, e, k)
    BY <1>4, <1>5, <1>6, <1>8 DEF Reads
  <1>10. next.sent <= Len(next.req)
    BY DEF Talk
  <1>. QED  BY <1>9, <1>10 DEF Talk

\* What a peer that reads in order can find at its place in the stream: the next
\* unit of what was said, or the end behind all of it.
Expected(said, peer, top, s) ==
  /\ ~peer.eof /\ SeqLen(s.flags, s.data) = 1 /\ Heard(peer) = Len(peer.got) /\ Heard(peer) + 1 <= top
  /\ \/ Heard(peer) < Len(said) /\ s.data = <<said[Heard(peer) + 1]>> /\ "FIN" \notin s.flags
     \/ Heard(peer) = Len(said) /\ s.data = <<>> /\ "FIN" \in s.flags

\* Of all that may be in the air, only that fits its place.
LEMMA InOrderTold ==
  ASSUME StreamsApart, NEW p \in Peers, NEW e \in 0 .. MaxEmbryos, NEW k \in 0 .. e - 1,
         NEW peer \in Peer, NEW said \in {<<>>} \cup Texts, Follows(peer, said),
         peer.rcv = SeqAdd(Iss(p, k), 1 + Heard(peer)), NEW top \in Int,
         NEW s, Told(p, e, Iss(p, k), said, top, s), s.seq = peer.rcv, SeqLen(s.flags, s.data) > 0
  PROVE  Expected(said, peer, top, s)
  <1> DEFINE base == Iss(p, k)
             L == Len(said)
             H == Heard(peer)
             G == Len(peer.got)
  <1>1. /\ L \in Nat /\ L + 2 < SeqMod /\ SeqMod \in Nat /\ base \in SeqNums /\ base \in Int
        /\ \A n \in 0 .. e - 1 : Iss(p, n) \in SeqNums
        /\ \A n \in 0 .. e - 1 : k # n => \A j \in 0 .. L + 2 : Iss(p, n) # SeqAdd(base, j)
    BY Streams, TcpAssumption DEF SeqNums
  <1>2. G \in Nat /\ H \in Nat /\ (peer.eof => H = G + 1 /\ G = L) /\ (~peer.eof => H = G) /\ G <= L
    BY HeardNat DEF Follows
  <1>3. H <= L + 1
    <2> HIDE DEF H, G, L
    <2>. QED  BY <1>1, <1>2
  <1>5. s.seq = SeqAdd(base, 1 + H)
    OBVIOUS
  <1> HIDE DEF base
  <1>4. SeqAdd(base, 0) = base
    <2>1. base + 0 = base /\ 0 <= base /\ base < SeqMod /\ base \in Int /\ SeqMod \in Nat
      BY <1>1 DEF SeqNums
    <2>. QED  BY <2>1 DEF SeqAdd
  <1>6. ASSUME s.flags = {"SYN", "ACK"}, s.data = <<>>, NEW n \in 0 .. e - 1, s.seq = Iss(p, n) PROVE FALSE
    <2>1. CASE n # k
      <3> HIDE DEF H, L
      <3>1. 1 + H \in 0 .. L + 2
        BY <1>1, <1>2, <1>3
      <3>. QED  BY <1>1, <1>5, <1>6, <2>1, <3>1
    <2>2. CASE n = k
      <3>1. SeqAdd(base, 0) = SeqAdd(base, 1 + H)
        BY <1>4, <1>5, <1>6, <2>2 DEF base
      <3> HIDE DEF H, L
      <3>2. 0 \in Int /\ 1 + H \in Int /\ 0 < 1 + H + SeqMod /\ 1 + H < 0 + SeqMod
        BY <1>1, <1>2, <1>3
      <3>3. 0 = 1 + H
        BY <1>1, <3>1, <3>2, Places
      <3>. QED  BY <1>2, <3>3
    <2>. QED  BY <2>1, <2>2
  <1>7. ASSUME s.flags = {"ACK"}, s.data = <<>> PROVE FALSE
    <2>1. {"ACK"} \cap {"SYN", "FIN"} = {} /\ Len(s.data) = 0
      BY <1>7, EmptySeq
    <2>. QED  BY <1>7, <2>1 DEF SeqLen
  <1>8. ASSUME s.flags = {"ACK", "PSH"}, NEW i \in 1 .. top, i <= L, s.seq = SeqAdd(base, i),
               s.data = <<said[i]>>
        PROVE  Expected(said, peer, top, s)
    <2>1. i = 1 + H
      <3>1. SeqAdd(base, i) = SeqAdd(base, 1 + H)
        BY <1>5, <1>8
      <3>4. i \in Int /\ 1 <= i /\ i <= L
        BY <1>8
      <3> HIDE DEF H, L
      <3>2. i \in Int /\ 1 + H \in Int /\ i < 1 + H + SeqMod /\ 1 + H < i + SeqMod
        BY <1>1, <1>2, <1>3, <3>4
      <3>. QED  BY <1>1, <3>1, <3>2, Places
    <2>2. H < L /\ i = H + 1 /\ H + 1 <= top
      <3> HIDE DEF H, L
      <3>. QED  BY <1>1, <1>2, <1>8, <2>1
    <2>3. ~peer.eof /\ H = G
      <3>1. ~peer.eof
        <4> HIDE DEF H, L, G
        <4>. QED  BY <1>1, <1>2, <2>2
      <3>. QED  BY <1>2, <3>1
    <2>4. SeqLen(s.flags, s.data) = 1
      <3>1. {"ACK", "PSH"} \cap {"SYN", "FIN"} = {} /\ Len(s.data) = 1
        BY <1>8
      <3>. QED  BY <1>8, <3>1 DEF SeqLen
    <2>5. "FIN" \notin s.flags
      BY <1>8
    <2>. QED  BY <1>8, <2>2, <2>3, <2>4, <2>5 DEF Expected
  <1>9. ASSUME s.flags = {"ACK", "FIN"}, s.data = <<>>, top > L, s.seq = SeqAdd(base, 1 + L)
        PROVE  Expected(said, peer, top, s)
    <2>1. L = H
      <3>1. SeqAdd(base, 1 + L) = SeqAdd(base, 1 + H)
        BY <1>5, <1>9
      <3> HIDE DEF H, L
      <3>2. 1 + L \in Int /\ 1 + H \in Int /\ 1 + L < 1 + H + SeqMod /\ 1 + H < 1 + L + SeqMod
        BY <1>1, <1>2, <1>3
      <3>3. 1 + L = 1 + H
        BY <1>1, <3>1, <3>2, Places
      <3>. QED  BY <1>1, <1>2, <3>3
    <2>2. ~peer.eof /\ H = G
      <3>1. ~peer.eof
        <4> HIDE DEF H, L, G
        <4>. QED  BY <1>1, <1>2, <2>1
      <3>. QED  BY <1>2, <3>1
    <2>3. H + 1 <= top
      <3> HIDE DEF H, L
      <3>. QED  BY <1>1, <1>2, <1>9, <2>1
    <2>4. SeqLen(s.flags, s.data) = 1
      <3>1. {"ACK", "FIN"} \cap {"SYN", "FIN"} # {} /\ Len(s.data) = 0
        BY <1>9, EmptySeq
      <3>. QED  BY <1>9, <3>1 DEF SeqLen
    <2>5. "FIN" \in s.flags
      BY <1>9
    <2>. QED  BY <1>9, <2>1, <2>2, <2>3, <2>4, <2>5 DEF Expected
  <1>10. \/ s.flags = {"SYN", "ACK"} /\ s.data = <<>> /\ \E n \in 0 .. e - 1 : s.seq = Iss(p, n)
         \/ s.flags = {"ACK"} /\ s.data = <<>>
         \/ /\ s.flags = {"ACK", "PSH"}
            /\ \E i \in 1 .. top : i <= L /\ s.seq = SeqAdd(base, i) /\ s.data = <<said[i]>>
         \/ /\ s.flags = {"ACK", "FIN"} /\ s.data = <<>>
            /\ top > L /\ s.seq = SeqAdd(base, 1 + L)
    BY DEF Told, base
  <1>. QED  BY <1>6, <1>7, <1>8, <1>9, <1>10

\* A step of the peer, as its application sees it: nothing, the next unit, or the end.
Hears(said, peer, next) ==
  \/ next.got = peer.got /\ next.eof = peer.eof
  \/ /\ ~peer.eof /\ Len(peer.got) < Len(said)
     /\ next.got = Append(peer.got, said[Len(peer.got) + 1]) /\ next.eof = peer.eof
  \/ ~peer.eof /\ peer.got = said /\ next.got = peer.got /\ next.eof = TRUE

\* What is expected is read.
LEMMA ExpectedRead ==
  ASSUME NEW peer \in Peer, NEW next \in Peer, NEW said \in Seq(ResponseUnits), Follows(peer, said),
         NEW top, NEW s, Expected(said, peer, top, s),
         next.got = peer.got \o s.data, next.eof = (peer.eof \/ "FIN" \in s.flags)
  PROVE  Follows(next, said) /\ Heard(next) = Heard(peer) + 1 /\ Hears(said, peer, next)
  <1> DEFINE L == Len(said)
             G == Len(peer.got)
  <1>1. /\ ~peer.eof /\ G = Heard(peer) /\ G \in Nat /\ L \in Nat /\ G <= L
        /\ peer.got \in Seq(ResponseUnits) /\ peer.got = SubSeq(said, 1, G)
    BY HeardNat, LenProperties DEF Expected, Follows, Peer
  <1>2. CASE G < L /\ s.data = <<said[G + 1]>> /\ "FIN" \notin s.flags
    <2>1. G + 1 \in 1 .. L /\ said[G + 1] \in ResponseUnits
      BY <1>1, <1>2, ElementOfSeq
    <2>2. next.got = Append(peer.got, said[G + 1])
      BY <1>1, <1>2, <2>1, AppendIsConcat
    <2>3. Len(next.got) = G + 1
      BY <1>1, <2>1, <2>2, AppendProperties
    <2>4. ~next.eof /\ next.eof = peer.eof
      BY <1>1, <1>2 DEF Peer
    <2>5. next.got = SubSeq(said, 1, G + 1)
      <3>1. 1 \in 1 .. L /\ G + 1 \in 1 .. L /\ (G + 1) - 1 = G
        BY <1>1, <2>1
      <3>2. SubSeq(said, 1, G + 1) = SubSeq(said, 1, (G + 1) - 1) \o <<said[G + 1]>>
        BY <3>1, SubSeqRecursiveSecond
      <3>. QED  BY <1>1, <1>2, <3>1, <3>2
    <2>6. Heard(next) = G + 1
      BY <2>3, <2>4, HeardNat
    <2>. QED  BY SMTT(40), <1>1, <1>2, <2>1, <2>2, <2>3, <2>4, <2>5, <2>6 DEF Follows, Hears
  <1>3. CASE G = L /\ s.data = <<>> /\ "FIN" \in s.flags
    <2>1. next.got = peer.got /\ next.eof = TRUE
      BY <1>1, <1>3, ConcatEmptySeq
    <2>2. peer.got = said
      BY <1>1, <1>3, SubSeqFull
    <2>3. Heard(next) = G + 1
      BY <2>1, HeardNat
    <2>. QED  BY <1>1, <1>3, <2>1, <2>2, <2>3 DEF Follows, Hears
  <1>. QED  BY <1>1, <1>2, <1>3 DEF Expected

\* The stream goes on for a peer that reads what was in flight.
LEMMA WritesRead ==
  ASSUME NEW c, NEW u, NEW peer \in Peer, NEW next \in Peer, NEW base, Writes(c, u, peer, base),
         Sent(c, u) \in Int, Heard(next) = Heard(peer) + 1, Heard(peer) + 1 <= Sent(c, u)
  PROVE  Writes(c, u, next, base)
  <1>1. Heard(peer) \in Nat
    BY HeardNat
  <1>2. Sent(c, u) <= Heard(peer) + 1
    BY DEF Writes
  <1>3. Heard(next) = Sent(c, u) /\ Heard(next) <= Sent(c, u) /\ Sent(c, u) <= Heard(next) + 1
    BY <1>1, <1>2
  <1>. QED  BY <1>3 DEF Writes

\* A peer takes the segment next in order and acknowledges it.
Taken(peer, next, s, f) ==
  /\ s.seq = peer.rcv /\ SeqLen(s.flags, s.data) > 0
  /\ f.flags = {"ACK"} /\ f.data = <<>> /\ f.ack = next.rcv
  /\ next.state = "open" /\ next.req = peer.req /\ next.sent = peer.sent /\ next.fin = peer.fin
  /\ next.got = peer.got \o s.data /\ next.eof = (peer.eof \/ "FIN" \in s.flags)
  /\ next.rcv = SeqAdd(s.seq, SeqLen(s.flags, s.data))

\* So the talk is with a peer that has heard one thing more, at most.
Took(p, m, peer, next, asked, told, e) ==
  Talk(p, m.conn, m.up, next, asked, told, e) /\ Hears(m.up.said, peer, next)

\* What it reads is the next unit or the end, and the talk goes on.
LEMMA TalkTake ==
  ASSUME StreamsApart, NEW p \in Peers, NEW e \in 0 .. MaxEmbryos, NEW peer \in Peer, NEW next \in Peer,
         NEW asked \in SUBSET RequestSegments, NEW told, NEW m, MachineOK(m),
         Talk(p, m.conn, m.up, peer, asked, told, e),
         NEW k \in 0 .. e - 1, Reads(p, m.conn, m.up, peer, asked, told, e, k),
         NEW s \in told, NEW f, Taken(peer, next, s, f)
  PROVE  Took(p, m, peer, next, asked \cup {f}, told, e)
  <1> DEFINE c == m.conn
             u == m.up
             base == Iss(p, k)
             H == Heard(peer)
  <1>0. /\ next.state = "open" /\ next.req = peer.req /\ next.sent = peer.sent /\ next.fin = peer.fin
        /\ next.got = peer.got \o s.data /\ next.eof = (peer.eof \/ "FIN" \in s.flags)
        /\ next.rcv = SeqAdd(s.seq, SeqLen(s.flags, s.data))
        /\ s.seq = peer.rcv /\ SeqLen(s.flags, s.data) > 0
        /\ f.flags = {"ACK"} /\ f.data = <<>> /\ f.ack = next.rcv
    BY Zenon DEF Taken
  <1>1. u.said \in {<<>>} \cup Texts /\ u.said \in Seq(ResponseUnits) /\ m \in Machines
    BY DEF Talk, MachineOK, Machines, Hsrv
  <1>2. Sent(c, u) \in Int /\ Len(u.said) + 1 \in Int
    BY <1>1, SentMost
  <1>3. Follows(peer, u.said) /\ peer.rcv = SeqAdd(base, 1 + H)
    BY DEF Reads
  <1>4. base \in Int /\ H \in Nat
    <2>1. base \in SeqNums
      BY Streams DEF Talk
    <2>. QED  BY <2>1, HeardNat DEF SeqNums
  <1>5. ASSUME NEW top \in Int, \A g \in told : Told(p, e, Iss(p, k), u.said, top, g)
        PROVE  Expected(u.said, peer, top, s)
    <2>1. Told(p, e, Iss(p, k), u.said, top, s)
      BY <1>5
    <2>. QED  BY <1>0, <1>1, <1>3, <2>1, InOrderTold
  <1>6. PICK top \in Int : /\ Expected(u.said, peer, top, s)
                           /\ Present(p, c, u, peer, told, e, k) => top = Sent(c, u)
    <2>1. CASE Past(p, c, u, told, e, k) /\ ~Present(p, c, u, peer, told, e, k)
      <3>1. Expected(u.said, peer, Len(u.said) + 1, s)
        BY <1>2, <1>5, <2>1 DEF Past
      <3>. QED  BY <1>2, <2>1, <3>1
    <2>2. CASE Present(p, c, u, peer, told, e, k)
      <3>1. Expected(u.said, peer, Sent(c, u), s)
        BY <1>2, <1>5, <2>2 DEF Present
      <3>. QED  BY <1>2, <3>1
    <2>. QED  BY <2>1, <2>2 DEF Reads
  <1>7. Follows(next, u.said) /\ Heard(next) = H + 1 /\ Hears(u.said, peer, next)
    BY <1>0, <1>1, <1>3, <1>6, ExpectedRead
  <1>8. GoesOn(peer, next)
    <2>1. peer.sent \in Nat /\ peer.sent <= Len(peer.req)
      BY DEF Peer, Talk
    <2>2. peer.fin => next.fin
      BY <1>0
    <2> HIDE DEF H
    <2>3. H <= H + 1 /\ peer.sent <= peer.sent
      BY <1>4, <2>1
    <2>. QED  BY <1>0, <1>7, <2>1, <2>2, <2>3 DEF GoesOn, H
  <1>9. next.rcv = SeqAdd(base, 1 + Heard(next))
    <2>1. next.rcv = SeqAdd(SeqAdd(base, 1 + H), 1)
      BY <1>0, <1>3, <1>6 DEF Expected
    <2> HIDE DEF H, base
    <2>2. SeqAdd(SeqAdd(base, 1 + H), 1) = SeqAdd(base, (1 + H) + 1)
      <3>1. 1 + H \in Int /\ 1 \in Int
        BY <1>4
      <3>. QED  BY <1>4, <3>1, SeqAddTwice
    <2>3. (1 + H) + 1 = 1 + Heard(next)
      BY <1>4, <1>7
    <2>. QED  BY <2>1, <2>2, <2>3
  <1>10. \A g \in asked \cup {f} : Asked(next, g) /\ Acks(next, base, g)
    <2>1. \A g \in asked : Asked(next, g) /\ Acks(next, base, g)
      BY <1>8, AskedOn, AcksOn DEF Reads
    <2>2. Heard(next) \in 0 .. Heard(next)
      BY HeardNat
    <2>3. Asked(next, f) /\ Acks(next, base, f)
      BY <1>0, <1>9, <2>2 DEF Asked, Acks
    <2>. QED  BY <2>1, <2>3
  <1>11. Present(p, c, u, peer, told, e, k) => Present(p, c, u, next, told, e, k)
    <2>1. SUFFICES ASSUME Present(p, c, u, peer, told, e, k) PROVE Present(p, c, u, next, told, e, k)
      OBVIOUS
    <2>2. H + 1 <= Sent(c, u)
      BY <1>6, <2>1 DEF Expected
    <2>3. CASE Writes(c, u, peer, base) /\ Takes(c, u, peer)
      <3>1. Writes(c, u, next, base)
        <4>. HIDE DEF c, u, base
        <4>. QED  BY <1>2, <1>7, <2>2, <2>3, WritesRead
      <3>2. Takes(c, u, next)
        BY <1>8, <2>3, TakesOn
      <3>. QED  BY <2>1, <3>1, <3>2 DEF Present
    <2>4. CASE Embryo(c, base) /\ u.said = <<>> /\ H = 0
      <3>1. c.txq = <<>> /\ c.state \notin FinStates
        BY <2>4 DEF MachineOK, Shape, Embryo, FinStates
      <3>2. Len(u.said) = 0 /\ Len(c.txq) = 0
        BY <2>4, <3>1, EmptySeq
      <3>3. Sent(c, u) = 0
        BY <3>1, <3>2 DEF Sent
      <3>. QED  BY <2>2, <2>4, <3>3
    <2>. QED  BY <2>1, <2>3, <2>4 DEF Present
  <1>12. Reads(p, c, u, next, asked \cup {f}, told, e, k)
    BY <1>0, <1>7, <1>9, <1>10, <1>11 DEF Reads
  <1>13. next.sent <= Len(next.req)
    BY <1>0 DEF Talk
  <1>. QED  BY <1>7, <1>12, <1>13 DEF Talk, Took

-----------------------------------------------------------------------------
(* The steps.                                                                *)

\* A step, as the two applications see it: one answer, an end, any number of
\* ends by the timer, or a peer that reads.
Acts ==
  \/ /\ peers' = peers
     /\ \/ \E p \in Peers : /\ Speaks(hsrv[p], hsrv'[p], peers[p])
                            /\ Orderly(hsrv[p], hsrv'[p], peers[p])
                            /\ \A q \in Peers \ {p} : hsrv'[q] = hsrv[q]
        \/ \A q \in Peers : /\ hsrv'[q].said = hsrv[q].said
                            /\ Orderly(hsrv[q], hsrv'[q], peers[q])
  \/ /\ hsrv' = hsrv
     /\ \E p \in Peers : /\ Hears(hsrv[p].said, peers[p], peers'[p])
                         /\ \A q \in Peers \ {p} : peers'[q] = peers[q]

\* A handler that leaves a talk at p leaves every peer's.
LEMMA TalksLeave ==
  ASSUME TypeOK, Talks, NEW p \in Peers, NEW m, Leave(p, m), UNCHANGED <<peers, toRabbit>>,
         \A q \in Peers \ {p} : embryos'[q] = embryos[q],
         Talk(p, m.conn, m.up, peers[p], toRabbit[p], toPeer[p] \cup m.out, embryos'[p]),
         Speaks(hsrv[p], m.up, peers[p]), Orderly(hsrv[p], m.up, peers[p])
  PROVE  Talks' /\ Acts
  <1>1. /\ conns'[p] = m.conn /\ hsrv'[p] = m.up /\ toPeer'[p] = toPeer[p] \cup m.out
        /\ \A q \in Peers \ {p} : /\ conns'[q] = conns[q] /\ hsrv'[q] = hsrv[q]
                                  /\ toPeer'[q] = toPeer[q]
    BY DEF Leave, TypeOK
  <1>2. ASSUME NEW q \in Peers
        PROVE  Talk(q, conns'[q], hsrv'[q], peers'[q], toRabbit'[q], toPeer'[q], embryos'[q])
    <2>1. CASE q = p
      BY <1>1, <2>1, Zenon
    <2>2. CASE q # p
      BY <1>1, <2>2, Zenon DEF Talks
    <2>. QED  BY <2>1, <2>2
  <1>3. Talks'
    BY <1>2 DEF Talks
  <1>4. Acts
    BY <1>1 DEF Acts
  <1>. QED  BY <1>3, <1>4

\* What a peer sends concerns its own talk only.
LEMMA TalksPeer ==
  ASSUME TypeOK, Talks, NEW p \in Peers, NEW next, NEW segs, PeerSends(p, next, segs),
         Talk(p, conns[p], hsrv[p], next, toRabbit[p] \cup segs, toPeer[p], embryos[p]),
         Hears(hsrv[p].said, peers[p], next)
  PROVE  Talks' /\ Acts
  <1>1. /\ peers'[p] = next /\ toRabbit'[p] = toRabbit[p] \cup segs
        /\ \A q \in Peers \ {p} : peers'[q] = peers[q] /\ toRabbit'[q] = toRabbit[q]
        /\ UNCHANGED <<conns, hsrv, embryos, toPeer>>
    BY DEF PeerSends, TypeOK
  <1>2. ASSUME NEW q \in Peers
        PROVE  Talk(q, conns'[q], hsrv'[q], peers'[q], toRabbit'[q], toPeer'[q], embryos'[q])
    <2>1. CASE q = p
      BY <1>1, <2>1, Zenon
    <2>2. CASE q # p
      BY <1>1, <2>2, Zenon DEF Talks
    <2>. QED  BY <2>1, <2>2
  <1>3. Talks'
    BY <1>2 DEF Talks
  <1>4. Acts
    BY <1>1 DEF Acts
  <1>. QED  BY <1>3, <1>4

\* The types of one peer's part of the state.
LEMMA PartTypes ==
  ASSUME IInv, Talks, NEW p \in Peers
  PROVE  /\ MachineOK(Machine(p)) /\ Machine(p).conn = conns[p] /\ Machine(p).up = hsrv[p]
         /\ Machine(p).out = {} /\ embryos[p] \in 0 .. MaxEmbryos /\ peers[p] \in Peer
         /\ toRabbit[p] \in SUBSET RequestSegments /\ toPeer[p] \in SUBSET ReplySegments
         /\ Talk(p, Machine(p).conn, Machine(p).up, peers[p], toRabbit[p], toPeer[p], embryos[p])
  <1>1. Machine(p).conn = conns[p] /\ Machine(p).up = hsrv[p] /\ Machine(p).out = {}
    BY DEF Machine
  <1>2. Talk(p, conns[p], hsrv[p], peers[p], toRabbit[p], toPeer[p], embryos[p])
    BY DEF Talks
  <1>3. Talk(p, Machine(p).conn, Machine(p).up, peers[p], toRabbit[p], toPeer[p], embryos[p])
    BY <1>1, <1>2, Zenon
  <1>. QED  BY <1>1, <1>3 DEF IInv, TypeOK

\* A segment from p, known or not.
LEMMA TalksRx ==
  ASSUME StreamsApart, IInv, Talks, NEW p \in Peers, Rx(p)
  PROVE  Talks' /\ Acts
  <1>1. PICK s \in toRabbit[p] : RxUnknown(p, s) \/ RxKnown(p, s)
    BY DEF Rx
  <1> DEFINE m == Machine(p)
             e == embryos[p]
  <1>2. /\ MachineOK(m) /\ m.conn = conns[p] /\ m.up = hsrv[p] /\ m.out = {}
        /\ e \in 0 .. MaxEmbryos /\ peers[p] \in Peer /\ toRabbit[p] \in SUBSET RequestSegments
        /\ Talk(p, m.conn, m.up, peers[p], toRabbit[p], toPeer[p], e)
    BY PartTypes
  <1>3. TypeOK
    BY DEF IInv
  <1> HIDE DEF m, e
  <1>4. CASE RxUnknown(p, s)
    <2> DEFINE n == Accept(m, s, Iss(p, e))
    <2>1. Talk(p, n.conn, n.up, peers[p], toRabbit[p], toPeer[p] \cup n.out, e + 1) /\ n.up = m.up
      <3>1. "SYN" \in s.flags /\ conns[p].state = "CLOSED" /\ e < MaxEmbryos
        BY <1>4 DEF RxUnknown, e
      <3>2. m.conn.state = "CLOSED" /\ s \in toRabbit[p]
        BY <1>2, <3>1
      <3>3. Begins(m, n, p, e, peers[p], toRabbit[p], toPeer[p])
        BY <1>2, <3>1, <3>2, TalkAccept
      <3>. QED  BY <3>3 DEF Begins
    <2>2. /\ Leave(p, n) /\ UNCHANGED <<peers, toRabbit>>
          /\ embryos'[p] = e + 1 /\ \A q \in Peers \ {p} : embryos'[q] = embryos[q]
      BY <1>3, <1>4 DEF RxUnknown, m, e, TypeOK
    <2> HIDE DEF n
    <2>3. Talk(p, n.conn, n.up, peers[p], toRabbit[p], toPeer[p] \cup n.out, embryos'[p])
      <3>1. embryos'[p] = e + 1
        BY <2>2
      <3>. QED  BY <2>1, <3>1
    <2>4. Speaks(hsrv[p], n.up, peers[p]) /\ Orderly(hsrv[p], n.up, peers[p])
      BY <1>2, <2>1 DEF Speaks, Orderly
    <2>. QED  BY <1>3, <2>2, <2>3, <2>4, TalksLeave
  <1>5. CASE RxKnown(p, s)
    <2> DEFINE n == Input(m, s)
    <2>1. Keeps(m, n, p, e, peers[p], toRabbit[p], toPeer[p])
      <3>1. conns[p].state # "CLOSED"
        BY <1>5 DEF RxKnown
      <3>. QED  BY <1>2, <3>1, TalkInput
    <2>2. Leave(p, n) /\ UNCHANGED <<embryos, peers, toRabbit>>
      BY <1>5 DEF RxKnown, m
    <2> HIDE DEF n
    <2>3. /\ Talk(p, n.conn, n.up, peers[p], toRabbit[p], toPeer[p] \cup n.out, embryos'[p])
          /\ Speaks(hsrv[p], n.up, peers[p]) /\ Orderly(hsrv[p], n.up, peers[p])
      BY <1>2, <2>1, <2>2, Zenon DEF Keeps, e
    <2>. QED  BY <1>3, <2>2, <2>3, TalksLeave
  <1>. QED  BY <1>1, <1>4, <1>5

\* One pass of the timer: it repeats, or ends; it says nothing new.
LEMMA TalksTick ==
  ASSUME StreamsApart, IInv, Talks, Tick
  PROVE  Talks' /\ Acts
  <1>1. PICK due \in SUBSET InFlight : Timer(due)
    BY DEF Tick
  <1> DEFINE n(q) == Retransmit(Machine(q))
  <1>2. /\ \A q \in Peers : /\ conns'[q] = IF q \in due THEN n(q).conn ELSE conns[q]
                            /\ hsrv'[q] = IF q \in due THEN n(q).up ELSE hsrv[q]
                            /\ toPeer'[q] = IF q \in due THEN toPeer[q] \cup n(q).out ELSE toPeer[q]
        /\ UNCHANGED <<embryos, peers, toRabbit>>
    BY <1>1 DEF Timer
  <1>3. ASSUME NEW q \in Peers
        PROVE  /\ Keeps(Machine(q), n(q), q, embryos[q], peers[q], toRabbit[q], toPeer[q])
               /\ n(q).up.said = hsrv[q].said /\ Machine(q).up = hsrv[q]
    <2> DEFINE m == Machine(q)
    <2>1. /\ MachineOK(m) /\ m.up = hsrv[q] /\ m.out = {} /\ embryos[q] \in 0 .. MaxEmbryos
          /\ peers[q] \in Peer
          /\ Talk(q, m.conn, m.up, peers[q], toRabbit[q], toPeer[q], embryos[q])
      BY PartTypes
    <2>2. m \in Machines
      BY <2>1 DEF MachineOK
    <2> HIDE DEF m
    <2>3. Keeps(m, Retransmit(m), q, embryos[q], peers[q], toRabbit[q], toPeer[q])
      BY <2>1, TalkRetransmit
    <2>4. Retransmit(m).up.said = m.up.said
      <3>1. CASE m.conn.retries + 1 > MaxRetries
        <4>1. "ERROR" \in {"CLOSED", "ERROR"}
          OBVIOUS
        <4>. QED  BY <2>2, <3>1, <4>1, Died DEF Retransmit
      <3>2. CASE ~(m.conn.retries + 1 > MaxRetries)
        BY <2>2, <3>2 DEF Retransmit, Machines
      <3>. QED  BY <3>1, <3>2
    <2>. QED  BY <2>1, <2>3, <2>4 DEF m
  <1> HIDE DEF n
  <1>4. ASSUME NEW q \in Peers
        PROVE  /\ Talk(q, conns'[q], hsrv'[q], peers'[q], toRabbit'[q], toPeer'[q], embryos'[q])
               /\ hsrv'[q].said = hsrv[q].said /\ Orderly(hsrv[q], hsrv'[q], peers[q])
    <2>1. CASE q \in due
      <3>1. conns'[q] = n(q).conn /\ hsrv'[q] = n(q).up /\ toPeer'[q] = toPeer[q] \cup n(q).out
        BY <1>2, <2>1
      <3>2. /\ Talk(q, n(q).conn, n(q).up, peers[q], toRabbit[q], toPeer[q] \cup n(q).out, embryos[q])
            /\ Orderly(hsrv[q], n(q).up, peers[q]) /\ n(q).up.said = hsrv[q].said
        BY <1>3, Zenon DEF Keeps
      <3>. QED  BY <1>2, <3>1, <3>2, Zenon
    <2>2. CASE q \notin due
      <3>1. conns'[q] = conns[q] /\ hsrv'[q] = hsrv[q] /\ toPeer'[q] = toPeer[q]
        BY <1>2, <2>2
      <3>2. Talk(q, conns[q], hsrv[q], peers[q], toRabbit[q], toPeer[q], embryos[q])
        BY DEF Talks
      <3>. QED  BY <1>2, <3>1, <3>2, Zenon DEF Orderly
    <2>. QED  BY <2>1, <2>2
  <1>5. Talks'
    BY <1>4 DEF Talks
  <1>6. Acts
    BY <1>2, <1>4 DEF Acts
  <1>. QED  BY <1>5, <1>6

\* What a peer is to its connection.
LEMMA PeerKinds ==
  ASSUME IInv, Talks, NEW p \in Peers
  PROVE  LET heardOf == Unheard(p, conns[p], hsrv[p], peers[p], toRabbit[p], toPeer[p], embryos[p])
             reads(k) == Reads(p, conns[p], hsrv[p], peers[p], toRabbit[p], toPeer[p], embryos[p], k)
         IN /\ peers[p].state \in {"idle", "syn"} => heardOf
            /\ peers[p].state = "open" => \E k \in 0 .. embryos[p] - 1 : reads(k)
            /\ heardOf \/ \E k \in 0 .. embryos[p] - 1 : reads(k)
  <1>1. Talk(p, conns[p], hsrv[p], peers[p], toRabbit[p], toPeer[p], embryos[p])
    BY DEF Talks
  <1>. QED  BY <1>1 DEF Talk, Unheard, Reads

\* A step of p alone that says an opening, before it has heard of a connection.
LEMMA PeerOpens ==
  ASSUME IInv, Talks, NEW p \in Peers,
         Unheard(p, conns[p], hsrv[p], peers[p], toRabbit[p], toPeer[p], embryos[p]),
         NEW next \in Peer, next.state \in {"idle", "syn", "over"},
         next.got = peers[p].got, next.eof = peers[p].eof, next.sent = peers[p].sent,
         next.fin = peers[p].fin,
         NEW segs, \A s \in segs : Opening(s), PeerSends(p, next, segs)
  PROVE  Talks' /\ Acts
  <1>1. Talk(p, conns[p], hsrv[p], next, toRabbit[p] \cup segs, toPeer[p], embryos[p])
    <2>1. /\ Talk(p, conns[p], hsrv[p], peers[p], toRabbit[p], toPeer[p], embryos[p])
          /\ peers[p] \in Peer
      BY DEF Talks, IInv, TypeOK
    <2>. QED  BY <2>1, TalkOpens
  <1>2. Hears(hsrv[p].said, peers[p], next) /\ TypeOK
    BY DEF Hears, IInv
  <1>. QED  BY <1>1, <1>2, TalksPeer

\* A step of p alone that says more, on a connection whose stream it reads.
LEMMA PeerSays ==
  ASSUME IInv, Talks, NEW p \in Peers, NEW k \in 0 .. embryos[p] - 1,
         Reads(p, conns[p], hsrv[p], peers[p], toRabbit[p], toPeer[p], embryos[p], k),
         NEW next \in Peer, next.state \in {"open", "over"}, next.req = peers[p].req,
         next.got = peers[p].got, next.eof = peers[p].eof, next.rcv = peers[p].rcv,
         peers[p].sent <= next.sent, next.sent <= Len(peers[p].req),
         peers[p].fin => next.fin /\ next.sent = peers[p].sent,
         NEW segs, \A s \in segs : Asked(next, s) /\ ("ACK" \in s.flags => s.ack = peers[p].rcv),
         PeerSends(p, next, segs)
  PROVE  Talks' /\ Acts
  <1>0. /\ Talk(p, conns[p], hsrv[p], peers[p], toRabbit[p], toPeer[p], embryos[p])
        /\ peers[p] \in Peer /\ toRabbit[p] \in SUBSET RequestSegments
    BY DEF Talks, IInv, TypeOK
  <1>1. GoesOn(peers[p], next)
    <2>1. Heard(next) = Heard(peers[p]) /\ Heard(peers[p]) <= Heard(peers[p])
      BY <1>0, HeardNat DEF Heard
    <2>. QED  BY <2>1 DEF GoesOn
  <1>2. Talk(p, conns[p], hsrv[p], next, toRabbit[p] \cup segs, toPeer[p], embryos[p])
    BY <1>0, <1>1, TalkSays
  <1>3. Hears(hsrv[p].said, peers[p], next) /\ TypeOK
    BY DEF Hears, IInv
  <1>. QED  BY <1>2, <1>3, TalksPeer

\* What a peer becomes is a peer.
LEMMA PeerNext ==
  ASSUME IInv, IInv', NEW p \in Peers, NEW next, NEW segs, PeerSends(p, next, segs)
  PROVE  next \in Peer
  <1>1. peers'[p] = next /\ peers'[p] \in Peer
    BY DEF PeerSends, IInv, TypeOK
  <1>. QED  BY <1>1

\* A step a peer takes by itself.
LEMMA TalksPeerStep ==
  ASSUME IInv, IInv', Talks, NEW p \in Peers,
         \/ PeerConnect(p) \/ PeerWrite(p) \/ PeerFin(p) \/ PeerAbort(p) \/ PeerForget(p)
  PROVE  Talks' /\ Acts
  <1>1. /\ peers[p] \in Peer /\ peers[p].sent \in Nat /\ peers[p].req \in Seq(RequestUnits)
        /\ Len(peers[p].req) \in Nat /\ peers[p].sent <= Len(peers[p].req)
    BY ServerAssumption, EmptySeq, LenProperties DEF IInv, TypeOK, Peer, Talks, Talk
  <1>2. /\ peers[p].state \in {"idle", "syn"} =>
             Unheard(p, conns[p], hsrv[p], peers[p], toRabbit[p], toPeer[p], embryos[p])
        /\ peers[p].state = "open" => \E k \in 0 .. embryos[p] - 1 :
             Reads(p, conns[p], hsrv[p], peers[p], toRabbit[p], toPeer[p], embryos[p], k)
    BY PeerKinds
  <1>3. Opening(Reset) /\ "ACK" \notin Reset.flags
    BY DEF Reset, Seg, Opening
  <1>4. CASE PeerConnect(p)
    <2>1. PICK req \in Requests :
             PeerSends(p, [peers[p] EXCEPT !.state = "syn", !.req = req],
                       {Seg({"SYN"}, PeerIss, 0, <<>>)})
      BY <1>4 DEF PeerConnect
    <2> DEFINE next == [peers[p] EXCEPT !.state = "syn", !.req = req]
               segs == {Seg({"SYN"}, PeerIss, 0, <<>>)}
    <2>2. next \in Peer
      BY <2>1, PeerNext
    <2>3. /\ next.state = "syn" /\ next.got = peers[p].got /\ next.eof = peers[p].eof
          /\ next.sent = peers[p].sent /\ next.fin = peers[p].fin
      BY <1>1 DEF Peer
    <2>4. \A s \in segs : Opening(s)
      BY DEF Seg, Opening
    <2>5. Unheard(p, conns[p], hsrv[p], peers[p], toRabbit[p], toPeer[p], embryos[p])
      BY <1>2, <1>4 DEF PeerConnect
    <2>6. PeerSends(p, next, segs)
      BY <2>1
    <2> HIDE DEF next, segs
    <2>. QED  BY <2>2, <2>3, <2>4, <2>5, <2>6, PeerOpens
  <1>5. CASE PeerWrite(p)
    <2>1. PICK n \in 1 .. Len(peers[p].req) - peers[p].sent :
             PeerSends(p, [peers[p] EXCEPT !.sent = @ + n],
                       {Seg({"ACK", "PSH"}, PeerNxt(p), peers[p].rcv,
                            SubSeq(peers[p].req, peers[p].sent + 1, peers[p].sent + n))})
      BY <1>5 DEF PeerWrite
    <2> DEFINE a == peers[p].sent
               data == SubSeq(peers[p].req, a + 1, a + n)
               f == Seg({"ACK", "PSH"}, PeerNxt(p), peers[p].rcv, data)
               next == [peers[p] EXCEPT !.sent = @ + n]
    <2>2. next \in Peer
      BY <2>1, PeerNext
    <2>3. /\ next.state = "open" /\ next.got = peers[p].got /\ next.eof = peers[p].eof
          /\ next.rcv = peers[p].rcv /\ next.req = peers[p].req /\ next.sent = a + n
          /\ next.fin = peers[p].fin /\ ~peers[p].fin
      BY <1>1, <1>5 DEF Peer, PeerWrite
    <2>4. PICK k \in 0 .. embryos[p] - 1 :
            Reads(p, conns[p], hsrv[p], peers[p], toRabbit[p], toPeer[p], embryos[p], k)
      BY <1>2, <1>5 DEF PeerWrite
    <2>5. PeerSends(p, next, {f})
      BY <2>1
    <2>6. a \in Nat /\ n \in Nat /\ a + n <= Len(peers[p].req) /\ a <= a + n /\ a \in 0 .. a + n
      BY <1>1
    <2>7. Len(data) = n
      <3>1. a + 1 \in Int /\ a + n \in Int /\ (a + n) - (a + 1) + 1 = n
        BY <2>6
      <3> HIDE DEF a
      <3>2. \A i \in a + 1 .. a + n : peers[p].req[i] \in RequestUnits
        BY <1>1, <2>6, ElementOfSeq
      <3>. QED  BY <1>1, <2>6, <3>1, <3>2, SubSeqProperties
    <2>8. f.flags = {"ACK", "PSH"} /\ f.data = data /\ f.ack = peers[p].rcv /\ f.seq = SeqAdd(PeerIss, 1 + a)
      <3>1. f.seq = PeerNxt(p) /\ 1 + a + 0 = 1 + a
        BY <2>6 DEF Seg
      <3>2. PeerNxt(p) = SeqAdd(PeerIss, 1 + a + 0)
        BY <2>3 DEF PeerNxt
      <3>. QED  BY <3>1, <3>2 DEF Seg
    <2> HIDE DEF next, f
    <2>9. Asked(next, f)
      <3>1. /\ a \in 0 .. next.sent /\ a + Len(f.data) <= next.sent
            /\ f.data = SubSeq(next.req, a + 1, a + Len(f.data))
        <4>1. f.data = data /\ Len(f.data) = n /\ next.req = peers[p].req
          BY <2>3, <2>7, <2>8, Zenon
        <4>2. f.data = SubSeq(next.req, a + 1, a + n)
          BY <4>1
        <4> HIDE DEF a, data
        <4>3. a \in 0 .. next.sent /\ a + Len(f.data) <= next.sent
          <5>1. next.sent = a + n
            BY <2>3
          <5>. QED  BY <2>6, <4>1, <5>1
        <4>. QED  BY <4>1, <4>2, <4>3
      <3> HIDE DEF a, data
      <3>. QED  BY <2>8, <3>1 DEF Asked
    <2> HIDE DEF a, data
    <2>10. /\ peers[p].sent <= next.sent /\ next.sent <= Len(peers[p].req)
           /\ peers[p].fin => next.fin /\ next.sent = peers[p].sent
      BY <2>3, <2>6 DEF a
    <2>. QED  BY <2>2, <2>3, <2>4, <2>5, <2>8, <2>9, <2>10, PeerSays
  <1>6. CASE PeerFin(p)
    <2> DEFINE f == Seg({"ACK", "FIN"}, PeerNxt(p), peers[p].rcv, <<>>)
               next == [peers[p] EXCEPT !.fin = TRUE]
    <2>1. PeerSends(p, next, {f})
      BY <1>6 DEF PeerFin
    <2>2. next \in Peer
      BY <2>1, PeerNext
    <2>3. /\ next.state = "open" /\ next.got = peers[p].got /\ next.eof = peers[p].eof
          /\ next.rcv = peers[p].rcv /\ next.req = peers[p].req /\ next.sent = peers[p].sent
          /\ next.fin /\ ~peers[p].fin
      BY <1>1, <1>6 DEF Peer, PeerFin
    <2>4. PICK k \in 0 .. embryos[p] - 1 :
            Reads(p, conns[p], hsrv[p], peers[p], toRabbit[p], toPeer[p], embryos[p], k)
      BY <1>2, <1>6 DEF PeerFin
    <2>5. /\ f.flags = {"ACK", "FIN"} /\ f.data = <<>> /\ f.ack = peers[p].rcv
          /\ f.seq = SeqAdd(PeerIss, 1 + peers[p].sent)
      <3>1. PeerNxt(p) = SeqAdd(PeerIss, 1 + peers[p].sent + 0)
        BY <2>3 DEF PeerNxt
      <3>2. 1 + peers[p].sent + 0 = 1 + peers[p].sent
        BY <1>1
      <3>. QED  BY <3>1, <3>2 DEF Seg
    <2> HIDE DEF next, f
    <2>6. Asked(next, f)
      BY <2>3, <2>5 DEF Asked
    <2>7. peers[p].sent <= next.sent /\ next.sent <= Len(peers[p].req)
      BY <1>1, <2>3
    <2>. QED  BY <2>1, <2>2, <2>3, <2>4, <2>5, <2>6, <2>7, PeerSays
  <1>7. ASSUME NEW segs, \A s \in segs : s = Reset,
               PeerSends(p, [peers[p] EXCEPT !.state = "over"], segs),
               peers[p].state \in {"syn", "open"}
        PROVE  Talks' /\ Acts
    <2> DEFINE next == [peers[p] EXCEPT !.state = "over"]
    <2>1. next \in Peer /\ PeerSends(p, next, segs)
      BY <1>7, PeerNext
    <2>2. /\ next.state = "over" /\ next.got = peers[p].got /\ next.eof = peers[p].eof
          /\ next.rcv = peers[p].rcv /\ next.req = peers[p].req /\ next.sent = peers[p].sent
          /\ next.fin = peers[p].fin
      BY <1>1 DEF Peer
    <2> HIDE DEF next
    <2>3. CASE peers[p].state = "syn"
      <3>1. Unheard(p, conns[p], hsrv[p], peers[p], toRabbit[p], toPeer[p], embryos[p])
        BY <1>2, <2>3
      <3>2. \A s \in segs : Opening(s)
        BY <1>3, <1>7
      <3>. QED  BY <2>1, <2>2, <3>1, <3>2, PeerOpens
    <2>4. CASE peers[p].state = "open"
      <3>1. PICK k \in 0 .. embryos[p] - 1 :
              Reads(p, conns[p], hsrv[p], peers[p], toRabbit[p], toPeer[p], embryos[p], k)
        BY <1>2, <2>4
      <3>2. \A s \in segs : Asked(next, s) /\ ("ACK" \in s.flags => s.ack = peers[p].rcv)
        BY <1>3, <1>7 DEF Asked
      <3>3. peers[p].sent <= next.sent /\ next.sent <= Len(peers[p].req)
        BY <1>1, <2>2
      <3>. QED  BY <2>1, <2>2, <3>1, <3>2, <3>3, PeerSays
    <2>. QED  BY <1>7, <2>3, <2>4
  <1>8. CASE PeerAbort(p)
    <2>1. \E segs \in {{Reset}, {}} : /\ PeerSends(p, [peers[p] EXCEPT !.state = "over"], segs)
                                      /\ peers[p].state \in {"syn", "open"}
      BY <1>8 DEF PeerAbort
    <2>. QED  BY <1>7, <2>1
  <1>9. CASE PeerForget(p)
    <2>1. /\ PeerSends(p, [peers[p] EXCEPT !.state = "over"], {})
          /\ peers[p].state \in {"syn", "open"}
      BY <1>9 DEF PeerForget
    <2>. QED  BY <1>7, <2>1
  <1>. QED  BY <1>4, <1>5, <1>6, <1>8, <1>9

\* A peer reading a segment of the rabbit's.
LEMMA TalksPeerRx ==
  ASSUME StreamsApart, IInv, IInv', Talks, NEW p \in Peers, PeerRx(p)
  PROVE  Talks' /\ Acts
  <1>1. PICK s \in toPeer[p] : \/ PeerSynAck(p, s) \/ PeerTake(p, s)
                               \/ PeerReAck(p, s)  \/ PeerRefuse(p, s)
    BY DEF PeerRx
  <1> DEFINE m == Machine(p)
  <1>2. /\ MachineOK(m) /\ m.conn = conns[p] /\ m.up = hsrv[p] /\ embryos[p] \in 0 .. MaxEmbryos
        /\ peers[p] \in Peer /\ toRabbit[p] \in SUBSET RequestSegments
        /\ Talk(p, m.conn, m.up, peers[p], toRabbit[p], toPeer[p], embryos[p])
    BY PartTypes
  <1>3. TypeOK
    BY DEF IInv
  <1> HIDE DEF m
  <1>4. /\ peers[p].state = "syn" =>
             Unheard(p, conns[p], hsrv[p], peers[p], toRabbit[p], toPeer[p], embryos[p])
        /\ peers[p].state = "open" => \E k \in 0 .. embryos[p] - 1 :
             Reads(p, conns[p], hsrv[p], peers[p], toRabbit[p], toPeer[p], embryos[p], k)
        /\ \/ Unheard(p, conns[p], hsrv[p], peers[p], toRabbit[p], toPeer[p], embryos[p])
           \/ \E k \in 0 .. embryos[p] - 1 :
             Reads(p, conns[p], hsrv[p], peers[p], toRabbit[p], toPeer[p], embryos[p], k)
    BY PeerKinds
  <1>5. CASE PeerSynAck(p, s)
    <2> DEFINE rcv == SeqAdd(s.seq, 1)
               f == Seg({"ACK"}, PeerNxt(p), rcv, <<>>)
               next == [peers[p] EXCEPT !.state = "open", !.rcv = rcv]
    <2>1. PeerSends(p, next, {f})
      BY <1>5 DEF PeerSynAck
    <2>2. next \in Peer
      BY <2>1, PeerNext
    <2>3. /\ next.state = "open" /\ next.got = peers[p].got /\ next.eof = peers[p].eof
          /\ next.rcv = rcv /\ next.req = peers[p].req /\ next.sent = peers[p].sent
          /\ next.fin = peers[p].fin
      BY <1>2 DEF Peer
    <2>4. f.flags = {"ACK"} /\ f.data = <<>> /\ f.ack = next.rcv
      BY <2>3 DEF Seg
    <2>5. Unheard(p, m.conn, m.up, peers[p], toRabbit[p], toPeer[p], embryos[p])
      BY <1>2, <1>4, <1>5, Zenon DEF PeerSynAck
    <2>6. {"SYN", "ACK"} \subseteq s.flags
      BY <1>5 DEF PeerSynAck
    <2> HIDE DEF next, f
    <2>7. Talk(p, m.conn, m.up, next, toRabbit[p] \cup {f}, toPeer[p], embryos[p])
      BY <1>2, <2>2, <2>3, <2>4, <2>5, <2>6, TalkSynAck
    <2>8. Hears(hsrv[p].said, peers[p], next)
      BY <2>3 DEF Hears
    <2>. QED  BY <1>2, <1>3, <2>1, <2>7, <2>8, TalksPeer
  <1>6. CASE PeerTake(p, s)
    <2> DEFINE rcv == SeqAdd(s.seq, SeqLen(s.flags, s.data))
               f == Seg({"ACK"}, PeerNxt(p), rcv, <<>>)
               next == [peers[p] EXCEPT !.rcv = rcv, !.got = @ \o s.data,
                                        !.eof = @ \/ "FIN" \in s.flags]
    <2>1. PeerSends(p, next, {f})
      BY <1>6 DEF PeerTake
    <2>2. next \in Peer
      BY <2>1, PeerNext
    <2>3. /\ next.state = "open" /\ next.got = peers[p].got \o s.data
          /\ next.eof = (peers[p].eof \/ "FIN" \in s.flags)
          /\ next.rcv = rcv /\ next.req = peers[p].req /\ next.sent = peers[p].sent
          /\ next.fin = peers[p].fin
      BY <1>2, <1>6 DEF Peer, PeerTake
    <2>4. f.flags = {"ACK"} /\ f.data = <<>> /\ f.ack = next.rcv
      BY <2>3 DEF Seg
    <2>5. PICK k \in 0 .. embryos[p] - 1 :
             Reads(p, m.conn, m.up, peers[p], toRabbit[p], toPeer[p], embryos[p], k)
      BY <1>2, <1>4, <1>6, Zenon DEF PeerTake
    <2>6. s.seq = peers[p].rcv /\ SeqLen(s.flags, s.data) > 0
      BY <1>6 DEF PeerTake
    <2> HIDE DEF next, f
    <2>7. Taken(peers[p], next, s, f)
      BY <2>3, <2>4, <2>6, Zenon DEF Taken
    <2>8. Took(p, m, peers[p], next, toRabbit[p] \cup {f}, toPeer[p], embryos[p])
      BY <1>2, <2>2, <2>5, <2>7, TalkTake
    <2>. QED  BY <1>2, <1>3, <2>1, <2>8, TalksPeer DEF Took
  <1>7. ASSUME NEW f, PeerSends(p, peers[p], {f}),
               NEW k \in 0 .. embryos[p] - 1,
               Reads(p, conns[p], hsrv[p], peers[p], toRabbit[p], toPeer[p], embryos[p], k),
               Asked(peers[p], f), "ACK" \in f.flags => f.ack = peers[p].rcv
        PROVE  Talks' /\ Acts
    <2>1. /\ peers[p].state \in {"open", "over"} /\ peers[p].sent <= Len(peers[p].req)
          /\ peers[p].sent \in Nat
      BY <1>2, <1>7 DEF Reads, Talk, Peer
    <2>2. peers[p].sent <= peers[p].sent
      BY <2>1
    <2>3. \A g \in {f} : Asked(peers[p], g) /\ ("ACK" \in g.flags => g.ack = peers[p].rcv)
      BY <1>7
    <2>. QED  BY <1>2, <1>7, <2>1, <2>2, <2>3, PeerSays
  <1>8. CASE PeerReAck(p, s)
    <2> DEFINE f == Seg({"ACK"}, PeerNxt(p), peers[p].rcv, <<>>)
    <2>1. PeerSends(p, peers[p], {f}) /\ peers[p].state = "open"
      BY <1>8 DEF PeerReAck
    <2>2. Asked(peers[p], f) /\ f.ack = peers[p].rcv
      BY DEF Asked, Seg
    <2> HIDE DEF f
    <2>. QED  BY <1>4, <1>7, <2>1, <2>2
  <1>9. CASE PeerRefuse(p, s)
    <2>1. PeerSends(p, peers[p], {Reset}) /\ peers[p].state = "over"
      BY <1>9 DEF PeerRefuse
    <2>2. Opening(Reset) /\ Asked(peers[p], Reset) /\ "ACK" \notin Reset.flags
      BY DEF Reset, Seg, Opening, Asked
    <2>3. CASE Unheard(p, conns[p], hsrv[p], peers[p], toRabbit[p], toPeer[p], embryos[p])
      <3>1. \A g \in {Reset} : Opening(g)
        BY <2>2
      <3>. QED  BY <1>2, <2>1, <2>3, <3>1, PeerOpens
    <2>4. CASE \E k \in 0 .. embryos[p] - 1 :
                 Reads(p, conns[p], hsrv[p], peers[p], toRabbit[p], toPeer[p], embryos[p], k)
      BY <1>7, <2>1, <2>2, <2>4
    <2>. QED  BY <1>4, <2>3, <2>4
  <1>. QED  BY <1>1, <1>5, <1>6, <1>8, <1>9

\* Nobody has said anything at first.
LEMMA TalksInit == Init => Talks
  <1> SUFFICES ASSUME Init, NEW p \in Peers
               PROVE  Talk(p, conns[p], hsrv[p], peers[p], toRabbit[p], toPeer[p], embryos[p])
    BY DEF Talks
  <1>1. /\ conns[p] = NoConn /\ hsrv[p] = NoHsrv /\ peers[p] = NewPeer
        /\ toRabbit[p] = {} /\ toPeer[p] = {}
    BY DEF Init
  <1>2. Len(NewPeer.req) = 0
    BY EmptySeq DEF NewPeer
  <1>. QED  BY <1>1, <1>2 DEF Talk, Unheard, NoConn, NewConn, NoHsrv, NewPeer

\* Every step keeps the talks, and is one of those the applications may see.
LEMMA TalksNext == StreamsApart /\ IInv /\ Talks /\ [Next]_vars => Talks' /\ Acts
  <1> SUFFICES ASSUME StreamsApart, IInv, Talks, [Next]_vars PROVE Talks' /\ Acts
    OBVIOUS
  <1>1. IInv'
    BY NextOK
  <1>2. CASE UNCHANGED vars
    BY <1>2 DEF vars, Talks, Acts, Orderly
  <1>3. CASE Tick
    BY <1>3, TalksTick
  <1>4. ASSUME NEW p \in Peers,
               \/ Rx(p) \/ PeerRx(p) \/ PeerConnect(p) \/ PeerWrite(p) \/ PeerFin(p)
               \/ PeerAbort(p) \/ PeerForget(p)
        PROVE  Talks' /\ Acts
    BY <1>1, <1>4, TalksRx, TalksPeerRx, TalksPeerStep
  <1>. QED  BY <1>2, <1>3, <1>4 DEF Next

-----------------------------------------------------------------------------
(* The theorems of the two ends.                                             *)

\* What is said stays in step with what is read.
THEOREM TalksHold == ASSUME StreamsApart PROVE Spec => []Talks
  <1>1. Init => IInv /\ Talks
    BY InitOK, TalksInit
  <1>2. (IInv /\ Talks) /\ [Next]_vars => (IInv /\ Talks)'
    BY NextOK, TalksNext
  <1>3. IInv /\ Talks => Talks
    OBVIOUS
  <1>. QED  BY <1>1, <1>2, <1>3, PTL DEF Spec

\* What the rabbit has acknowledged of a request it has not answered is in the
\* server's buffer, in order and without a gap.
LEMMA TalkBuffers == IInv /\ Talks => NoRequestByteLost
  <1> SUFFICES ASSUME IInv, Talks, NEW p \in Peers, conns[p].state = "ESTAB", ~hsrv[p].done
               PROVE  /\ conns[p].rcv_nxt = SeqAdd(PeerIss, 1 + Len(hsrv[p].buf))
                      /\ hsrv[p].buf = SubSeq(peers[p].req, 1, Len(hsrv[p].buf))
    BY DEF NoRequestByteLost
  <1>1. /\ peers[p] \in Peer /\ peers[p].req \in Seq(RequestUnits) /\ Len(peers[p].req) \in Nat
        /\ peers[p].sent <= Len(peers[p].req) /\ peers[p].sent \in Nat
    BY ServerAssumption, EmptySeq, LenProperties DEF IInv, TypeOK, Peer, Talks, Talk
  <1>2. Takes(conns[p], hsrv[p], peers[p])
    BY DEF Talks, Talk, Unheard, Reads, Past, Present, Embryo
  <1>3. PICK n \in 0 .. peers[p].sent : /\ conns[p].rcv_nxt = SeqAdd(PeerIss, 1 + n)
                                        /\ hsrv[p].buf = SubSeq(peers[p].req, 1, n)
    BY <1>2 DEF Takes
  <1>4. Len(SubSeq(peers[p].req, 1, n)) = n
    <2>1. n \in Nat /\ n <= Len(peers[p].req) /\ n - 1 + 1 = n
      BY <1>1, <1>3
    <2>2. \A i \in 1 .. n : peers[p].req[i] \in RequestUnits
      BY <1>1, <2>1, ElementOfSeq
    <2>. QED  BY <1>1, <2>1, <2>2, SubSeqProperties
  <1>. QED  BY <1>3, <1>4, Zenon

\* No byte of a request is acknowledged and lost, for every set of peers and their
\* requests, cap, modulus and number of embryos.
THEOREM NoRequestByteLostHolds == ASSUME StreamsApart PROVE Spec => []NoRequestByteLost
  <1>1. IInv /\ Talks => NoRequestByteLost
    BY TalkBuffers
  <1>. QED  BY <1>1, Invariance, TalksHold, PTL

\* When the server hears CLOSED, the peer has read all the server ever wrote.
THEOREM OrderlyCloseDeliveredHolds == ASSUME StreamsApart PROVE Spec => OrderlyCloseDelivered
  <1>1. IInv /\ Talks /\ [Next]_vars =>
          [\A p \in Peers : hsrv[p].known /\ ~hsrv'[p].known /\ hsrv'[p].ended = "CLOSED"
                              => peers[p].got = hsrv[p].said]_vars
    <2> SUFFICES ASSUME IInv, Talks, [Next]_vars, NEW p \in Peers,
                        hsrv[p].known, ~hsrv'[p].known, hsrv'[p].ended = "CLOSED"
                 PROVE  peers[p].got = hsrv[p].said
      OBVIOUS
    <2>1. Acts
      BY TalksNext
    <2>2. Orderly(hsrv[p], hsrv'[p], peers[p])
      BY <2>1 DEF Acts, Orderly
    <2>. QED  BY <2>2 DEF Orderly
  <1>. QED  BY <1>1, Invariance, TalksHold, PTL DEF Spec, OrderlyCloseDelivered

\* A step, as the exchange has it: the server answers a peer that has not seen
\* the end, a peer reads the next unit or the end, or nothing happens there.
LEMMA ActsRefine == TypeOK /\ TypeOK' /\ Talks /\ Acts => [Exchange!Next]_(Exchange!vars)
  <1> SUFFICES ASSUME TypeOK, TypeOK', Talks, Acts
               PROVE  Exchange!Next \/ UNCHANGED Exchange!vars
    OBVIOUS
  <1> DEFINE said == [q \in Peers |-> hsrv[q].said]
             got == [q \in Peers |-> peers[q].got]
             eof == [q \in Peers |-> peers[q].eof]
             said2 == [q \in Peers |-> hsrv'[q].said]
             got2 == [q \in Peers |-> peers'[q].got]
             eof2 == [q \in Peers |-> peers'[q].eof]
  <1>1. ASSUME said2 = said, got2 = got, eof2 = eof PROVE UNCHANGED Exchange!vars
    BY <1>1 DEF Exchange!vars
  <1>2. CASE peers' = peers /\ \A q \in Peers : hsrv'[q].said = hsrv[q].said
    BY <1>1, <1>2
  <1>3. ASSUME peers' = peers, NEW p \in Peers, Speaks(hsrv[p], hsrv'[p], peers[p]),
               \A q \in Peers \ {p} : hsrv'[q] = hsrv[q]
        PROVE  Exchange!Next \/ UNCHANGED Exchange!vars
    <2>1. CASE hsrv'[p].said = hsrv[p].said
      BY <1>2, <1>3, <2>1
    <2>2. CASE hsrv[p].said = <<>> /\ ~peers[p].eof /\ hsrv'[p].said \in Texts
      <3>1. said2 = [said EXCEPT ![p] = hsrv'[p].said]
        BY <1>3
      <3>2. got2 = got /\ eof2 = eof
        BY <1>3
      <3>3. Exchange!Answer(p)
        BY <2>2, <3>1, <3>2 DEF Exchange!Answer, Texts
      <3>. QED  BY <3>3 DEF Exchange!Next
    <2>. QED  BY <1>3, <2>1, <2>2 DEF Speaks
  <1>4. ASSUME hsrv' = hsrv, NEW p \in Peers, Hears(hsrv[p].said, peers[p], peers'[p]),
               \A q \in Peers \ {p} : peers'[q] = peers[q]
        PROVE  Exchange!Next \/ UNCHANGED Exchange!vars
    <2>0. said2 = said
      BY <1>4
    <2>1. CASE peers'[p].got = peers[p].got /\ peers'[p].eof = peers[p].eof
      <3>1. got2 = got /\ eof2 = eof
        BY <1>4, <2>1
      <3>. QED  BY <1>1, <2>0, <3>1
    <2>2. CASE /\ ~peers[p].eof /\ Len(peers[p].got) < Len(hsrv[p].said)
               /\ peers'[p].got = Append(peers[p].got, hsrv[p].said[Len(peers[p].got) + 1])
               /\ peers'[p].eof = peers[p].eof
      <3>1. got2 = [got EXCEPT ![p] = Append(@, said[p][Len(@) + 1])]
        BY <1>4, <2>2
      <3>2. eof2 = eof
        BY <1>4, <2>2
      <3>3. Exchange!Read(p)
        BY <2>0, <2>2, <3>1, <3>2 DEF Exchange!Read
      <3>. QED  BY <3>3 DEF Exchange!Next
    <2>3. CASE /\ ~peers[p].eof /\ peers[p].got = hsrv[p].said
               /\ peers'[p].got = peers[p].got /\ peers'[p].eof = TRUE
      <3>1. eof2 = [eof EXCEPT ![p] = TRUE]
        BY <1>4, <2>3
      <3>2. got2 = got
        BY <1>4, <2>3
      <3>3. Exchange!End(p)
        BY <2>0, <2>3, <3>1, <3>2 DEF Exchange!End
      <3>. QED  BY <3>3 DEF Exchange!Next
    <2>. QED  BY <1>4, <2>1, <2>2, <2>3 DEF Hears
  <1>. QED  BY <1>2, <1>3, <1>4 DEF Acts

\* What the two applications see is the exchange of HttpExchange.
THEOREM IsAnExchangeHolds == ASSUME StreamsApart PROVE Spec => IsAnExchange
  <1>1. Init => Exchange!Init
    BY DEF Init, Exchange!Init, NoHsrv, NewPeer
  <1>2. IInv /\ Talks /\ [Next]_vars => [Exchange!Next]_(Exchange!vars)
    <2>1. ASSUME IInv, Talks, [Next]_vars PROVE TypeOK /\ TypeOK' /\ Acts
      <3>1. IInv'
        BY <2>1, NextOK
      <3>. QED  BY <2>1, <3>1, TalksNext DEF IInv
    <2>. QED  BY <2>1, ActsRefine
  <1>. QED  BY <1>1, <1>2, Invariance, TalksHold, PTL DEF Spec, IsAnExchange, Exchange!Spec
=============================================================================
