----------------------------- MODULE GarenneTcp -----------------------------
(***************************************************************************)
(* The receiving half of the rabbit's TCP and its timer                    *)
(* (garenne/net/tcp.mtl): what a segment or a tick does to one connection, *)
(* with the callbacks it makes on the way, in the order the code makes     *)
(* them.  An event runs the callback of the layer above at the point       *)
(* where the code calls _tcp_event, so what that layer writes back leaves  *)
(* before the rest of the handler runs.                                    *)
(***************************************************************************)
EXTENDS GarenneHttpServer

\* _tcp_event: the callback a listening connection carries is the server's.
Connected(m)  == HsrvConnected(m)
Data(m, data) == HsrvData(m, data)
Ended(m, ev)  == HsrvEnded(m, ev)

\* _tcp_die: the record leaves the table before the layer above hears of it.
Die(m, ev) == Ended([m EXCEPT !.conn = NoConn], ev)

\* Mutant: any acknowledgement counts for the segment in flight.
AckInLax(m, s) ==
  IF "ACK" \notin s.flags \/ m.conn.unacked = {} THEN m
  ELSE LET acked == [m EXCEPT !.conn.unacked = {}]
       IN CASE m.conn.state = "SYN_RCVD"   -> Connected([acked EXCEPT !.conn.state = "ESTAB"])
            [] m.conn.state = "FIN_WAIT_1" -> [acked EXCEPT !.conn.state = "FIN_WAIT_2"]
            [] m.conn.state = "LAST_ACK"   -> Die(acked, "CLOSED")
            [] OTHER                       -> TxqKick(acked)

\* Mutant: the acknowledgement of a chunk does not pull the next one.
AckInNoKick(m, s) ==
  IF "ACK" \notin s.flags \/ m.conn.unacked = {} \/ s.ack # m.conn.snd_nxt THEN m
  ELSE LET acked == [m EXCEPT !.conn.unacked = {}]
       IN CASE m.conn.state = "SYN_RCVD"   -> Connected([acked EXCEPT !.conn.state = "ESTAB"])
            [] m.conn.state = "FIN_WAIT_1" -> [acked EXCEPT !.conn.state = "FIN_WAIT_2"]
            [] m.conn.state = "LAST_ACK"   -> Die(acked, "CLOSED")
            [] OTHER                       -> acked

\* _tcp_ack_in: with one segment in flight, only an ack of snd_nxt itself
\* says anything, and it says that everything sent has arrived.
AckIn(m, s) ==
  IF "ACK" \notin s.flags \/ m.conn.unacked = {} \/ s.ack # m.conn.snd_nxt THEN m
  ELSE LET acked == [m EXCEPT !.conn.unacked = {}]
       IN CASE m.conn.state = "SYN_RCVD"   -> Connected([acked EXCEPT !.conn.state = "ESTAB"])
            [] m.conn.state = "FIN_WAIT_1" -> [acked EXCEPT !.conn.state = "FIN_WAIT_2"]
            [] m.conn.state = "LAST_ACK"   -> Die(acked, "CLOSED")
            [] OTHER                       -> TxqKick(acked)

\* _tcp_data_in: acknowledge, then deliver.
DataIn(m, s) ==
  IF s.data = <<>> THEN m
  ELSE Data(SendAck([m EXCEPT !.conn.rcv_nxt = SeqAdd(@, Len(s.data))]), s.data)

\* _tcp_fin_in: our FIN rides the ack when nothing is left to send; what is
\* still leaving drains first; any other state has sent its FIN already.
FinIn(m) ==
  LET got == [m EXCEPT !.conn.rcv_nxt = SeqAdd(@, 1)]
  IN IF m.conn.state = "ESTAB" /\ m.conn.unacked = {} /\ m.conn.txq = <<>>
     THEN SendRel([got EXCEPT !.conn.state = "LAST_ACK"], {"ACK", "FIN"}, <<>>)
     ELSE IF m.conn.state = "ESTAB"
     THEN SendAck([got EXCEPT !.conn.state = "CLOSE_WAIT", !.conn.close_after = TRUE])
     ELSE Die(SendAck(got), "CLOSED")

\* The in-order part of tcp_input; m.conn.state is not CLOSED.
InOrder(m, s) ==
  LET fed == DataIn(m, s) IN IF "FIN" \in s.flags THEN FinIn(fed) ELSE fed

\* Mutant: the sequence number is not compared.
InputAnySeq(m, s) ==
  IF "RST" \in s.flags THEN Die(m, "ERROR")
  ELSE LET acked == AckIn(m, s)
       IN IF acked.conn.state = "CLOSED" THEN acked ELSE InOrder(acked, s)

\* tcp_input on a connection in the table that SYN_SENT does not hold: an
\* RST ends it whatever it says, the ack is read before the sequence number,
\* and what is not next in order is answered with our ack.
Input(m, s) ==
  IF "RST" \in s.flags THEN Die(m, "ERROR")
  ELSE LET acked == AckIn(m, s)
       IN IF acked.conn.state = "CLOSED" THEN acked
          ELSE IF s.seq = acked.conn.rcv_nxt THEN InOrder(acked, s)
          ELSE SendAck(acked)

\* _tcp_accept behind its two refusals: the embryo and its SYN+ACK.
Accept(m, s, iss) ==
  SendRel([m EXCEPT !.conn = NewConn("SYN_RCVD", iss, SeqAdd(s.seq, 1))],
          {"SYN", "ACK"}, <<>>)

\* Mutant: the count of retransmissions is never looked at.
RetransmitForever(m) ==
  [m EXCEPT !.conn.retries = IF @ < MaxRetries THEN @ + 1 ELSE @,
            !.out = @ \cup m.conn.unacked]

\* _tcp_tick_conn on a connection whose segment in flight is TCP_RTO_MS old.
Retransmit(m) ==
  IF m.conn.retries + 1 > MaxRetries THEN Die(m, "ERROR")
  ELSE [m EXCEPT !.conn.retries = @ + 1, !.out = @ \cup m.conn.unacked]
=============================================================================
