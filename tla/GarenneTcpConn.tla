--------------------------- MODULE GarenneTcpConn ---------------------------
(***************************************************************************)
(* The sending half of the rabbit's TCP (garenne/net/tcp.mtl): one         *)
(* connection record and the operators that write into it.  There is one   *)
(* reliable segment in flight at a time (stop and wait); everything else   *)
(* written waits in a queue of chunks that the acknowledgements drain.     *)
(*                                                                         *)
(* The interpreter is single-threaded, so a call runs to its end before    *)
(* anything else: an operator maps what a call finds to what it leaves.    *)
(* What a call touches is a record, the "machine",                         *)
(*     conn   the connection record (type Tcp),                            *)
(*     out    the segments it has handed to the driver, a set because the  *)
(*            air keeps no order,                                          *)
(*     up     the state the layer above keeps for this connection.         *)
(*                                                                         *)
(* Sequence numbers count units of payload modulo SeqMod (2^32 and bytes   *)
(* in the code).  A chunk of the transmit queue, at most TCP_MSS bytes in  *)
(* the code, is a sequence of units.                                       *)
(***************************************************************************)
EXTENDS Integers, Sequences

CONSTANTS SeqMod,       \* sequence numbers are 0 .. SeqMod - 1
          MaxRetries,   \* TCP_MAX_RETRIES
          Window        \* TCP_WINDOW, the window a new connection advertises

ASSUME TcpAssumption == /\ SeqMod \in Nat /\ SeqMod > 1
                        /\ MaxRetries \in Nat
                        /\ Window \in Nat

\* TCP_CLOSED is the state of a record that is in no table: the absence of
\* the connection from _tcp_conns.
ActiveStates  == {"ARP_WAIT", "SYN_SENT"}
PassiveStates == {"SYN_RCVD"}
OpenStates    == {"ESTAB", "CLOSE_WAIT"}
FinStates     == {"FIN_WAIT_1", "FIN_WAIT_2", "LAST_ACK"}
TcpStates     == {"CLOSED"} \cup ActiveStates \cup PassiveStates
                 \cup OpenStates \cup FinStates

Flags   == {"FIN", "SYN", "RST", "PSH", "ACK"}
SeqNums == 0 .. SeqMod - 1

\* A segment carrying payload from Payloads, as the machine at either end
\* reads it: ports and addresses are the connection it is stored under.
Segments(Payloads) ==
  [flags : SUBSET Flags, seq : SeqNums, ack : SeqNums, wnd : Nat, data : Payloads]

\* Mutant: the carry out of the high half is kept.
SeqAddWide(s, n) == s + n

\* seq_add: the code adds the 16-bit halves with their carry.
SeqAdd(s, n) == (s + n) % SeqMod

\* Sequence space a segment takes: its payload, and one for SYN or FIN.
SeqLen(flags, payload) ==
  Len(payload) + (IF flags \cap {"SYN", "FIN"} # {} THEN 1 ELSE 0)

NewConn(state, snd_nxt, rcv_nxt) ==
  [state |-> state, snd_nxt |-> snd_nxt, rcv_nxt |-> rcv_nxt, unacked |-> {},
   retries |-> 0, txq |-> <<>>, close_after |-> FALSE, rwnd |-> Window,
   rwnd_push |-> FALSE]

NoConn == NewConn("CLOSED", 0, 0)

\* A frame always states what the connection expects next, unless it opens.
Frame(c, flags, payload) ==
  [flags |-> flags, seq |-> c.snd_nxt, ack |-> IF "ACK" \in flags THEN c.rcv_nxt ELSE 0,
   wnd |-> c.rwnd, data |-> payload]

\* Mutant: a SYN or a FIN takes no sequence number.
SentRelFlat(c, flags, payload) ==
  [c EXCEPT !.unacked = {Frame(c, flags, payload)},
            !.retries = 0,
            !.snd_nxt = SeqAdd(@, Len(payload))]

\* The connection after a reliable send: the frame is kept, the count of
\* retransmissions starts over, and snd_nxt moves past what was sent.
SentRel(c, flags, payload) ==
  [c EXCEPT !.unacked = {Frame(c, flags, payload)},
            !.retries = 0,
            !.snd_nxt = SeqAdd(@, SeqLen(flags, payload))]

SendRel(m, flags, payload) ==
  [m EXCEPT !.conn = SentRel(m.conn, flags, payload),
            !.out = @ \cup {Frame(m.conn, flags, payload)}]

SendAck(m) == [m EXCEPT !.out = @ \cup {Frame(m.conn, {"ACK"}, <<>>)}]

\* Mutant: a pending close is honoured before the queue is dry.
TxqKickEagerFin(m) ==
  IF m.conn.state \notin OpenStates \/ m.conn.unacked # {} THEN m
  ELSE IF m.conn.close_after
  THEN SendRel([m EXCEPT !.conn.state = IF @ = "CLOSE_WAIT" THEN "LAST_ACK"
                                        ELSE "FIN_WAIT_1"],
               {"ACK", "FIN"}, <<>>)
  ELSE IF m.conn.txq # <<>>
  THEN SendRel([m EXCEPT !.conn.txq = Tail(@)], {"ACK", "PSH"}, Head(m.conn.txq))
  ELSE m

\* The queue engine: with nothing in flight, the next chunk leaves; once the
\* queue is dry a pending close is honoured with our FIN.
TxqKick(m) ==
  IF m.conn.state \notin OpenStates \/ m.conn.unacked # {} THEN m
  ELSE IF m.conn.txq # <<>>
  THEN SendRel([m EXCEPT !.conn.txq = Tail(@)], {"ACK", "PSH"}, Head(m.conn.txq))
  ELSE IF m.conn.close_after
  THEN SendRel([m EXCEPT !.conn.state = IF @ = "CLOSE_WAIT" THEN "LAST_ACK"
                                        ELSE "FIN_WAIT_1"],
               {"ACK", "FIN"}, <<>>)
  ELSE m

\* tcp_write: chunks is what _tcp_chunks cuts the data into.
TcpWrite(m, chunks) ==
  IF m.conn.state \in OpenStates /\ chunks # <<>>
  THEN TxqKick([m EXCEPT !.conn.txq = @ \o chunks])
  ELSE m

TcpClose(m) ==
  IF m.conn.state \in OpenStates THEN TxqKick([m EXCEPT !.conn.close_after = TRUE]) ELSE m
=============================================================================
