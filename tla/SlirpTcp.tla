------------------------------ MODULE SlirpTcp ------------------------------
(***************************************************************************)
(* TCP through the user-mode NAT of gui/Emulation/SlirpNat.cs, for one     *)
(* (guest port, remote address, remote port) key.  Two kinds of thread     *)
(* touch a flow.  The emulation thread hands every guest frame to OnTcp,   *)
(* which holds _lock.  A pool thread per flow connects, paces, reads the   *)
(* host socket and sends toward the guest, and takes no lock: it updates   *)
(* _ourSeq, _finSent and Closed while OnTcp reads them.  So OnTcp is three *)
(* steps here and each await, send and field update of the pool thread is  *)
(* a step of its own.  The NAT never retransmits.                          *)
(*                                                                         *)
(* The guest's own TCP and the host's socket are external: the guest sends *)
(* and retransmits as RFC 793 allows, one byte a segment, and uses the ack *)
(* number of a segment even if its sequence number is old.  Byte k of      *)
(* stream i is the pair << i, k >>, which no property lets be confused.    *)
(* Sequence numbers are modulo SeqSpace (2^32).                            *)
(***************************************************************************)
EXTENDS Integers, Sequences

CONSTANTS
  SeqSpace,      \* sequence numbers
  IsnStep,       \* _isnSeed's increment: no connection carries as many bytes
  Window,        \* bytes in flight that pause the receive loop (8192)
  MaxSegment,    \* bytes one ReadAsync returns at most (1460)
  RingDepth,     \* frames waiting for the guest; more are dropped (64)
  GuestIsn,      \* the guest's first initial sequence number
  MaxFlows,      \* bound: TcpFlow objects
  Loads          \* bound: what the guest and the remote host do in a run, see load

ASSUME SeqAssumption == SeqSpace \in Nat \ {0} /\ IsnStep \in Nat /\ GuestIsn \in 0..(SeqSpace - 1)
ASSUME WindowAssumption == Window \in Nat /\ MaxSegment \in Nat \ {0} /\ RingDepth \in Nat
ASSUME BoundAssumption == MaxFlows \in Nat
ASSUME LoadAssumption ==
  Loads \subseteq [remoteBytes : Nat, guestBytes : Nat, connects : Nat, retries : Nat,
            closes : BOOLEAN, aborts : BOOLEAN, stops : BOOLEAN]

\* Initial sequence numbers are IsnStep apart, and so are the guest's (external): a
\* connection that carries fewer bytes each way never meets the numbers of another.
ShortConnections ==
  /\ (MaxFlows + 1) * IsnStep <= SeqSpace
  /\ \A l \in Loads : /\ l.remoteBytes + 2 < IsnStep /\ l.guestBytes + 2 < IsnStep
                      /\ (l.connects + 1) * IsnStep <= SeqSpace

FlowIds == 1..MaxFlows
SeqNos == 0..(SeqSpace - 1)
Flags == {"SYN", "ACK", "FIN", "RST"}

VARIABLES
  load,      \* bytes each side sends, connections, retransmissions, whether the guest may
             \* close or reset a connection, and whether the user may switch networking off
  flows,     \* the TcpFlow objects, in the order they were made
  used,      \* how many there are
  table,     \* the one in _tcp, or 0
  disposed,  \* the NAT is down
  nat,       \* the emulation thread: where it is in OnTcp and the segment it handles
  client,    \* the guest's TCP
  toNat,     \* segments from the guest, in order
  toGuest,   \* segments to the guest, in order
  dropped    \* history: a segment to the guest has been dropped

tcpVars == << load, flows, used, table, disposed, nat, client, toNat, toGuest, dropped >>

\* Mutant: sequence numbers do not wrap.
PlusUnwrapped(a, n) == a + n

Plus(a, n) == (a + n) % SeqSpace
Behind(a, b) == (a - b) % SeqSpace      \* unchecked(a - b)

\* (from is history: the flow, or the guest's connection, that sent it.)
Segment(from, flags, seq, ack, data) ==
  [from |-> from, flags |-> flags, seq |-> seq, ack |-> ack, data |-> data]

NoSegment == Segment(0, {}, 0, 0, << >>)

\* SendTcpToGuest: a frame for which the adapter has no room is dropped.
SendTcpToGuest(i, flags, seq, ack, data) ==
  IF Len(toGuest) < RingDepth
  THEN toGuest' = Append(toGuest, Segment(i, flags, seq, ack, data)) /\ UNCHANGED dropped
  ELSE dropped' = TRUE /\ UNCHANGED toGuest

Quiet == UNCHANGED << toGuest, dropped >>

Ack(i, f) == SendTcpToGuest(i, {"ACK"}, f.ourSeq, f.guestSeq, << >>)

-----------------------------------------------------------------------------
(* OnTcp, on the emulation thread                                          *)

\* (conn is history: the guest's connection whose SYN made the flow.)
NewFlow(seg, ourIsn) ==
  [pc |-> "Connect", ourSeq |-> ourIsn, guestSeq |-> Plus(seg.seq, 1), guestAcked |-> ourIsn,
   finSent |-> FALSE, guestFinSeen |-> FALSE, closed |-> FALSE, stream |-> FALSE,
   conn |-> seg.from, open |-> TRUE, buf |-> << >>, read |-> 0, wrote |-> << >>, shut |-> FALSE]

\* Mutant: every flow starts at the same sequence number.
OurIsnFixed(i) == 0

\* _isnSeed
OurIsn(i) == (i * IsnStep) % SeqSpace

\* A segment for a key that has no flow: only a fresh SYN makes one.
OpenFlow(seg) ==
  IF "SYN" \in seg.flags /\ "ACK" \notin seg.flags /\ used < MaxFlows
  THEN /\ used' = used + 1 /\ table' = used + 1
       /\ flows' = [flows EXCEPT ![used + 1] = NewFlow(seg, OurIsn(used + 1))]
       /\ UNCHANGED nat /\ Quiet
  ELSE UNCHANGED << flows, used, table, nat >> /\ Quiet

\* Dispose closes the socket; the pool thread goes on.
Dispose(i) == /\ flows' = [flows EXCEPT ![i].open = FALSE]
              /\ table' = 0

\* Mutant: data is written wherever it starts.
AcceptsAny(f, seg) == seg.data # << >> /\ f.stream

\* New data, in order, once the socket is connected.
Accepts(f, seg) == seg.data # << >> /\ seg.seq = f.guestSeq /\ f.stream

\* The flow once the guest's ack is noted, once data is written, once its FIN is taken.
Noted(f, seg) == [f EXCEPT !.guestAcked = IF "ACK" \in seg.flags THEN seg.ack ELSE @]
Written(f, seg) == [f EXCEPT !.wrote = IF f.open THEN @ \o seg.data ELSE @,
                             !.guestSeq = Plus(@, Len(seg.data))]
FinTaken(f) == [f EXCEPT !.guestFinSeen = TRUE, !.guestSeq = Plus(@, 1), !.shut = f.open,
                         !.closed = @ \/ f.finSent]

\* OnGuestSegment, first part: the ack, and data in order.
TakeData(i, seg) ==
  LET f == Noted(flows[i], seg)
      g == IF Accepts(f, seg) THEN Written(f, seg) ELSE f
  IN  /\ nat' = [pc |-> "Fin", seg |-> seg]
      /\ flows' = [flows EXCEPT ![i] = g]
      /\ IF Accepts(f, seg) \/ (seg.data # << >> /\ seg.seq # f.guestSeq) THEN Ack(i, g) ELSE Quiet
      /\ UNCHANGED << used, table >>

OnTcp == /\ nat.pc = "Idle" /\ toNat # << >> /\ ~disposed
         /\ toNat' = Tail(toNat)
         /\ LET seg == Head(toNat)
            IN  IF table = 0 THEN OpenFlow(seg)
                ELSE IF "RST" \in seg.flags THEN Dispose(table) /\ UNCHANGED << used, nat >> /\ Quiet
                ELSE TakeData(table, seg)
         /\ UNCHANGED << load, disposed, client >>

\* Second part: the guest's FIN, once everything before it has arrived.
TakesFin(f, seg) == "FIN" \in seg.flags /\ ~f.guestFinSeen /\ Plus(seg.seq, Len(seg.data)) = f.guestSeq

OnTcpFin ==
  LET f == flows[table]
  IN  /\ nat.pc = "Fin"
      /\ nat' = [nat EXCEPT !.pc = "Close"]
      /\ IF TakesFin(f, nat.seg)
         THEN flows' = [flows EXCEPT ![table] = FinTaken(f)] /\ Ack(table, FinTaken(f))
         ELSE UNCHANGED flows /\ Quiet
      /\ UNCHANGED << load, used, table, disposed, client, toNat >>

\* Last part: a flow both sides have finished leaves the table.
OnTcpClose ==
  LET f == flows[table]
      ends == f.finSent /\ f.guestFinSeen /\ nat.seg.ack = f.ourSeq
  IN  /\ nat.pc = "Close"
      /\ nat' = [pc |-> "Idle", seg |-> NoSegment]
      /\ IF ends \/ f.closed
         THEN /\ flows' = [flows EXCEPT ![table].closed = TRUE, ![table].open = FALSE]
              /\ table' = 0
         ELSE UNCHANGED << flows, table >>
      /\ UNCHANGED << load, used, disposed, client, toNat >> /\ Quiet

\* The user switches networking off: SlirpNat.Dispose waits for _lock.
Shutdown == /\ load.stops /\ ~disposed /\ nat.pc = "Idle"
            /\ disposed' = TRUE /\ table' = 0
            /\ flows' = IF table = 0 THEN flows ELSE [flows EXCEPT ![table].open = FALSE]
            /\ UNCHANGED << load, used, nat, client, toNat >> /\ Quiet

-----------------------------------------------------------------------------
(* The pool thread of flow i                                               *)

\* The next step of flow i's thread when it is at from: f becomes the flow.
Pool(i, from, f) == /\ i <= used /\ flows[i].pc = from
                    /\ flows' = [flows EXCEPT ![i] = f]
                    /\ UNCHANGED << load, used, table, disposed, nat, client, toNat >>

At(i, pc) == [flows[i] EXCEPT !.pc = pc]

Connected(i) == /\ flows[i].open
                /\ Pool(i, "Connect", [At(i, "SynAck") EXCEPT !.stream = TRUE])
                /\ Quiet

ConnectFails(i) == /\ Pool(i, "Connect", At(i, "Refused"))
                   /\ SendTcpToGuest(i, {"RST", "ACK"}, 0, flows[i].guestSeq, << >>)

Refused(i) == Pool(i, "Refused", [At(i, "Done") EXCEPT !.closed = TRUE]) /\ Quiet

SendSynAck(i) == /\ Pool(i, "SynAck", At(i, "CountSyn"))
                 /\ SendTcpToGuest(i, {"SYN", "ACK"}, flows[i].ourSeq, flows[i].guestSeq, << >>)

CountSyn(i) == Pool(i, "CountSyn", [At(i, "Pace") EXCEPT !.ourSeq = Plus(@, 1)]) /\ Quiet

\* Mutant: no pacing.
MayReadAlways(f) == TRUE

MayRead(f) == Behind(f.ourSeq, f.guestAcked) <= Window

Pace(i) == MayRead(flows[i]) /\ Pool(i, "Pace", At(i, "Read")) /\ Quiet

Read(i) == \E n \in 1..MaxSegment :
  LET f == flows[i]
  IN  /\ f.open /\ f.read + n <= load.remoteBytes
      /\ Pool(i, "Read", [At(i, "Send") EXCEPT !.read = @ + n,
                                               !.buf = [k \in 1..n |-> << i, f.read + k >>]])
      /\ Quiet

\* The remote host has closed, or the socket fails or has been disposed of.
ReadEnds(i) == Pool(i, "Read", At(i, "Finish")) /\ Quiet

SendData(i) == /\ Pool(i, "Send", At(i, "Count"))
               /\ SendTcpToGuest(i, {"ACK"}, flows[i].ourSeq, flows[i].guestSeq, flows[i].buf)

\* Mutant: a segment counts as one byte.
AdvanceByOne(f) == Plus(f.ourSeq, 1)

AfterData(f) == Plus(f.ourSeq, Len(f.buf))

CountData(i) == /\ Pool(i, "Count", [At(i, "Pace") EXCEPT !.ourSeq = AfterData(flows[i]), !.buf = << >>])
                /\ Quiet

SendFin(i) == /\ Pool(i, "Finish", At(i, "CountFin"))
              /\ SendTcpToGuest(i, {"FIN", "ACK"}, flows[i].ourSeq, flows[i].guestSeq, << >>)

CountFin(i) == Pool(i, "CountFin", [At(i, "MarkFin") EXCEPT !.ourSeq = Plus(@, 1)]) /\ Quiet

MarkFin(i) == Pool(i, "MarkFin", [At(i, "CheckFin") EXCEPT !.finSent = TRUE]) /\ Quiet

CheckFin(i) == /\ Pool(i, "CheckFin", [At(i, "Done") EXCEPT !.closed = @ \/ flows[i].guestFinSeen])
               /\ Quiet

PoolStep(i) == \/ Connected(i) \/ ConnectFails(i) \/ Refused(i) \/ SendSynAck(i) \/ CountSyn(i)
               \/ Pace(i) \/ Read(i) \/ ReadEnds(i) \/ SendData(i) \/ CountData(i)
               \/ SendFin(i) \/ CountFin(i) \/ MarkFin(i) \/ CheckFin(i)

-----------------------------------------------------------------------------
(* The guest's TCP (external)                                              *)

GuestSends(g, segs) == /\ client' = g /\ toNat' = toNat \o segs
                       /\ UNCHANGED << load, flows, used, table, disposed, nat >>

\* The initial sequence number of the guest's connection c.
GuestIss(c) == (GuestIsn + (c - 1) * IsnStep) % SeqSpace

\* The guest's data byte k of its connection, at its sequence number.
DataSeq(g, k) == Plus(g.iss, k)
FinSeq(g) == Plus(g.iss, g.sent + 1)
GuestSyn(g) == Segment(g.connects, {"SYN"}, g.iss, 0, << >>)
GuestAck(g) == Segment(g.connects, {"ACK"}, Plus(FinSeq(g), IF g.fin THEN 1 ELSE 0), g.rcv, << >>)
GuestData(g, k) == Segment(g.connects, {"ACK"}, DataSeq(g, k), g.rcv, << << g.connects, k >> >>)
GuestFin(g) == Segment(g.connects, {"FIN", "ACK"}, FinSeq(g), g.rcv, << >>)
GuestReset(g, seq) == Segment(g.connects, {"RST"}, seq, 0, << >>)

NewConnection(c, retries) ==
  [st |-> "SynSent", connects |-> c, iss |-> GuestIss(c), sent |-> 0, acked |-> 0, fin |-> FALSE,
   finAcked |-> FALSE, rcv |-> 0, got |-> << >>, finRcvd |-> FALSE, retries |-> retries]

GuestConnect == /\ client.st = "Closed" /\ client.connects < load.connects
                /\ LET g == NewConnection(client.connects + 1, client.retries)
                   IN  GuestSends(g, << GuestSyn(g) >>)
                /\ Quiet

GuestWrite == /\ client.st = "Open" /\ ~client.fin /\ client.sent < load.guestBytes
              /\ LET g == [client EXCEPT !.sent = @ + 1] IN GuestSends(g, << GuestData(g, g.sent) >>)
              /\ Quiet

GuestClose == /\ client.st = "Open" /\ ~client.fin /\ load.closes
              /\ GuestSends([client EXCEPT !.fin = TRUE], << GuestFin(client) >>)
              /\ Quiet

\* What the guest sends again: the oldest thing the NAT has not acknowledged.
Oldest(g) == CASE g.st = "SynSent" -> << GuestSyn(g) >>
               [] g.st = "Open" /\ g.acked < g.sent -> << GuestData(g, g.acked + 1) >>
               [] g.st = "Open" /\ g.acked = g.sent /\ g.fin /\ ~g.finAcked -> << GuestFin(g) >>
               [] OTHER -> << >>

GuestRetransmit == /\ client.retries < load.retries /\ Oldest(client) # << >>
                   /\ GuestSends([client EXCEPT !.retries = @ + 1], Oldest(client))
                   /\ Quiet

GuestAbort == /\ load.aborts /\ client.st # "Closed"
              /\ GuestSends([client EXCEPT !.st = "Closed"], << GuestReset(client, FinSeq(client)) >>)
              /\ Quiet

\* What the guest has acknowledged by ack.
Acknowledged(g, ack) ==
  LET n == Behind(ack, Plus(g.iss, 1))
  IN  [g EXCEPT !.acked = IF n <= g.sent /\ n > @ THEN n ELSE IF g.fin /\ n = g.sent + 1 THEN g.sent ELSE @,
                !.finAcked = @ \/ (g.fin /\ n = g.sent + 1)]

\* Both directions are finished: the connection is over.
Settle(g) == IF g.fin /\ g.finAcked /\ g.finRcvd THEN [g EXCEPT !.st = "Closed"] ELSE g

\* A segment for a connection that is gone.
Answer(g, seg) == GuestSends(g, IF "RST" \in seg.flags THEN << >> ELSE << GuestReset(g, seg.ack) >>)

Handshake(g, seg) ==
  IF seg.ack = Plus(g.iss, 1) /\ "RST" \in seg.flags THEN GuestSends([g EXCEPT !.st = "Closed"], << >>)
  ELSE IF seg.ack = Plus(g.iss, 1) /\ "SYN" \in seg.flags
    THEN LET o == [g EXCEPT !.st = "Open", !.rcv = Plus(seg.seq, 1)] IN GuestSends(o, << GuestAck(o) >>)
  ELSE GuestSends(g, << >>)

\* What an open connection takes from a segment: its bytes or its FIN, if in order.
Arrived(g, seg) ==
  IF seg.seq # g.rcv THEN g
  ELSE IF seg.data # << >>
    THEN [g EXCEPT !.got = @ \o seg.data, !.rcv = Plus(@, Len(seg.data))]
  ELSE IF "FIN" \in seg.flags THEN [g EXCEPT !.finRcvd = TRUE, !.rcv = Plus(@, 1)]
  ELSE g

Receive(g, seg) ==
  IF "RST" \in seg.flags
    THEN GuestSends(IF seg.seq = g.rcv THEN [g EXCEPT !.st = "Closed"] ELSE g, << >>)
  ELSE LET h == Arrived(Acknowledged(g, seg.ack), seg)
           answers == seg.data # << >> \/ "FIN" \in seg.flags
       IN  GuestSends(Settle(h), IF answers THEN << GuestAck(h) >> ELSE << >>)

GuestReceive == /\ toGuest # << >> /\ toGuest' = Tail(toGuest) /\ UNCHANGED dropped
                /\ \/ client.st = "Closed" /\ Answer(client, Head(toGuest))
                   \/ client.st = "SynSent" /\ Handshake(client, Head(toGuest))
                   \/ client.st = "Open" /\ Receive(client, Head(toGuest))

GuestStep == GuestConnect \/ GuestWrite \/ GuestClose \/ GuestRetransmit \/ GuestAbort \/ GuestReceive

-----------------------------------------------------------------------------

Idle == [pc |-> "Idle", seg |-> NoSegment]

TcpInit == /\ load \in Loads
        /\ flows = [i \in FlowIds |-> NewFlow(NoSegment, 0)] /\ used = 0 /\ table = 0 /\ disposed = FALSE
        /\ nat = Idle /\ toNat = << >> /\ toGuest = << >> /\ dropped = FALSE
        /\ client = [st |-> "Closed", connects |-> 0, iss |-> 0, sent |-> 0, acked |-> 0,
                    fin |-> FALSE, finAcked |-> FALSE, rcv |-> 0, got |-> << >>,
                    finRcvd |-> FALSE, retries |-> 0]

TcpNext == \/ OnTcp \/ OnTcpFin \/ OnTcpClose \/ Shutdown
        \/ \E i \in FlowIds : PoolStep(i)
        \/ GuestStep

TcpSpec == TcpInit /\ [][TcpNext]_tcpVars

-----------------------------------------------------------------------------
(* Correctness                                                             *)

Stream(i, n) == [k \in 1..n |-> << i, k >>]

\* What the guest has received on a connection is a prefix of what a socket opened
\* for that connection delivered: the late thread of a flow that was reset cannot
\* mix into its successor (SlirpNat.cs:300, 396-407).
ReceivesOneStream == client.got # << >> =>
  \E i \in 1..used : flows[i].conn = client.connects /\ client.got = Stream(i, Len(client.got))

\* The guest sees the end of the stream only when it has everything the socket
\* delivered, although frames are dropped and never sent again
\* (SlirpNat.cs:405-414).
EndIsTheEnd == client.finRcvd =>
  \E i \in 1..used : flows[i].conn = client.connects /\ client.got = Stream(i, flows[i].read)

\* What reached the remote host is a prefix of what the guest sent, each byte
\* once under retransmission, and all of it when the socket is shut down for
\* sending (SlirpNat.cs:363-386).
WritesOneStream ==
  \A i \in 1..used :
    LET f == flows[i]
    IN  /\ f.wrote = Stream(f.conn, Len(f.wrote))
        /\ f.shut /\ f.conn = client.connects => Len(f.wrote) = client.sent

\* The unsigned difference that paces the receive loop never wraps: an ack that
\* overtakes the pool thread's own count cannot stall it (SlirpNat.cs:399, 407).
PacingIsSane ==
  \A i \in 1..used : flows[i].pc = "Pace" =>
    Behind(flows[i].ourSeq, flows[i].guestAcked) <= Window + MaxSegment

\* The relay is sound under drops and retransmission: each side gets a prefix of the
\* other's stream, its end only when that is whole, and pacing never stalls by itself.
StreamsAreSound == ReceivesOneStream /\ EndIsTheEnd /\ WritesOneStream /\ PacingIsSane

\* The frame loop pumps, the pool runs its tasks, the guest's stack answers.
TcpFairness == /\ WF_tcpVars(OnTcp \/ OnTcpFin \/ OnTcpClose) /\ WF_tcpVars(GuestReceive)
            /\ \A i \in FlowIds : WF_tcpVars(PoolStep(i))

TcpFairSpec == TcpSpec /\ TcpFairness

\* With no frame lost and the NAT up, a guest that has closed its side is not left waiting
\* once the remote host closes too (SlirpNat.cs:376-384, 411-416).
CloseCompletes == client.st = "Open" /\ client.fin ~> client.st = "Closed" \/ dropped \/ disposed

FlowPcs == {"Connect", "Refused", "SynAck", "CountSyn", "Pace", "Read", "Send", "Count",
            "Finish", "CountFin", "MarkFin", "CheckFin", "Done"}
Bytes == Seq(Nat \X Nat)
Segments == [from : Nat, flags : SUBSET Flags, seq : SeqNos, ack : SeqNos, data : Bytes]
FlowStates ==
  [pc : FlowPcs, ourSeq : SeqNos, guestSeq : SeqNos, guestAcked : SeqNos, finSent : BOOLEAN,
   guestFinSeen : BOOLEAN, closed : BOOLEAN, stream : BOOLEAN, conn : Nat, open : BOOLEAN,
   buf : Bytes, read : Nat, wrote : Bytes, shut : BOOLEAN]
ClientStates ==
  [st : {"Closed", "SynSent", "Open"}, connects : Nat, iss : SeqNos, sent : Nat, acked : Nat,
   fin : BOOLEAN, finAcked : BOOLEAN, rcv : SeqNos, got : Bytes, finRcvd : BOOLEAN, retries : Nat]

TcpTypeOK ==
  /\ load \in Loads /\ used \in 0..MaxFlows /\ disposed \in BOOLEAN /\ dropped \in BOOLEAN
  /\ flows \in [FlowIds -> FlowStates] /\ client \in ClientStates
  /\ nat \in [pc : {"Idle", "Fin", "Close"}, seg : Segments]
  /\ toNat \in Seq(Segments) /\ toGuest \in Seq(Segments)
  \* Only the newest flow can be in the table, and OnTcp handles a segment of one there.
  /\ table \in {0, used} /\ (nat.pc # "Idle" => table # 0)
=============================================================================
