----------------------------- MODULE ScsiBusSpec -----------------------------
(***************************************************************************)
(* What an initiator may rely on when it talks to a disk on the SCSI bus:  *)
(*                                                                         *)
(*   - a command goes through its phases in the standard's order, and each *)
(*     phase ends exactly when its last byte has crossed the bus;          *)
(*   - the bytes of a read are one whole run of blocks of the medium as it *)
(*     was when the command was executed;                                  *)
(*   - a write changes the medium once, after its last byte, and by exactly*)
(*     the bytes that crossed the bus; a reset before that changes nothing.*)
(*                                                                         *)
(* Ncr5380 implements this specification; nothing here is one function of  *)
(* the code.                                                               *)
(***************************************************************************)
EXTENDS Integers, Sequences

CONSTANTS BlockLen, Media, Byte

VARIABLES
  phase,     \* the bus phase
  moved,     \* bytes moved since the phase began
  due,       \* bytes the phase moves in all
  data,      \* DataIn: the bytes the target sends; DataOut: those it has taken
  at,        \* DataOut: the block address the command gave
  medium,    \* the bytes on the disk
  readOnly

bus == << phase, moved, due, data, at >>
disk == << medium, readOnly >>
vars == << phase, moved, due, data, at, medium, readOnly >>

Free == {"BusFree", "Arbitration"}

Init == /\ phase = "BusFree" /\ moved = 0 /\ due = 0 /\ data = << >> /\ at = 0
        /\ medium \in Media /\ readOnly \in BOOLEAN

\* Enter a phase that moves n bytes, none of them so far.
Enter(p, n) == phase' = p /\ moved' = 0 /\ due' = n

Quiet == data' = << >> /\ at' = 0

Arbitrate == /\ phase \in Free /\ phase' \in Free
             /\ UNCHANGED << moved, due, data, at, medium, readOnly >>

\* Every CDB is at least six bytes; the opcode may make it longer.
Select == /\ phase \in Free /\ medium # << >>
          /\ Enter("Command", 6) /\ Quiet /\ UNCHANGED disk

\* One more byte of the phase crosses the bus.
Move == /\ phase \notin Free /\ moved < due /\ moved' = moved + 1
        /\ due' \in IF phase = "Command" /\ moved = 0 THEN {6, 10, 12} ELSE {due}
        /\ IF phase = "DataOut" THEN \E b \in Byte : data' = Append(data, b) ELSE data' = data
        /\ UNCHANGED << phase, at, medium, readOnly >>

\* The last byte may cross in the very step that ends the phase.
AllMoved == moved \in {due - 1, due}

\* The blocks after the first i and up to the j-th, and all such runs of them.
Blocks(i, j) == SubSeq(medium, i * BlockLen + 1, j * BlockLen)

BlockRun == {Blocks(i, j) : i \in 0..Len(medium), j \in 1..(Len(medium) \div BlockLen)} \ {<< >>}

\* The command is executed: it sends data, asks for data, or is over.
Execute ==
  /\ phase = "Command" /\ AllMoved
  /\ \/ /\ data' \in BlockRun \cup {<< b >> : b \in Byte}
        /\ at' = 0 /\ Enter("DataIn", Len(data'))
     \/ /\ due' > 0 /\ due' % BlockLen = 0 /\ at' \in Nat
        /\ data' = << >> /\ Enter("DataOut", due')
     \/ Quiet /\ Enter("Status", 1)
  /\ UNCHANGED disk

Overlay(m, off, d) == [i \in 1..Len(m) |-> IF i - off \in 1..Len(d) THEN d[i - off] ELSE m[i]]

\* The medium receives the write whole, cut where the medium ends.
Commit == /\ phase = "DataOut" /\ AllMoved
          /\ \E last \in {<< >>} \cup {<< b >> : b \in Byte} :
               /\ Len(last) = due - moved
               /\ medium' = IF readOnly THEN medium
                            ELSE Overlay(medium, at * BlockLen, data \o last)
          /\ Enter("Status", 1) /\ Quiet /\ UNCHANGED readOnly

EndRead == /\ phase = "DataIn" /\ AllMoved
           /\ Enter("Status", 1) /\ Quiet /\ UNCHANGED disk

Complete == /\ phase = "Status" /\ AllMoved
            /\ Enter("MsgIn", 1) /\ Quiet /\ UNCHANGED disk

Release == /\ phase = "MsgIn" /\ AllMoved
           /\ Enter("BusFree", 0) /\ Quiet /\ UNCHANGED disk

\* A bus reset abandons whatever was going on.
Abort == Enter("BusFree", 0) /\ Quiet /\ UNCHANGED disk

ChangeMedium == medium' \in Media /\ readOnly' \in BOOLEAN /\ UNCHANGED bus

Next == \/ Arbitrate \/ Select \/ Move \/ Execute \/ Commit
        \/ EndRead \/ Complete \/ Release \/ Abort \/ ChangeMedium

Spec == Init /\ [][Next]_vars
=============================================================================
