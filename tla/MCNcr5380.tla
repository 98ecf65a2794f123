----------------------------- MODULE MCNcr5380 -----------------------------
(***************************************************************************)
(* Constants for model checking Ncr5380: two-byte blocks, the disk at ID 3 *)
(* so that opcodes with bit 3 set serve as its selection byte too.         *)
(***************************************************************************)
EXTENDS Ncr5380

\* A driver map block and half a block: a read of both blocks is cut to the whole
\* one, a write of both is clipped.  The half block's byte is one of those the bus carries.
ClippedImages == {<< 69, 82, 10 >>}

HandshakeIcr == {{}, {"ACK"}, {"SEL"}, {"RST"}}
AllMr == {{}, {"ARB"}, {"DMA", "EOPIRQ"}}
=============================================================================
