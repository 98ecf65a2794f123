------------------------------ MODULE MCScsiDma ------------------------------
(* Constants for model checking ScsiDma: a word-sized window of memory. *)
EXTENDS ScsiDma

DmaImages == {<< 69, 82, 7, 9 >>}
DmaIcr == {{}}
DmaMr  == {{"DMA", "EOPIRQ"}}
DmaControl == {{"ENABLE", "SCSIIRQ", "WDIRQ"}, {"SCSIIRQ", "RESET"}, {"TEST"}}
=============================================================================
