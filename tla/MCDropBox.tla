----------------------------- MODULE MCDropBox -----------------------------
(***************************************************************************)
(* The files of the drop box's run.   HFS carries 31 characters of a name, *)
(* so a Long one is Cut on the volume and, after the next sync-back, in    *)
(* the folder.  A host's file cannot have a slash in its name, so a        *)
(* Slashed one is Underscored in the folder.                               *)
(***************************************************************************)
EXTENDS DropBox

CONSTANTS f1, f2, Plain, Saved, Long, Cut, Slashed, Underscored, Busy

MCContent == [f \in Files |-> CASE f = Cut -> Long [] f = Underscored -> Slashed [] OTHER -> f]
MCMacNames == [f \in Files |-> CASE f = Long -> {Cut} [] f = Slashed -> {Underscored} [] OTHER -> {f}]
MCHostName == [f \in Files |-> IF f = Slashed THEN Underscored ELSE f]

\* A name HFS cuts, in two folders; a save; names that keep; names that change each
\* way; a file that is skipped, where one with such a name is already.
MCSetups == {
  [folders |-> {f1, f2}, drops |-> {Long}, saves |-> {}, given |-> {}],
  [folders |-> {f1, f2}, drops |-> {}, saves |-> {Saved}, given |-> {}],
  [folders |-> {f1}, drops |-> {Plain}, saves |-> {Saved}, given |-> {}],
  [folders |-> {f1}, drops |-> {Long}, saves |-> {Slashed}, given |-> {}],
  [folders |-> {f1}, drops |-> {Busy}, saves |-> {}, given |-> {Long}]}
=============================================================================
