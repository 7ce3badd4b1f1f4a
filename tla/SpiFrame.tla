------------------------------ MODULE SpiFrame ------------------------------
(***************************************************************************)
(* What an SPI slave is promised: while it is selected it receives the     *)
(* bits of one frame, in order, none twice and none left out, and it is    *)
(* deselected when it has them all.  A reset of the master may break a     *)
(* frame off.                                                              *)
(***************************************************************************)
EXTENDS Naturals, Sequences

CONSTANT Frame   \* the bits of a frame

VARIABLES
  selected,   \* the slave is selected
  got,        \* the bits received since it was selected
  last        \* how the last frame ended

vars == <<selected, got, last>>

Init ==
  /\ selected = FALSE
  /\ got = <<>>
  /\ last = "none"

Select ==
  /\ ~selected
  /\ selected' = TRUE
  /\ UNCHANGED <<got, last>>

NextBit ==
  /\ selected
  /\ Len(got) < Len(Frame)
  /\ got' = Append(got, Frame[Len(got) + 1])
  /\ UNCHANGED <<selected, last>>

Finish ==
  /\ selected
  /\ got = Frame
  /\ selected' = FALSE
  /\ got' = <<>>
  /\ last' = "complete"

BreakOff ==
  /\ selected
  /\ selected' = FALSE
  /\ got' = <<>>
  /\ last' = "broken off"

Next == Select \/ NextBit \/ Finish \/ BreakOff

Spec == Init /\ [][Next]_vars
=============================================================================
