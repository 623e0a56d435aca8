---------------------------- MODULE MCInstances ----------------------------
(***************************************************************************)
(* Constants for the runs of TLC: models, and sets of opcodes that give    *)
(* every kind of instruction without repeating it.                         *)
(***************************************************************************)
EXTENDS ControlStore

AllModels   == 0..4
NmosAndCmos == {0, 2}
Nmos        == {0}
Cmos        == {2}
CmosPair    == {2, 4}

AllOpcodes == 0..255

\* The models, and opcodes for every different slot they have: see EverySlotAssumption.
EveryModel == {0, 2, 4}

EverySlot == {
  0, 1, 2, 3, 4, 5, 7, 8, 9, 10, 12, 13, 15, 16, 17, 18, 19, 21, 22, 25, 27, 29, 30, 32,
  40, 64, 68, 76, 84, 88, 92, 96, 97, 101, 104, 105, 108, 109, 113, 114, 117, 120, 121,
  124, 125, 128, 129, 132, 140, 145, 146, 147, 148, 150, 153, 156, 157, 159, 182, 216,
  222, 234, 248 }

\* Opcodes that neither branch nor jam nor are one-cycle: JSR, PLP, RTI, PHA, CLI, ADC #, SEI,
\* ADC abs,X, STA abs,X, LDA #, LDA abs,X, CLD, SED.
Straight == {32, 40, 64, 72, 88, 105, 120, 125, 157, 169, 189, 216, 248}

WithBrk == Straight \cup {0}

\* Straight with a branch, and BRA and BBR where the model has them. All of them poll.
Polling == Straight \cup {15, 16, 128}

Branching == Polling \cup {0}

\* BRK, a branch, RTI, CLI, ADC abs,X, STA abs,X: what the interrupt unit depends on.
Few == {0, 16, 40, 88, 125, 157}

\* Branching with KIL and an illegal eight-cycle RMW, which are no operations on the CMOS models.
Typical == Branching \cup {2, 3}

=============================================================================
