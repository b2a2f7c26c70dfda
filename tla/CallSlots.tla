------------------------------ MODULE CallSlots ------------------------------
(* What the modules of the wallet share: slots for concurrent calls, and the *)
(* value that stands for undefined.                                          *)
EXTENDS FiniteSets, JsMap

CONSTANTS Slots, None
=============================================================================
