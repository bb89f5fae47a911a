------------------------ MODULE AcceleratorContract -------------------------
(***************************************************************************)
(* What the accelerator promises to the logic around it, without clocks:   *)
(* matrices are stored while it is idle, a start makes it busy, and when   *)
(* it becomes idle again its C RAM holds the product of the matrices that  *)
(* were stored. While it is busy the content of the C RAM means nothing.   *)
(***************************************************************************)
CONSTANT NoResult   \* the C RAM holds the product of no stored pair

VARIABLES
  busy,     \* a multiplication is under way
  inputs,   \* the pair of matrices in the A and B RAMs
  result    \* the pair whose product is in the C RAM, or NoResult

contractVars == <<busy, inputs, result>>

Init == busy = FALSE /\ result = NoResult

StoreInputs ==
  /\ ~busy
  /\ inputs' # inputs
  /\ UNCHANGED <<busy, result>>

Begin ==
  /\ ~busy
  /\ busy' = TRUE
  /\ result' = NoResult
  /\ UNCHANGED inputs

Complete ==
  /\ busy
  /\ busy' = FALSE
  /\ result' = inputs
  /\ UNCHANGED inputs

Next == StoreInputs \/ Begin \/ Complete

Spec == Init /\ [][Next]_contractVars /\ WF_contractVars(Complete)
=============================================================================
