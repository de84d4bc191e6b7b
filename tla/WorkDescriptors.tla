-------------------------- MODULE WorkDescriptors --------------------------
(***************************************************************************)
(* The work descriptors (tasks) of the runtime, as pointers.               *)
(***************************************************************************)
CONSTANTS
  WD,      \* work descriptors
  NoWD     \* the null pointer

ASSUME NoWDAssumption == NoWD \notin WD
=============================================================================
