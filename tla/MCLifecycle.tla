----------------------------- MODULE MCLifecycle -----------------------------
(***************************************************************************)
(* An instance of Lifecycle: two calls of Start and one more of Stop, with *)
(* the compressor and one provider turned on.                              *)
(***************************************************************************)
EXTENDS Lifecycle

SomeEnabled == {"OHPCF", "MGCP"}

===============================================================================
