------------------------ MODULE MCGoroutineManager ---------------------------
(***************************************************************************)
(* GoroutineManager with a handful of goroutines.                          *)
(***************************************************************************)
EXTENDS GoroutineManager
==============================================================================
