--------------------------- MODULE MCStringBuilder ---------------------------
(* Small instances of StringBuilder: every sequence of calls on every small    *)
(* buffer, one without memory included.                                        *)
EXTENDS StringBuilder

MCCapacities == 0 .. 6
==============================================================================
