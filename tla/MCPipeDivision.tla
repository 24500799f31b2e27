--------------------------- MODULE MCPipeDivision ---------------------------
(* PipeDivision for TLC.                                                    *)
EXTENDS PipeDivision
=============================================================================
