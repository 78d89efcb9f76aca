------------------------------ MODULE MCHostGate ------------------------------
(***************************************************************************)
(* Values for model checking HostGate: calls of two models on one host.    *)
(***************************************************************************)
EXTENDS HostGate

CONSTANTS a, b, a1, a2, a3, b1, x, y, t

MCModelOf ==
    [c \in Call |-> IF c \in {a1, a2, a3, x} THEN a ELSE b]
=============================================================================
