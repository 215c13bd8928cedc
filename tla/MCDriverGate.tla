----------------------------- MODULE MCDriverGate -----------------------------
(* A small instance of DriverGate. *)
EXTENDS DriverGate

CONSTANTS virus, worm, note, system, vault

MCClass == [f \in Files |-> IF f = virus THEN "known"
                            ELSE IF f = worm THEN "probable"
                            ELSE IF f \in {system, vault} THEN "confirmed"
                            ELSE "plain"]
==============================================================================
