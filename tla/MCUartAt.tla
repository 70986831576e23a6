------------------------------ MODULE MCUartAt ------------------------------
EXTENDS UartAt

CONSTANTS long, short

MCSize == [f \in Frame |-> IF f = long THEN 2 ELSE 1]
=============================================================================
