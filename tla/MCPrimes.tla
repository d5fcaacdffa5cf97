------------------------------ MODULE MCPrimes ------------------------------
EXTENDS Primes

MCLength == [s \in Streams |-> 4]
=============================================================================
