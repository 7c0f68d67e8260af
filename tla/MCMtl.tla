--------------------------------- MODULE MCMtl --------------------------------
(* Containers of a few elements, with ints up to 11 and words of 6 bits.        *)
EXTENDS MtlClient

MCPrimes == <<2, 3>>
===============================================================================
