--------------------------- MODULE MCPrefillModel ---------------------------
(* Two tokens, one block, tiles of two tokens, model files whose matrices are *)
(* all Q4_K and whose value, down and qkv matrices are Q6_K.                  *)
EXTENDS PrefillModel

CONSTANTS a, b

MCFormats == [v : {FALSE}, down : {FALSE}, qkv : {FALSE}]
             \cup [v : {TRUE}, down : {TRUE}, qkv : {TRUE}]

Swap == Permutations({a, b})
=============================================================================
