--------------------------------- MODULE Aes ---------------------------------
(***************************************************************************)
(* What CMAC and the block modes share: the class alcp::cipher::Rijndael,  *)
(* as far as its users look at it, is a block size and the keys it takes.  *)
(***************************************************************************)
CONSTANTS
  Block,          (* Rijndael::cBlockSize, cAESBlockSize: 16 in the code   *)
  Keys,           (* keys of the lengths the session takes                 *)
  NoKey           (* a null key, and the zeros of an object without one    *)
=============================================================================
