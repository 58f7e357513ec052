--------------------------- MODULE MC_SealedFrame ---------------------------
(* Bytes of 4 values and 2-byte length fields: a field holds 0..15, which *)
(* stands for 0..2^32-1.  The sealer is given parts of at most one byte, *)
(* so every length it writes is below half the field, as real kernels    *)
(* and configs are below 2^31.  The other payloads are every byte string  *)
(* up to 6 long: all lengths, truncations and over-long fields.          *)
EXTENDS SealedFrame
LOCAL SX == INSTANCE SequencesExt

MCPayloads == SX!SeqOf(0..(Base - 1), 6)

MCParts == SX!SeqOf(0..(Base - 1), 1)
=============================================================================
