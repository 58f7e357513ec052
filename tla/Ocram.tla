------------------------------- MODULE Ocram --------------------------------
(***************************************************************************)
(* The on-chip SRAM stripe (homegw-init/ocram.go): hash || config || 0 at  *)
(* a fixed physical range, written by the outgoing init before kexec_load *)
(* and read-and-erased by the incoming init.                               *)
(*                                                                         *)
(* SHA-256 is abstracted as injective: a stripe either holds a config     *)
(* whose hash prefix matches (the config itself is the stripe's value) or *)
(* it holds nothing that passes the check (Erased: zeroes, power-on       *)
(* garbage, or a torn write).  A config never contains a NUL byte (it is  *)
(* JSON), so the zero terminator always ends it.                          *)
(***************************************************************************)
CONSTANTS Configs,   \* the configs the system can be given
          Erased     \* a stripe that fails the hash check

VARIABLE ocram

\* writeConfigToOcram, ocram.go 38-60: a config larger than the region
\* minus 33 bytes is refused before /dev/mem is touched.
WriteConfigOk(c) == c.fits

WriteConfig(c) ==
    /\ WriteConfigOk(c)
    /\ ocram' = c

\* loadConfigFromOcram, ocram.go 15-36: the hash check passes iff the stripe
\* holds an intact config; the result is that config.
LoadOk == ocram \in Configs

\* dumpAndEraseOcram, ocram.go 62-82: the snapshot is taken, then every
\* byte of the mapping is zeroed, whatever the check decides.
DumpAndErase == ocram' = Erased
=============================================================================
