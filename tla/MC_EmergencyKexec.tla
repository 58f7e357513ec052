-------------------------- MODULE MC_EmergencyKexec --------------------------
(***************************************************************************)
(* Model-checking instance of EmergencyKexec.  The recovery case the mode *)
(* exists for: the primary's kexec API is not served (no api_server      *)
(* section, or Run failed), the operator starts emergency-kexec and sends *)
(* packages at versions 0..2 -- including one below the running version *)
(* and one with an empty kernel.                                          *)
(***************************************************************************)
EXTENDS EmergencyKexec, MC_HgwInit

\* The same configs with the primary's kexec route not served.
NoApi(c) == [c EXCEPT !.api = FALSE]

C0Off == NoApi(C0)
C1Off == NoApi(C1)
C2Off == NoApi(C2)
CBigOff == NoApi(CBig)

OffConfigs == {C0Off, C1Off, C2Off, CBigOff}
OffSerialConfigs == {C2Off}
OffKernels == {K1, K2, EmptyKernel}
OffEnvelopes ==
    { Sealed(K1, C2Off), Sealed(K2, C1Off), Sealed(K2, C0Off),
      Sealed(K1, CBigOff), Sealed(EmptyKernel, C2Off),
      [Sealed(K1, C2Off) EXCEPT !.outer = "signbit", !.pgp = "badsig"] }

\* Variant: both control planes serve; the operator uses emergency mode
\* while the primary API is up.
LiveConfigs == {C1, C2}
LiveSerialConfigs == {C1}
LiveEnvelopes == { Sealed(K1, C2), Sealed(K2, C1) }
=============================================================================
