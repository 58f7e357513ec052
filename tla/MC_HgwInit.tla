----------------------------- MODULE MC_HgwInit -----------------------------
(***************************************************************************)
(* Model-checking instance of HgwInit: two concurrent trigger requests,   *)
(* configs at versions 0..2, and request bodies that cover an accepted    *)
(* package for each kernel, a rollback, a config too large for the SRAM   *)
(* stripe and a tampered envelope.                                        *)
(***************************************************************************)
EXTENDS HgwInit

CONSTANTS K1, K2   \* two kernel images (model values)

\* Configs: version, ssh section, a valid 32-byte kexec key, the kexec API
\* route served, fits in SRAM.
Cfg(v, s, f) == [version |-> v, ssh |-> s, key |-> TRUE, api |-> TRUE, fits |-> f]

C0 == Cfg(0, "none", TRUE)
C1 == Cfg(1, "ok", TRUE)
C2 == Cfg(2, "none", TRUE)
CBig == Cfg(2, "ok", FALSE)
C1Bad == Cfg(1, "bad", TRUE)
\* A config whose kexec_encryption_key does not decode to 32 bytes.
C2NoKey == [Cfg(2, "none", TRUE) EXCEPT !.key = FALSE]

\* A correctly sealed, PGP-signed envelope carrying kernel k and config c,
\* sent with an exact Content-Length.
Sealed(k, c) ==
    [body |-> "ok", extSig |-> "none", magic |-> TRUE, sealed |-> TRUE, outer |-> "ok",
     pgp |-> "valid", inner |-> "ok", json |-> TRUE, kernel |-> k, config |-> c]

MCConfigs == {C0, C1, C2, CBig, C2NoKey}
MCSerialConfigs == {C1}
MCKernels == {K1, K2}
MCEnvelopes ==
    { Sealed(K1, C2), Sealed(K2, C1), Sealed(K2, C0), Sealed(K1, CBig),
      Sealed(K2, C2NoKey), [Sealed(K1, C2) EXCEPT !.sealed = FALSE],
      [Sealed(K1, C2) EXCEPT !.body = "short"] }

\* Variant: a valid package uploaded with chunked transfer encoding.
ChunkedEnvelopes == { Sealed(K1, C2), [Sealed(K1, C2) EXCEPT !.body = "chunked"] }

\* Variant: the operator's config has an ssh section Spawn rejects.
BadSshConfigs == {C0, C1Bad, C2, CBig}
BadSshSerialConfigs == {C1Bad}

\* Variant: an accepted package whose kernel image is empty.
EmptyKernels == {K1, EmptyKernel}
EmptyEnvelopes == { Sealed(K1, C2), Sealed(EmptyKernel, C2), Sealed(EmptyKernel, C1) }

\* A body that opens with the AEAD key and whose outer sig_len has the
\* sign bit set: no signing key is needed to reach the frame parser.
SignBitEnvelope == [Sealed(K1, C2) EXCEPT !.outer = "signbit", !.pgp = "badsig"]

\* Every way a handler can panic: all of the above.
PanicEnvelopes ==
    EmptyEnvelopes \cup {[Sealed(K1, C2) EXCEPT !.body = "chunked"], SignBitEnvelope}

\* The core instance: every envelope above, the panicking ones included.
AllKernels == MCKernels \cup EmptyKernels
AllEnvelopes == MCEnvelopes \cup PanicEnvelopes
=============================================================================
