------------------------------- MODULE Unseal -------------------------------
(***************************************************************************)
(* The control flow of kexec.Unseal and decryptAndVerify                  *)
(* (homegw-libs/kexec/lib.go).  Cryptography is abstracted to the outcome  *)
(* of each check: an envelope is a record saying which checks its bytes   *)
(* pass, plus the kernel and config it carries.  What is kept is the ORDER *)
(* of the checks (external signature before the AEAD open, PGP only when  *)
(* no external signature is supplied, the version check last) and which  *)
(* error each early return yields.                                        *)
(***************************************************************************)
LOCAL INSTANCE Integers
LOCAL INSTANCE SequencesExt

\* The X-External-Signature header: absent, or a payload that fails to parse
\* (ErrInvalidExtSig), fails cosign verification, is older than the running
\* binary (bundle time before /homegw-init mtime), or verifies.
ExtSigOutcomes == {"none", "malformed", "unverified", "stale", "valid"}

\* Outcome of the PGP clearsign path, in the order the code checks them.
PgpOutcomes == {"valid", "undecodable", "badsig", "badline", "badname", "badhash"}

\* The error kinds the code can return (the empty string is success).
PgpError == [undecodable |-> "DecodeFailed", badsig |-> "BadSignature",
             badline |-> "BadHashLine", badname |-> "BadFilename",
             badhash |-> "HashMismatch"]

\* A length-prefixed frame (outer sig ‖ data, inner kernel ‖ config) is
\* well formed ("ok"), malformed ("bad": ErrInvalidBlob), or carries a
\* prefix length of 2^31 or more ("signbit").  On the 32-bit target
\* int(n) is then negative, len(b) < int(n) is false and b[:n] panics
\* (lib.go 181-184 and 55-58; SealedFrame checks this on the bytes).
FrameOutcomes == {"ok", "bad", "signbit"}

FrameError(f) == IF f = "signbit" THEN "Panic" ELSE "InvalidBlob"

(***************************************************************************)
(* decryptAndVerify, lib.go 88-232: each pair is <<check passes, error>>,  *)
(* in the order the early returns occur.                                   *)
(***************************************************************************)
DecryptChecks(e) ==
    << <<e.extSig # "malformed",  "InvalidExtSig">>,
       <<e.extSig # "unverified", "BundleNotVerified">>,
       <<e.extSig # "stale",      "TimeSkew">>,
       <<e.magic,                 "InvalidBlob">>,
       <<e.sealed,                "AeadFailed">>,
       <<e.outer = "ok",          FrameError(e.outer)>>,
       <<e.extSig # "none" \/ e.pgp = "valid",
         IF e.pgp = "valid" THEN "" ELSE PgpError[e.pgp]>> >>

\* Mutant: the anti-rollback comparison is lost.
UnsealChecksNoRollback(currentVersion, e) ==
    DecryptChecks(e) \o
    << <<e.inner = "ok", FrameError(e.inner)>>, <<e.json, "InvalidBlob">> >>

(***************************************************************************)
(* Unseal, lib.go 43-86: decryptAndVerify, then the inner frame, the JSON  *)
(* decode of the config, and the anti-rollback check against the running  *)
(* version.                                                                *)
(***************************************************************************)
UnsealChecks(currentVersion, e) ==
    DecryptChecks(e) \o
    << <<e.inner = "ok",                      FrameError(e.inner)>>,
       <<e.json,                              "InvalidBlob">>,
       <<e.config.version >= currentVersion,  "Rollback">> >>

\* The error Unseal returns, or "" when it yields the package.
UnsealError(currentVersion, e) ==
    LET checks == UnsealChecks(currentVersion, e)
        first  == SelectInSeq(checks, LAMBDA c : ~c[1])
    IN  IF first = 0 THEN "" ELSE checks[first][2]

UnsealOk(currentVersion, e) == UnsealError(currentVersion, e) = ""

\* Unseal does not return: a frame parser panicked.
UnsealPanics(currentVersion, e) == UnsealError(currentVersion, e) = "Panic"

\* The UnsealedPackage of a successful Unseal.
Package(e) == [kernel |-> e.kernel, config |-> e.config]
=============================================================================
