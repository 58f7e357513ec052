----------------------------- MODULE MC_SshRelay -----------------------------
(* Model-checking instance of SshRelay.                                    *)
EXTENDS SshRelay
=============================================================================
