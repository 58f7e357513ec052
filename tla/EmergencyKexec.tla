--------------------------- MODULE EmergencyKexec ---------------------------
(***************************************************************************)
(* Emergency mode (homegw-init emergency-kexec, emergency_kexec.go) run   *)
(* beside the primary init of HgwInit.  It is a second process: it reads *)
(* the key the primary wrote to /kexec-encryption-key.txt (main.go 32),   *)
(* serves /emergency-kexec on :2345 and has its own globalKexecLock.  Its *)
(* handler is the primary's minus the ssh kill and the disk unmounts, and *)
(* it unseals against a hard-coded current version of 1.                *)
(*                                                                         *)
(* The two processes share what the kernel holds: the uid-1000 processes, *)
(* the SRAM stripe, the loaded kexec image and the reboot itself.         *)
(***************************************************************************)
EXTENDS HgwInit

CONSTANT ERequests   \* concurrent requests to /emergency-kexec

VARIABLES eUp,   \* the emergency process is running and serving
          elock, \* holder of the emergency process's globalKexecLock
          epc,   \* per-request position in the /emergency-kexec handler
          eenv   \* per-request envelope

evars == <<eUp, elock, epc, eenv>>

sysVars == <<vars, evars>>

EPCs == {"idle", "read", "pkill1", "pkill2", "ocram", "load", "reboot",
         "done", "panicked"}

\* emergency_kexec.go 63: Unseal(logger, 1, ...).
EmergencyVersion == 1

SysTypeOK ==
    /\ TypeOK
    /\ eUp \in BOOLEAN
    /\ elock \in ERequests \cup {NoReq}
    /\ epc \in [ERequests -> EPCs]
    /\ eenv \in [ERequests -> Envelopes]

\* The state of a process that has not started, or has exited.
EDown ==
    /\ eUp' = FALSE
    /\ elock' = NoReq
    /\ epc' = [r \in ERequests |-> "idle"]

EGoto(r, p) == epc' = [epc EXCEPT ![r] = p]

\* An early return: the status is written and the deferred Unlock runs.
EFail(r) == EGoto(r, "done") /\ elock' = NoReq

\* What no emergency step touches.
ESharedUnchanged == <<running, lock, pc, env, resp, killRef, disk, sshVars>>

\* emergencyKexecEntry, lines 19-40 and 126: the key file must decode to
\* 32 bytes (it holds the running config's kexec_encryption_key), or the
\* process exits before listening.
EmergencyStart ==
    /\ ~eUp
    /\ running.config.key
    /\ eUp' = TRUE
    /\ UNCHANGED <<elock, epc, eenv>> /\ UNCHANGED vars

\* Mutant: TryLock's result is ignored.
ETryLockUnguarded(r) ==
    /\ eUp
    /\ epc[r] = "idle"
    /\ \E e \in Envelopes :
         /\ elock' = r
         /\ eenv' = [eenv EXCEPT ![r] = e]
         /\ EGoto(r, "read")
    /\ UNCHANGED eUp /\ UNCHANGED vars

\* Lines 43-48: a held lock answers 429; otherwise TryLock succeeds.
ETryLock(r) ==
    /\ eUp
    /\ epc[r] = "idle"
    /\ \E e \in Envelopes :
         \/ /\ elock # NoReq
            /\ EGoto(r, "done")
            /\ UNCHANGED <<elock, eenv>>
         \/ /\ elock = NoReq
            /\ elock' = r
            /\ eenv' = [eenv EXCEPT ![r] = e]
            /\ EGoto(r, "read")
    /\ UNCHANGED eUp /\ UNCHANGED vars

\* Mutant: the primary's next step (the ssh kill) copied into this handler.
EReadAndUnsealSshKill(r) ==
    /\ epc[r] = "read"
    /\ \/ /\ eenv[r].body \in {"big", "short"}
          /\ EFail(r)
       \/ /\ \/ eenv[r].body = "chunked"
             \/ eenv[r].body = "ok" /\ UnsealPanics(EmergencyVersion, eenv[r])
          /\ EGoto(r, "panicked") /\ elock' = NoReq
       \/ /\ eenv[r].body = "ok"
          /\ ~UnsealOk(EmergencyVersion, eenv[r])
          /\ ~UnsealPanics(EmergencyVersion, eenv[r])
          /\ EFail(r)
       \/ /\ eenv[r].body = "ok"
          /\ UnsealOk(EmergencyVersion, eenv[r])
          /\ EGoto(r, "ssh")
          /\ UNCHANGED elock
    /\ UNCHANGED <<eUp, eenv>> /\ UNCHANGED vars

\* Lines 50-69: as in the primary, an oversized or short body or an
\* Unseal error against version 1 answers 400; an unknown length panics
\* in make, and a frame length with its sign bit set in Unseal's slice
\* (net/http recovers both; the deferred Unlock runs).
EReadAndUnseal(r) ==
    /\ epc[r] = "read"
    /\ \/ /\ eenv[r].body \in {"big", "short"}
          /\ EFail(r)
       \/ /\ \/ eenv[r].body = "chunked"
             \/ eenv[r].body = "ok" /\ UnsealPanics(EmergencyVersion, eenv[r])
          /\ EGoto(r, "panicked") /\ elock' = NoReq
       \/ /\ eenv[r].body = "ok"
          /\ ~UnsealOk(EmergencyVersion, eenv[r])
          /\ ~UnsealPanics(EmergencyVersion, eenv[r])
          /\ EFail(r)
       \/ /\ eenv[r].body = "ok"
          /\ UnsealOk(EmergencyVersion, eenv[r])
          /\ EGoto(r, "pkill1")
          /\ UNCHANGED elock
    /\ UNCHANGED <<eUp, eenv>> /\ UNCHANGED vars

\* Mutant: the loop starts over after the second pkill found nothing too.
EPkillNoMatchRestart(r) ==
    /\ epc[r] \in {"pkill1", "pkill2"}
    /\ userProcs = 0
    /\ EGoto(r, IF epc[r] = "pkill1" THEN "pkill2" ELSE "pkill1")
    /\ UNCHANGED <<eUp, elock, eenv>> /\ UNCHANGED vars

\* Lines 71-92: the same double pkill as the primary; dropbear is still
\* serving, so users may log in while it runs.  The /vroot/tmp unmount
\* that follows has no modelled effect.
EPkillNoMatch(r) ==
    /\ epc[r] \in {"pkill1", "pkill2"}
    /\ userProcs = 0
    /\ EGoto(r, IF epc[r] = "pkill1" THEN "pkill2" ELSE "ocram")
    /\ UNCHANGED <<eUp, elock, eenv>> /\ UNCHANGED vars

EPkillClears(r) ==
    /\ epc[r] \in {"pkill1", "pkill2"}
    /\ userProcs > 0
    /\ userProcs' = 0
    /\ EGoto(r, "pkill1")
    /\ UNCHANGED <<eUp, elock, eenv, phase, ocram, loaded>> /\ UNCHANGED ESharedUnchanged

EPkillRaced(r) ==
    /\ epc[r] \in {"pkill1", "pkill2"}
    /\ userProcs > 0
    /\ userProcs' \in 1..userProcs
    /\ EGoto(r, "pkill1")
    /\ UNCHANGED <<eUp, elock, eenv, phase, ocram, loaded>> /\ UNCHANGED ESharedUnchanged

\* Lines 94-99: stage the config in SRAM; a failure answers 500.
EStageConfig(r) ==
    /\ epc[r] = "ocram"
    /\ \/ /\ WriteConfig(eenv[r].config)
          /\ EGoto(r, "load")
          /\ UNCHANGED elock
       \/ /\ ~WriteConfigOk(eenv[r].config)
          /\ EFail(r)
          /\ UNCHANGED ocram
    /\ UNCHANGED <<eUp, eenv, phase, userProcs, loaded>> /\ UNCHANGED ESharedUnchanged

\* Lines 101-115: &pkg.Kernel[0] panics on an empty kernel (net/http
\* recovers it and the deferred Unlock runs); kexec_load either accepts
\* the image or fails (500).
EKexecLoad(r) ==
    /\ epc[r] = "load"
    /\ \/ /\ eenv[r].kernel = EmptyKernel
          /\ EGoto(r, "panicked") /\ elock' = NoReq
          /\ UNCHANGED loaded
       \/ /\ eenv[r].kernel # EmptyKernel
          /\ loaded' = Package(eenv[r])
          /\ EGoto(r, "reboot")
          /\ UNCHANGED elock
       \/ /\ eenv[r].kernel # EmptyKernel
          /\ EFail(r)
          /\ UNCHANGED loaded
    /\ UNCHANGED <<eUp, eenv, phase, userProcs, ocram>> /\ UNCHANGED ESharedUnchanged

\* Lines 117-123: logger.Sync, then reboot(KEXEC).  If it returns,
\* logger.Fatal ends the emergency process only: init keeps running, the
\* image stays loaded and the stripe stays staged.
EReboot(r) ==
    /\ epc[r] = "reboot"
    /\ \/ /\ phase' = "kexec"
          /\ UNCHANGED <<eUp, elock, epc>>
       \/ /\ EDown
          /\ UNCHANGED phase
    /\ UNCHANGED <<eenv, userProcs, ocram, loaded>> /\ UNCHANGED ESharedUnchanged

EHandler(r) ==
    \/ EReadAndUnseal(r) \/ EPkillNoMatch(r) \/ EPkillClears(r)
    \/ EPkillRaced(r) \/ EStageConfig(r) \/ EKexecLoad(r) \/ EReboot(r)

-----------------------------------------------------------------------------
(***************************************************************************)
(* The two processes together.  A reboot of either kind ends both.       *)
(***************************************************************************)
SysInit ==
    /\ Init
    /\ eUp = FALSE
    /\ elock = NoReq
    /\ epc = [r \in ERequests |-> "idle"]
    /\ eenv = [r \in ERequests |-> CHOOSE e \in Envelopes : TRUE]

SysNext ==
    \/ phase = "up" /\ Next /\ UNCHANGED evars
    \/ Boot /\ EDown /\ UNCHANGED eenv
    \/ phase = "up" /\ (EmergencyStart \/ \E r \in ERequests : ETryLock(r) \/ EHandler(r))

SysFairness ==
    /\ Fairness
    /\ \A r \in ERequests : WF_sysVars(phase = "up" /\ EHandler(r))
    /\ \A r \in ERequests : WF_sysVars(phase = "up" /\ EPkillClears(r))

SysSpec == SysInit /\ [][SysNext]_sysVars

SysFairSpec == SysSpec /\ SysFairness

-----------------------------------------------------------------------------
(***************************************************************************)
(* Properties.                                                             *)
(***************************************************************************)

\* The floor emergency mode enforces: it accepts any version >= 1, so from
\* a boot at version v it may install min(v, 1).
RecoveryFloor(s) == IF s.config.version < EmergencyVersion
                      THEN s.config.version ELSE EmergencyVersion

Recovery == INSTANCE KexecAbstract
                WITH system <- running, Signed <- SignedPackages, Floor <- RecoveryFloor

\* What recovery still promises: every boot after a kexec, from either
\* process, runs a kernel with the very config it was sealed with, and
\* never falls below version 1 unless it already ran below it.  This rests
\* on each process's lock and on the two never staging and loading
\* concurrently (emergency_kexec.go 43, 95, 107 against http.go 339-416).
RecoveryRefinement == Recovery!AbsSpec

\* The emergency handler's kill loop (emergency_kexec.go 73-86) ends once
\* users stop logging in through dropbear, which emergency mode leaves
\* running, and stop forking: from then on an emergency kexec passes the
\* two consecutive empty pkill runs and goes on to stage its config, or a
\* reboot ends the process.  While users keep arriving it may loop
\* forever; nothing in the code bounds it.
EmergencyProceeds ==
    <>[][~(UserLogin \/ UserFork)]_sysVars =>
        \A r \in ERequests :
            epc[r] \in {"pkill1", "pkill2"}
                ~> (epc[r] \notin {"pkill1", "pkill2"} \/ phase # "up")
=============================================================================
