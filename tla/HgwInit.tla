------------------------------- MODULE HgwInit -------------------------------
(***************************************************************************)
(* The primary init (homegw-init): one boot of main() and the             *)
(* /kexec/trigger handler ApiServer.kexec running for several concurrent  *)
(* HTTP requests, together with the goroutines and processes they race   *)
(* with: the dropbear supervisor, the disk-opening goroutine and the user *)
(* (uid 1000) processes.  A successful kexec ends the boot; the next boot *)
(* re-enters loadConfig, which recovers the staged config from the SRAM   *)
(* stripe.  Resets (init exiting, watchdog, power) may happen at any time. *)
(***************************************************************************)
EXTENDS Integers, Unseal, Ocram, SshSupervisor

CONSTANTS Requests,      \* concurrent HTTP requests to /kexec/trigger
          Kernels,       \* kernel images a package can carry
          EmptyKernel,   \* the zero-length kernel image (may be in Kernels)
          BaseKernel,    \* the kernel the board firmware boots after a reset
          Envelopes,     \* request bodies (Unseal envelopes) clients send
          SerialConfigs, \* configs an operator may paste on /dev/ttyGS0
          MaxProcs,      \* bound on live uid-1000 processes
          NoReq, NoPkg   \* "nobody holds the lock", "no kexec image loaded"

ASSUME MaxProcs \in Nat \ {0}

VARIABLES phase,     \* "up" (init running), "kexec" (kexec reboot issued), "reset"
          running,   \* [kernel, config] of the running boot
          lock,      \* holder of globalKexecLock
          pc,        \* per-request position in ApiServer.kexec
          env,       \* per-request envelope (the request body)
          resp,      \* per-request HTTP status written (0: none yet)
          killRef,   \* s.KexecSshKill != nil
          disk,      \* the configured data disk: "opening", "mounted", "failed", "unmounted"
          userProcs, \* number of live uid-1000 processes
          loaded     \* the package kexec_load accepted, or NoPkg

vars == <<phase, running, lock, pc, env, resp, killRef, disk, userProcs,
          loaded, ocram, sshVars>>

PCs == {"idle", "read", "ssh", "sshwait", "pkill1", "pkill2", "unmount",
        "ocram", "load", "respond", "reboot", "done", "panicked"}

\* Positions after the SSH kill has completed and the pkill loop has ended.
AfterPkill == {"unmount", "ocram", "load", "respond", "reboot"}

Packages == {Package(e) : e \in Envelopes}

TypeOK ==
    /\ phase \in {"up", "kexec", "reset"}
    /\ running \in [kernel : Kernels \cup {BaseKernel}, config : Configs]
    /\ lock \in Requests \cup {NoReq}
    /\ pc \in [Requests -> PCs]
    /\ env \in [Requests -> Envelopes]
    /\ resp \in [Requests -> {0, 200, 400, 409, 500}]
    /\ killRef \in BOOLEAN
    /\ disk \in {"opening", "mounted", "failed", "unmounted"}
    /\ userProcs \in 0..MaxProcs
    /\ loaded \in Packages \cup {NoPkg}
    /\ ocram \in Configs \cup {Erased}
    /\ SshTypeOK

-----------------------------------------------------------------------------
(***************************************************************************)
(* One boot of main(), main.go 29-158, after loadConfig: the ssh          *)
(* supervisor is spawned for the config's ssh section, the disk goroutine *)
(* starts, and the ApiServer is built with KexecSshKill = sshKill.        *)
(***************************************************************************)
BootState(kernel, c) ==
    /\ running = [kernel |-> kernel, config |-> c]
    /\ phase = "up"
    /\ lock = NoReq
    /\ pc = [r \in Requests |-> "idle"]
    /\ env = [r \in Requests |-> CHOOSE e \in Envelopes : TRUE]
    /\ resp = [r \in Requests |-> 0]
    /\ killRef = TRUE
    /\ disk = "opening"
    /\ userProcs = 0
    /\ loaded = NoPkg
    /\ SshInit(c.ssh)

\* The same, as the state the next boot starts in.
NextBootState(kernel, c) ==
    /\ running' = [kernel |-> kernel, config |-> c]
    /\ phase' = "up"
    /\ lock' = NoReq
    /\ pc' = [r \in Requests |-> "idle"]
    /\ env' = env
    /\ resp' = [r \in Requests |-> 0]
    /\ killRef' = TRUE
    /\ disk' = "opening"
    /\ userProcs' = 0
    /\ loaded' = NoPkg
    /\ SshBoot(c.ssh)

\* The first boot: SRAM holds nothing valid, so the operator pastes a config.
Init ==
    /\ ocram = Erased
    /\ \E c \in SerialConfigs : BootState(BaseKernel, c)

-----------------------------------------------------------------------------
(***************************************************************************)
(* ApiServer.kexec, http.go 333-449, one action per step between the      *)
(* points where it touches state another goroutine or process shares.     *)
(***************************************************************************)
KexecEnabled == running.config.key

\* main.go 125-158 and http.go 113-125: /kexec/trigger exists only when the
\* config has an api_server section with a kexec-scoped client key and
\* ApiServer.Run is serving.
KexecRoute == running.config.api

\* Moves request r to position p.
Goto(r, p) == pc' = [pc EXCEPT ![r] = p]

\* An early return: the status is written and the deferred Unlock runs.
Fail(r, code) ==
    /\ Goto(r, "done")
    /\ resp' = [resp EXCEPT ![r] = code]
    /\ lock' = NoReq

\* A runtime panic in the handler: gin.Recovery answers 500 and the
\* deferred Unlock runs while the stack unwinds.
Panic(r) ==
    /\ Goto(r, "panicked")
    /\ resp' = [resp EXCEPT ![r] = 500]
    /\ lock' = NoReq

HandlerUnchanged == <<phase, running, killRef, disk, userProcs, loaded, ocram, sshVars>>

\* Mutant: Lock() semantics lost -- the handler proceeds whether or not
\* another request holds globalKexecLock.
TryLockUnguarded(r) ==
    /\ KexecRoute
    /\ pc[r] = "idle"
    /\ \E e \in Envelopes :
         \/ /\ ~KexecEnabled
            /\ Goto(r, "done") /\ resp' = [resp EXCEPT ![r] = 400]
            /\ UNCHANGED <<lock, env>>
         \/ /\ KexecEnabled
            /\ lock' = r
            /\ env' = [env EXCEPT ![r] = e]
            /\ Goto(r, "read")
            /\ UNCHANGED resp
    /\ UNCHANGED HandlerUnchanged

\* Mutant: the busy answer copied from emergency mode (429, not 409).
TryLock429(r) ==
    /\ KexecRoute
    /\ pc[r] = "idle"
    /\ \E e \in Envelopes :
         \/ /\ ~KexecEnabled
            /\ Goto(r, "done") /\ resp' = [resp EXCEPT ![r] = 400]
            /\ UNCHANGED <<lock, env>>
         \/ /\ KexecEnabled /\ lock # NoReq
            /\ Goto(r, "done") /\ resp' = [resp EXCEPT ![r] = 429]
            /\ UNCHANGED <<lock, env>>
         \/ /\ KexecEnabled /\ lock = NoReq
            /\ lock' = r
            /\ env' = [env EXCEPT ![r] = e]
            /\ Goto(r, "read")
            /\ UNCHANGED resp
    /\ UNCHANGED HandlerUnchanged

\* http.go 334-343: a disabled kexec answers 400, a held lock 409;
\* otherwise TryLock succeeds.  The body is the client's choice.
TryLock(r) ==
    /\ KexecRoute
    /\ pc[r] = "idle"
    /\ \E e \in Envelopes :
         \/ /\ ~KexecEnabled
            /\ Goto(r, "done") /\ resp' = [resp EXCEPT ![r] = 400]
            /\ UNCHANGED <<lock, env>>
         \/ /\ KexecEnabled /\ lock # NoReq
            /\ Goto(r, "done") /\ resp' = [resp EXCEPT ![r] = 409]
            /\ UNCHANGED <<lock, env>>
         \/ /\ KexecEnabled /\ lock = NoReq
            /\ lock' = r
            /\ env' = [env EXCEPT ![r] = e]
            /\ Goto(r, "read")
            /\ UNCHANGED resp
    /\ UNCHANGED HandlerUnchanged

\* http.go 345-362: a ContentLength over 128 MiB answers 400; an unknown
\* length (-1: a chunked or HTTP/2 body without Content-Length) makes
\* make([]byte, -1) panic; a body shorter than its length answers 400; so
\* does an Unseal error against the running version.
ReadAndUnseal(r) ==
    /\ pc[r] = "read"
    /\ \/ /\ env[r].body \in {"big", "short"}
          /\ Fail(r, 400)
       \/ /\ env[r].body = "chunked"
          /\ Panic(r)
       \/ /\ env[r].body = "ok"
          /\ ~UnsealOk(running.config.version, env[r])
          /\ ~UnsealPanics(running.config.version, env[r])
          /\ Fail(r, 400)
       \/ /\ env[r].body = "ok"
          /\ UnsealPanics(running.config.version, env[r])
          /\ Panic(r)
       \/ /\ env[r].body = "ok"
          /\ UnsealOk(running.config.version, env[r])
          /\ Goto(r, "ssh")
          /\ UNCHANGED <<lock, resp>>
    /\ UNCHANGED <<env>> /\ UNCHANGED HandlerUnchanged

CloseSshKill(r) ==
    /\ pc[r] = "ssh"
    /\ \/ /\ ~killRef
          /\ Goto(r, "pkill1")
          /\ UNCHANGED <<killRef, killCh, lock, resp>>
       \/ /\ killRef
          /\ killCh' = "closed"
          /\ killRef' = FALSE
          /\ Goto(r, "sshwait")
          /\ UNCHANGED <<lock, resp>>
    /\ UNCHANGED <<phase, running, env, disk, userProcs, loaded, ocram,
                   killDone, sup, dropbear, watcher>>

\* Mutant: the handler does not wait for killCompletion.
AwaitSshKillNoWait(r) ==
    /\ pc[r] = "sshwait"
    /\ Goto(r, "pkill1")
    /\ UNCHANGED <<lock, env, resp>> /\ UNCHANGED HandlerUnchanged

\* http.go 369: <-s.KexecSshKillCompletion.
AwaitSshKill(r) ==
    /\ pc[r] = "sshwait"
    /\ killDone
    /\ Goto(r, "pkill1")
    /\ UNCHANGED <<lock, env, resp>> /\ UNCHANGED HandlerUnchanged

(***************************************************************************)
(* http.go 373-386: pkill -SIGKILL -U 1000 until two runs in a row exit   *)
(* non-zero (nothing matched).  A run that matches kills every process it *)
(* scanned; a process that forks between the scan and its SIGKILL leaves  *)
(* a child the run missed.                                                 *)
(***************************************************************************)
PkillNext(r) == IF pc[r] = "pkill1" THEN "pkill2" ELSE "unmount"

PkillNoMatch(r) ==
    /\ pc[r] \in {"pkill1", "pkill2"}
    /\ userProcs = 0
    /\ Goto(r, PkillNext(r))
    /\ UNCHANGED <<lock, env, resp>> /\ UNCHANGED HandlerUnchanged

PkillClears(r) ==
    /\ pc[r] \in {"pkill1", "pkill2"}
    /\ userProcs > 0
    /\ userProcs' = 0
    /\ Goto(r, "pkill1")
    /\ UNCHANGED <<phase, running, lock, env, resp, killRef, disk, loaded, ocram, sshVars>>

PkillRaced(r) ==
    /\ pc[r] \in {"pkill1", "pkill2"}
    /\ userProcs > 0
    /\ userProcs' \in 1..userProcs
    /\ Goto(r, "pkill1")
    /\ UNCHANGED <<phase, running, lock, env, resp, killRef, disk, loaded, ocram, sshVars>>

\* http.go 388-401: unmount /vroot/tmp and every data disk; failures
\* (not mounted, busy) are logged and ignored.
Unmount(r) ==
    /\ pc[r] = "unmount"
    /\ disk' = IF disk = "mounted" THEN "unmounted" ELSE disk
    /\ Goto(r, "ocram")
    /\ UNCHANGED <<phase, running, lock, env, resp, killRef, userProcs, loaded, ocram, sshVars>>

\* http.go 404-408: stage the package's config in SRAM.
StageConfig(r) ==
    /\ pc[r] = "ocram"
    /\ \/ /\ WriteConfig(env[r].config)
          /\ Goto(r, "load")
          /\ UNCHANGED <<lock, resp>>
       \/ /\ ~WriteConfigOk(env[r].config)
          /\ Fail(r, 400)
          /\ UNCHANGED ocram
    /\ UNCHANGED <<phase, running, env, killRef, disk, userProcs, loaded, sshVars>>

\* http.go 410-424: &pkg.Kernel[0] panics on an empty kernel; otherwise
\* kexec_load either accepts the image or fails with an errno (400).
KexecLoad(r) ==
    /\ pc[r] = "load"
    /\ \/ /\ env[r].kernel = EmptyKernel
          /\ Panic(r)
          /\ UNCHANGED loaded
       \/ /\ env[r].kernel # EmptyKernel
          /\ loaded' = Package(env[r])
          /\ Goto(r, "respond")
          /\ UNCHANGED <<lock, resp>>
       \/ /\ env[r].kernel # EmptyKernel
          /\ Fail(r, 400)
          /\ UNCHANGED loaded
    /\ UNCHANGED <<phase, running, env, killRef, disk, userProcs, ocram, sshVars>>

\* http.go 429-443: a goroutine syncs the logger and writes 200; the
\* handler waits for it at most 15 s (Logger.Sync blocks while the kafka
\* sink cannot deliver).
Respond(r) ==
    /\ pc[r] = "respond"
    /\ \/ resp' = [resp EXCEPT ![r] = 200]
       \/ UNCHANGED resp
    /\ Goto(r, "reboot")
    /\ UNCHANGED <<lock, env>> /\ UNCHANGED HandlerUnchanged

\* http.go 445-448: reboot(LINUX_REBOOT_CMD_KEXEC).  If it returns,
\* logger.Fatal exits init, the kernel panics and the board resets; the
\* SRAM may or may not keep its contents across that reset.
Reboot(r) ==
    /\ pc[r] = "reboot"
    /\ \/ /\ phase' = "kexec"
          /\ UNCHANGED ocram
       \/ /\ phase' = "reset"
          /\ ocram' \in {ocram, Erased}
    /\ UNCHANGED <<running, lock, pc, env, resp, killRef, disk, userProcs, loaded, sshVars>>

Handler(r) ==
    \/ ReadAndUnseal(r) \/ CloseSshKill(r) \/ AwaitSshKill(r)
    \/ PkillNoMatch(r) \/ PkillRaced(r) \/ PkillClears(r) \/ Unmount(r)
    \/ StageConfig(r) \/ KexecLoad(r) \/ Respond(r) \/ Reboot(r)

-----------------------------------------------------------------------------
(***************************************************************************)
(* The rest of the running system.                                         *)
(***************************************************************************)
EnvUnchanged == <<phase, running, lock, pc, env, resp, killRef, loaded>>

\* main.go 90-102: the disk goroutine runs cryptsetup luksOpen and mount.
OpenDisk ==
    /\ disk = "opening"
    /\ disk' \in {"mounted", "failed"}
    /\ UNCHANGED <<userProcs, ocram, sshVars>> /\ UNCHANGED EnvUnchanged

\* A user logs in through dropbear, or a user process forks or exits.
UserLogin ==
    /\ dropbear = "alive"
    /\ userProcs < MaxProcs
    /\ userProcs' = userProcs + 1
    /\ UNCHANGED <<disk, ocram, sshVars>> /\ UNCHANGED EnvUnchanged

UserFork ==
    /\ userProcs \in 1..(MaxProcs - 1)
    /\ userProcs' = userProcs + 1
    /\ UNCHANGED <<disk, ocram, sshVars>> /\ UNCHANGED EnvUnchanged

UserExit ==
    /\ userProcs > 0
    /\ userProcs' = userProcs - 1
    /\ UNCHANGED <<disk, ocram, sshVars>> /\ UNCHANGED EnvUnchanged

\* The supervisor's goroutines, and dropbear exiting by itself.
Supervisor ==
    /\ SshStep
    /\ UNCHANGED <<disk, userProcs, ocram>> /\ UNCHANGED EnvUnchanged

DropbearCrash ==
    /\ DropbearExit
    /\ UNCHANGED <<disk, userProcs, ocram>> /\ UNCHANGED EnvUnchanged

\* Init exits (/debug/crash, a fatal log) or the board resets.
Crash ==
    /\ phase' = "reset"
    /\ ocram' \in {ocram, Erased}
    /\ UNCHANGED <<running, lock, pc, env, resp, killRef, disk, userProcs, loaded, sshVars>>

(***************************************************************************)
(* The next boot, loadConfig (bootstrap.go 18-45) with ocram.go 15-36    *)
(* and loadConfigFromGs0 (bootstrap.go 64-133):                          *)
(* the stripe is read and erased; if its hash matches, its config is     *)
(* used, otherwise the operator pastes one on the serial console (the    *)
(* paste loop only returns a config whose hash matched).  After a kexec  *)
(* the loaded kernel runs, after a reset the firmware's.                 *)
(***************************************************************************)
Boot ==
    /\ phase \in {"kexec", "reset"}
    /\ \E kernel \in {IF phase = "kexec" THEN loaded.kernel ELSE BaseKernel} :
          \/ /\ LoadOk
             /\ \E c \in {ocram} : NextBootState(kernel, c)
          \/ /\ ~LoadOk
             /\ \E c \in SerialConfigs : NextBootState(kernel, c)
    /\ DumpAndErase

Next ==
    \/ \E r \in Requests : phase = "up" /\ (TryLock(r) \/ Handler(r))
    \/ phase = "up" /\ (OpenDisk \/ UserLogin \/ UserFork \/ UserExit \/ Supervisor \/ DropbearCrash \/ Crash)
    \/ Boot

(***************************************************************************)
(* Fairness: the handler goroutines, the supervisor's goroutines and the  *)
(* next boot are scheduled; clients, users, disks and resets are not.    *)
(* A pkill run is assumed not to lose the fork race forever.             *)
(***************************************************************************)
Fairness ==
    /\ \A r \in Requests : WF_vars(phase = "up" /\ Handler(r))
    /\ \A r \in Requests : WF_vars(phase = "up" /\ PkillClears(r))
    /\ WF_vars(phase = "up" /\ Supervisor)
    /\ WF_vars(Boot)

Spec == Init /\ [][Next]_vars

FairSpec == Spec /\ Fairness

-----------------------------------------------------------------------------
(***************************************************************************)
(* Properties.                                                             *)
(***************************************************************************)

\* The envelopes whose package is authentic and well formed: everything
\* Unseal checks except the version.
SignedPackages ==
    {Package(e) : e \in {x \in Envelopes : UnsealOk(-1, x)}}

\* The running version: the floor ApiServer.kexec passes to Unseal.
RunningVersion(s) == s.config.version

Abstract == INSTANCE KexecAbstract
                WITH system <- running, Signed <- SignedPackages, Floor <- RunningVersion

\* The primary init implements KexecAbstract: every boot after a kexec runs
\* a kernel together with the very config it was sealed with, and that
\* config's version is not below the version of the boot that accepted it.
\* This rests on the lock keeping two handlers' SRAM writes and kexec_loads
\* apart (http.go 339, 404, 416), on Unseal's anti-rollback check
\* (lib.go 78), and on the staged config surviving the trip through SRAM
\* and loadConfig (ocram.go, bootstrap.go 257-265).
KexecRefinement == Abstract!AbsSpec

\* Once a handler is past the pkill loop (unmounting, staging, loading,
\* rebooting), no uid-1000 process is alive and none can appear: dropbear
\* is dead and its supervisor will not restart it (http.go 366-386 with
\* ssh.go 114-149).
TeardownQuiescent ==
    \A r \in Requests :
        pc[r] \in AfterPkill =>
            /\ userProcs = 0
            /\ dropbear # "alive"
            /\ sup \in {"none", "done"}

LockEventuallyReleased ==
    \A r \in Requests : (lock = r) ~> (lock # r \/ phase # "up")

\* When the kexec reboot is issued no data disk is still mounted
\* (spec 4.5 step 4: each configured data disk is unmounted before the
\* config is staged and the kernel loaded; http.go 393-401).
DisksUnmountedAtKexec == phase = "kexec" => disk # "mounted"

=============================================================================
