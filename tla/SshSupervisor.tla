---------------------------- MODULE SshSupervisor ----------------------------
(***************************************************************************)
(* The dropbear supervisor of homegw-init/ssh.go (SshServerConfig.Spawn)   *)
(* and the one-shot kill channel pair it shares with the kexec handler.   *)
(*                                                                         *)
(*   killCh    the `kill` channel: "open", or "closed" by the handler     *)
(*   killDone  `killCompletion` has been closed                           *)
(*   sup       the supervisor goroutine: "none" (never started), "spawn"  *)
(*             (about to call runOnce), "wait" (in proc.Wait), "sleep"    *)
(*             (the 1 s restart delay), "done" (returned)                 *)
(*   dropbear  the current dropbear process: "none", "alive", or "dead"   *)
(*             (exited, not yet reaped by proc.Wait)                      *)
(*   watcher   the goroutine selecting on kill and stop: "none", "armed", *)
(*             or "stopped" (stop closed, select not yet returned)        *)
(***************************************************************************)
VARIABLES killCh, killDone, sup, dropbear, watcher

sshVars == <<killCh, killDone, sup, dropbear, watcher>>

\* The ssh_server section of a config: absent, present but Spawn returns an
\* error before starting the goroutine (undecodable host key, pipe or
\* memfd failure), or present and valid.
SshModes == {"none", "bad", "ok"}

SshTypeOK ==
    /\ killCh \in {"open", "closed"}
    /\ killDone \in BOOLEAN
    /\ sup \in {"none", "spawn", "wait", "sleep", "done"}
    /\ dropbear \in {"none", "alive", "dead"}
    /\ watcher \in {"none", "armed", "stopped"}

(***************************************************************************)
(* main.go 112-123 with Spawn, ssh.go 23-53 and 114: without an ssh        *)
(* config main closes killCompletion itself; a Spawn that fails returns   *)
(* its error before the goroutine (and its deferred close) exists.        *)
(***************************************************************************)
SshInit(mode) ==
    /\ killCh = "open"
    /\ killDone = (mode = "none")
    /\ sup = IF mode = "ok" THEN "spawn" ELSE "none"
    /\ dropbear = "none"
    /\ watcher = "none"

\* The same, as the state the next boot starts in.
SshBoot(mode) ==
    /\ killCh' = "open"
    /\ killDone' = (mode = "none")
    /\ sup' = IF mode = "ok" THEN "spawn" ELSE "none"
    /\ dropbear' = "none"
    /\ watcher' = "none"

\* runOnce, ssh.go 54-112 and 118-136: dropbear is started under ptrace,
\* awaited in its stopped state, detached, and a watcher is armed.  Any
\* failure kills the child and breaks the loop, closing killCompletion.
RunOnce ==
    /\ sup = "spawn"
    /\ \/ /\ dropbear' = "alive"
          /\ watcher' = "armed"
          /\ sup' = "wait"
          /\ UNCHANGED killDone
       \/ /\ sup' = "done"
          /\ killDone' = TRUE
          /\ UNCHANGED <<dropbear, watcher>>
    /\ UNCHANGED killCh

\* dropbear exits by itself (crash, OOM kill).
DropbearExit ==
    /\ dropbear = "alive"
    /\ dropbear' = "dead"
    /\ UNCHANGED <<killCh, killDone, sup, watcher>>

\* ssh.go 125-133: the watcher's select finds kill closed and SIGKILLs the
\* process group of the pid it was armed with.  From "stopped" that pid has
\* already been reaped: the signal reaches no modelled process.
WatcherKill ==
    /\ watcher \in {"armed", "stopped"}
    /\ killCh = "closed"
    /\ watcher' = "none"
    /\ dropbear' = IF watcher = "armed" /\ dropbear = "alive" THEN "dead" ELSE dropbear
    /\ UNCHANGED <<killCh, killDone, sup>>

\* ssh.go 134: the select takes the closed stop channel.
WatcherStop ==
    /\ watcher = "stopped"
    /\ watcher' = "none"
    /\ UNCHANGED <<killCh, killDone, sup, dropbear>>

\* Mutant: after proc.Wait the loop restarts dropbear without checking kill.
ReapIgnoreKill ==
    /\ sup = "wait"
    /\ dropbear = "dead"
    /\ dropbear' = "none"
    /\ watcher' = IF watcher = "armed" THEN "stopped" ELSE watcher
    /\ sup' = "sleep"
    /\ UNCHANGED <<killCh, killDone>>

\* ssh.go 137-145: proc.Wait returns, stop is closed, and a closed kill
\* ends the goroutine (closing killCompletion); otherwise it sleeps.
Reap ==
    /\ sup = "wait"
    /\ dropbear = "dead"
    /\ dropbear' = "none"
    /\ watcher' = IF watcher = "armed" THEN "stopped" ELSE watcher
    /\ IF killCh = "closed"
         THEN sup' = "done" /\ killDone' = TRUE
         ELSE sup' = "sleep" /\ UNCHANGED killDone
    /\ UNCHANGED killCh

\* ssh.go 146: time.Sleep(1 s), then the loop calls runOnce again.
Restart ==
    /\ sup = "sleep"
    /\ sup' = "spawn"
    /\ UNCHANGED <<killCh, killDone, dropbear, watcher>>

\* The steps of the supervisor's own goroutines (scheduled fairly).
SshStep == RunOnce \/ WatcherKill \/ WatcherStop \/ Reap \/ Restart

SshNext == SshStep \/ DropbearExit
=============================================================================
