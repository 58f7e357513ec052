---------------------------- MODULE KexecAbstract ----------------------------
(***************************************************************************)
(* What the live-reboot path promises, stated over the running system     *)
(* alone: the board runs the firmware kernel with some config after a    *)
(* reset, and otherwise only ever moves, by a kexec hop, to a signed      *)
(* package -- the kernel and config sealed together -- whose config      *)
(* version is not below the running one (spec 3, "version is monotonically *)
(* non-decreasing across kexec hops": Floor(s) = s.config.version).       *)
(***************************************************************************)
LOCAL INSTANCE Integers

CONSTANTS BaseKernel, \* the kernel the firmware boots
          Configs,    \* every config the board may be given
          Signed,     \* the [kernel, config] pairs sealed and signed together
          Floor(_)    \* the lowest config version a hop from a system may install

VARIABLE system       \* [kernel, config] of the running boot

AbsInit == system \in [kernel : {BaseKernel}, config : Configs]

Hop ==
    \E p \in Signed :
        /\ p.config.version >= Floor(system)
        /\ system' = p

Reset == \E c \in Configs : system' = [kernel |-> BaseKernel, config |-> c]

AbsSpec == AbsInit /\ [][Hop \/ Reset]_system
=============================================================================
