----------------------------- MODULE ApiGateway -----------------------------
(***************************************************************************)
(* Admission to the init's API (homegw-init/http.go 74-265): the gin      *)
(* middleware's 10-wide semaphore with the /kexec/ exemption, the HTTP/3  *)
(* accept loop's connection semaphore, and vehicle_data, which waits for  *)
(* the vehicle list task (concurrency/value_task.go, tesla-api fetch      *)
(* with unbounded backoff) and then takes the vehicle's 3-wide semaphore. *)
(*                                                                         *)
(* A request arrives over h2 (no connection cap) or h3 (one QUIC          *)
(* connection per request, here); a quicssh session holds a QUIC         *)
(* connection until its relay returns (the relay itself is SshRelay).    *)
(***************************************************************************)
EXTENDS Naturals, FiniteSets

CONSTANTS Requests, \* concurrent HTTP requests
          Sessions, \* quicssh sessions
          GCap,     \* the gin semaphore (10)
          VCap,     \* VehicleApi.Sem (MAX_CONCURRENCY = 3)
          QCap      \* max_concurrent_quic_connections (default 100)

Routes == {"kexec", "tesla", "debug", "panic"}  \* /kexec/trigger, vehicle_data,
                                                \* another /debug call, /debug/panic
Transports == {"h2", "h3"}

VARIABLES pc,     \* position of each request
          route,  \* its route
          tr,     \* its transport
          gslot,  \* the middleware frame that took a gin slot is active
          vslot,  \* vehicleData's deferred <-v.Sem is registered
          gsem,   \* len(sem) of the gin middleware
          vsem,   \* len(v.Sem)
          qsem,   \* len(sem) of the QUIC accept loop
          acc,    \* the accept loop: acquiring a slot or in Accept
          qopen,  \* QUIC connections whose goroutine is running
          ssh,    \* state of each quicssh session
          vready  \* the vehicle ValueTask's channel is closed

vars == <<pc, route, tr, gslot, vslot, gsem, vsem, qsem, acc, qopen, ssh, vready>>

PCs == {"idle", "dialing", "mw", "vwait", "vsem", "data", "handler", "kexec", "done"}

Init ==
    /\ pc = [r \in Requests |-> "idle"]
    /\ route = [r \in Requests |-> "debug"] /\ tr = [r \in Requests |-> "h2"]
    /\ gslot = [r \in Requests |-> FALSE] /\ vslot = [r \in Requests |-> FALSE]
    /\ gsem = 0 /\ vsem = 0 /\ qsem = 0
    /\ acc = "acquire" /\ qopen = {}
    /\ ssh = [s \in Sessions |-> "idle"]
    /\ vready = FALSE

Goto(r, p) == pc' = [pc EXCEPT ![r] = p]

\* The deferred <-sem of the gin middleware runs as its frame returns.
ReleaseGlobal(r) == gslot' = [gslot EXCEPT ![r] = FALSE] /\ gsem' = gsem - 1

-----------------------------------------------------------------------------
\* A client sends a request: over h2 it reaches gin at once, over h3 it
\* first needs its QUIC connection accepted.
Arrive(r) ==
    /\ pc[r] = "idle"
    /\ \E rt \in Routes, t \in Transports :
         /\ route' = [route EXCEPT ![r] = rt] /\ tr' = [tr EXCEPT ![r] = t]
         /\ Goto(r, IF t = "h2" THEN "mw" ELSE "dialing")
    /\ UNCHANGED <<gslot, vslot, gsem, vsem, qsem, acc, qopen, ssh, vready>>

\* A quicssh client dials.
SshDial(s) ==
    /\ ssh[s] = "idle"
    /\ ssh' = [ssh EXCEPT ![s] = "dialing"]
    /\ UNCHANGED <<pc, route, tr, gslot, vslot, gsem, vsem, qsem, acc, qopen, vready>>

\* startQuicServer, line 208: sem <- struct{}{} blocks while the cap is held.
AcceptAcquire ==
    /\ acc = "acquire" /\ qsem < QCap
    /\ qsem' = qsem + 1 /\ acc' = "accept"
    /\ UNCHANGED <<pc, route, tr, gslot, vslot, gsem, vsem, qopen, ssh, vready>>

\* Lines 209-228: Accept returns a dialing connection; its goroutine owns
\* the slot, and dispatches on ALPN: h3 to gin, quicssh to the relay.
Accept ==
    /\ acc = "accept"
    /\ \/ \E r \in Requests :
            /\ pc[r] = "dialing"
            /\ Goto(r, "mw") /\ qopen' = qopen \cup {r}
            /\ UNCHANGED ssh
       \/ \E s \in Sessions :
            /\ ssh[s] = "dialing"
            /\ ssh' = [ssh EXCEPT ![s] = "open"] /\ qopen' = qopen \cup {s}
            /\ UNCHANGED pc
    /\ acc' = "acquire"
    /\ UNCHANGED <<route, tr, gslot, vslot, gsem, vsem, qsem, vready>>

\* Lines 81-97: /kexec/ paths skip the semaphore; others take a slot
\* without blocking and run the handler, or get 429.
Middleware(r) ==
    /\ pc[r] = "mw"
    /\ \/ /\ route[r] = "kexec"
          /\ Goto(r, "kexec") /\ UNCHANGED <<gsem, gslot>>
       \/ /\ route[r] # "kexec" /\ gsem < GCap
          /\ gsem' = gsem + 1 /\ gslot' = [gslot EXCEPT ![r] = TRUE]
          /\ Goto(r, IF route[r] = "tesla" THEN "vwait" ELSE "handler")
       \/ /\ route[r] # "kexec" /\ gsem = GCap
          /\ Goto(r, "done") /\ UNCHANGED <<gsem, gslot>>
    /\ UNCHANGED <<route, tr, vslot, vsem, qsem, acc, qopen, ssh, vready>>

\* tesla-api lib.go 44-46, 60-90: fetchVehicle retries with backoff that
\* never gives up (MaxElapsedTime = 0, context.Background()), and returns
\* once the vehicle is found; ValueTask closes its channel (value_task.go
\* 10-13).  Nothing bounds how long that takes.
VehicleReady ==
    /\ ~vready
    /\ vready' = TRUE
    /\ UNCHANGED <<pc, route, tr, gslot, vslot, gsem, vsem, qsem, acc, qopen, ssh>>

\* vehicleData, lines 242-245: the select sees the task's channel closed.
VehicleWait(r) ==
    /\ pc[r] = "vwait" /\ vready
    /\ Goto(r, "vsem")
    /\ UNCHANGED <<route, tr, gslot, vslot, gsem, vsem, qsem, acc, qopen, ssh, vready>>

\* Mutant: the early return on a cancelled request skips the release.
ClientGoneNoRelease(r) ==
    /\ pc[r] = "vwait"
    /\ Goto(r, "done")
    /\ UNCHANGED <<route, tr, gslot, vslot, gsem, vsem, qsem, acc, qopen, ssh, vready>>

\* Lines 246-247: the client went away first; the handler returns, and the
\* middleware's deferred release runs.
ClientGone(r) ==
    /\ pc[r] = "vwait"
    /\ ReleaseGlobal(r) /\ Goto(r, "done")
    /\ UNCHANGED <<route, tr, vslot, vsem, qsem, acc, qopen, ssh, vready>>

\* Lines 250-256: a non-blocking take of v.Sem, or 429.
VehicleSem(r) ==
    /\ pc[r] = "vsem"
    /\ \/ /\ vsem < VCap
          /\ vsem' = vsem + 1 /\ vslot' = [vslot EXCEPT ![r] = TRUE]
          /\ Goto(r, "data") /\ UNCHANGED <<gsem, gslot>>
       \/ /\ vsem = VCap
          /\ ReleaseGlobal(r) /\ Goto(r, "done") /\ UNCHANGED <<vsem, vslot>>
    /\ UNCHANGED <<route, tr, qsem, acc, qopen, ssh, vready>>

\* Lines 258-265: vehicle.Data() answers 200 or 500; the deferred <-v.Sem
\* and then the middleware's <-sem run.
VehicleData(r) ==
    /\ pc[r] = "data"
    /\ vsem' = vsem - 1 /\ vslot' = [vslot EXCEPT ![r] = FALSE]
    /\ ReleaseGlobal(r) /\ Goto(r, "done")
    /\ UNCHANGED <<route, tr, qsem, acc, qopen, ssh, vready>>

\* Mutant: the slot released after ctx.Next() rather than deferred, so a
\* panic unwinding through the middleware skips it.
HandlerReleaseOnReturn(r) ==
    /\ pc[r] = "handler"
    /\ gslot' = [gslot EXCEPT ![r] = FALSE]
    /\ gsem' = IF route[r] = "panic" THEN gsem ELSE gsem - 1
    /\ Goto(r, "done")
    /\ UNCHANGED <<route, tr, vslot, vsem, qsem, acc, qopen, ssh, vready>>

\* Lines 136-151: a debug handler returns; /debug/panic panics, the panic
\* unwinds through the semaphore middleware, whose deferred <-sem runs, to
\* gin.Recovery (line 76), which answers 500.
Handler(r) ==
    /\ pc[r] = "handler"
    /\ ReleaseGlobal(r) /\ Goto(r, "done")
    /\ UNCHANGED <<route, tr, vslot, vsem, qsem, acc, qopen, ssh, vready>>

\* The kexec handler (HgwInit) answers; it holds no gin slot.
KexecDone(r) ==
    /\ pc[r] = "kexec"
    /\ Goto(r, "done")
    /\ UNCHANGED <<route, tr, gslot, vslot, gsem, vsem, qsem, acc, qopen, ssh, vready>>

\* Lines 219-221: the client (or quic-go's idle timeout) closes an h3
\* connection after its response; ServeQUICConn returns and the deferred
\* <-sem frees the slot.
ConnClose(r) ==
    /\ r \in qopen /\ pc[r] = "done"
    /\ qopen' = qopen \ {r} /\ qsem' = qsem - 1
    /\ UNCHANGED <<pc, route, tr, gslot, vslot, gsem, vsem, acc, ssh, vready>>

\* Lines 222-223: relayToLocalSSH returns when the ssh session ends.
SessionEnd(s) ==
    /\ ssh[s] = "open"
    /\ ssh' = [ssh EXCEPT ![s] = "idle"]
    /\ qopen' = qopen \ {s} /\ qsem' = qsem - 1
    /\ UNCHANGED <<pc, route, tr, gslot, vslot, gsem, vsem, acc, vready>>

\* The client is free to send its next request.
Reuse(r) ==
    /\ pc[r] = "done" /\ r \notin qopen
    /\ Goto(r, "idle")
    /\ UNCHANGED <<route, tr, gslot, vslot, gsem, vsem, qsem, acc, qopen, ssh, vready>>

Next ==
    \/ AcceptAcquire \/ Accept \/ VehicleReady
    \/ \E r \in Requests :
         \/ Arrive(r) \/ Middleware(r) \/ VehicleWait(r) \/ ClientGone(r)
         \/ VehicleSem(r) \/ VehicleData(r) \/ Handler(r) \/ KexecDone(r)
         \/ ConnClose(r) \/ Reuse(r)
    \/ \E s \in Sessions : SshDial(s) \/ SessionEnd(s)

\* The server's goroutines are weakly fair: the accept loop, and each
\* request's middleware and handlers once they can run (vehicleData's
\* select too, once the task's channel is closed).  Clients, ssh
\* sessions, the vehicle API upstream and connection closes are not.
Fairness ==
    /\ WF_vars(AcceptAcquire) /\ WF_vars(Accept)
    /\ \A r \in Requests :
         /\ WF_vars(Middleware(r)) /\ WF_vars(VehicleWait(r)) /\ WF_vars(VehicleSem(r))
         /\ WF_vars(VehicleData(r)) /\ WF_vars(Handler(r))

Spec == Init /\ [][Next]_vars

FairSpec == Spec /\ Fairness

-----------------------------------------------------------------------------
(***************************************************************************)
(* Properties.                                                             *)
(***************************************************************************)

\* Every slot of the three semaphores is held by a live owner: the gin
\* slots by middleware frames still running, the vehicle slots by
\* vehicleData calls in Data(), the QUIC slots by connection goroutines or
\* the accept loop waiting in Accept.  So after panics, client
\* disconnects and 429s nothing leaks, and a 429 means the cap is in use.
SlotsAccounted ==
    /\ gsem = Cardinality({r \in Requests : gslot[r]})
    /\ vsem = Cardinality({r \in Requests : vslot[r]})
    /\ qsem = Cardinality(qopen) + (IF acc = "accept" THEN 1 ELSE 0)
    /\ \A r \in Requests :
         /\ gslot[r] => pc[r] \in {"vwait", "vsem", "data", "handler"}
         /\ vslot[r] => pc[r] = "data"
         /\ r \in qopen => pc[r] \notin {"idle", "dialing"}

\* Once the vehicle list is loaded, every gin slot comes back: no handler
\* keeps one forever, whether vehicle_data's client stays or leaves, its
\* v.Sem is free or full (http.go 88-91, 242-256).  Until the list loads,
\* a waiting vehicle_data request whose client stays keeps its slot, so
\* enough of them turn every other non-kexec call away with 429.
GinSlotsReturn ==
    \A r \in Requests : (gslot[r] /\ vready) ~> ~gslot[r]
====
