------------------------------ MODULE SshRelay ------------------------------
(***************************************************************************)
(* The quicssh relay (homegw-init/sshrelay.go) and the QUIC connection    *)
(* goroutine that runs it (http.go 216-223).  Per connection,             *)
(* relayToLocalSSH loops: take the connection's one stream slot (or see   *)
(* the connection's context done and return), AcceptStream, and hand the *)
(* stream to a goroutine that dials 127.0.0.1:22 and runs two io.Copy     *)
(* goroutines, ssh->quic and quic->ssh; the second, when it ends, sets a  *)
(* read deadline on the TCP connection to stop the first.                 *)
(*                                                                         *)
(* The accept loop's semaphore (http.go 208) is shared by the sessions;  *)
(* h3 connections, which also take it, are ApiGateway's.  A session is    *)
(* one client: it dials its next connection after the previous one's     *)
(* stream goroutine ended.                                                 *)
(***************************************************************************)
EXTENDS Naturals

CONSTANTS Sessions, \* quicssh clients
          QCap      \* max_concurrent_quic_connections

\* Each session's state.  conn: the QUIC connection, "gone" once its
\* context is done (the client closed it or it timed out).  loop:
\* relayToLocalSSH at its select ("sem"), in AcceptStream ("accept"),
\* returned ("out"), or its connection goroutine has returned too
\* ("ended").  strm: the stream goroutine, holding the stream slot while
\* not "none".  up/down: the ssh->quic and quic->ssh copies are running.
\* cli: the client's stream: none, opened ("req"), accepted ("open"), or
\* its send side closed ("eof").  peer: the TCP connection to dropbear.
VARIABLES ssh,
          qsem  \* len(sem) of the QUIC accept loop

vars == <<ssh, qsem>>

SshIdle == [conn |-> "idle", loop |-> "sem", strm |-> "none", up |-> FALSE,
            down |-> FALSE, cli |-> "none", peer |-> "closed"]

Init == ssh = [s \in Sessions |-> SshIdle] /\ qsem = 0

Set(s, f) == ssh' = [ssh EXCEPT ![s] = f] /\ UNCHANGED qsem

-----------------------------------------------------------------------------
\* A quicssh client dials.
Dial(s) ==
    /\ ssh[s].conn = "idle" \/ ssh[s].loop = "ended"
    /\ ssh[s].strm = "none"
    /\ Set(s, [SshIdle EXCEPT !.conn = "dialing"])

\* Mutant: the slot taken without waiting for one to be free.
ConnStartNoCap(s) ==
    /\ ssh[s].conn = "dialing"
    /\ ssh' = [ssh EXCEPT ![s] = [@ EXCEPT !.conn = "open", !.loop = "sem"]]
    /\ qsem' = qsem + 1

\* http.go 207-222: the loop takes a slot, Accept returns the connection,
\* and its goroutine, quicssh negotiated, calls relayToLocalSSH.
ConnStart(s) ==
    /\ ssh[s].conn = "dialing" /\ qsem < QCap
    /\ ssh' = [ssh EXCEPT ![s] = [@ EXCEPT !.conn = "open", !.loop = "sem"]]
    /\ qsem' = qsem + 1

\* http.go 218-219: relayToLocalSSH returned; the deferred CloseWithError
\* and <-sem run.  A stream goroutine may still be running.
ConnEnd(s) ==
    /\ ssh[s].loop = "out"
    /\ ssh' = [ssh EXCEPT ![s].loop = "ended"]
    /\ qsem' = qsem - 1

\* sshrelay.go 18-24: the select takes the stream slot when it is free, or sees
\* the connection's context done and returns; Go picks either when both
\* are ready.
RelaySelect(s) ==
    LET x == ssh[s] IN
    /\ x.conn \in {"open", "gone"} /\ x.loop = "sem"
    /\ \/ x.strm = "none" /\ Set(s, [x EXCEPT !.loop = "accept"])
       \/ x.conn = "gone" /\ Set(s, [x EXCEPT !.loop = "out"])
   

\* Lines 26-32: AcceptStream returns the client's stream, which gets a
\* goroutine, or fails once the connection is closed, and the relay returns.
RelayAccept(s) ==
    LET x == ssh[s] IN
    /\ x.loop = "accept"
    /\ \/ /\ x.conn = "open" /\ x.cli = "req"
          /\ Set(s, [x EXCEPT !.loop = "sem", !.strm = "dial", !.cli = "open"])
       \/ x.conn = "gone" /\ Set(s, [x EXCEPT !.loop = "out"])
   

\* Lines 33-46: dial 127.0.0.1:22 under the connection's context.  It fails
\* when the context is done or dropbear is not listening (killed for a
\* kexec, or between restarts); the deferred stream.Close and <-sem run.
StreamDial(s) ==
    LET x == ssh[s] IN
    /\ x.strm = "dial"
    /\ \/ /\ x.conn = "open"
          /\ Set(s, [x EXCEPT !.strm = "copy", !.up = TRUE, !.down = TRUE, !.peer = "open"])
       \/ Set(s, [x EXCEPT !.strm = "none", !.cli = "none"])
   

\* Mutant: no read deadline; ssh->quic stops only when dropbear closes.
CopyUpNoDeadline(s) ==
    LET x == ssh[s] IN
    /\ x.up /\ x.peer = "closed"
    /\ Set(s, [x EXCEPT !.up = FALSE])
   

\* Lines 52-57: io.Copy(stream, sshConn) returns when dropbear closes the
\* TCP connection, or when its read hits the deadline the other copy set.
CopyUp(s) ==
    LET x == ssh[s] IN
    /\ x.up /\ (x.peer = "closed" \/ ~x.down)
    /\ Set(s, [x EXCEPT !.up = FALSE])
   

\* Lines 58-64: io.Copy(sshConn, stream) returns at the client's EOF or
\* when the connection is gone; then SetReadDeadline(time.Now()).
CopyDown(s) ==
    LET x == ssh[s] IN
    /\ x.down /\ (x.cli = "eof" \/ x.conn = "gone")
    /\ Set(s, [x EXCEPT !.down = FALSE])
   

\* The client writes to a stream whose TCP side dropbear has closed: the
\* write to sshConn fails and io.Copy(sshConn, stream) returns (line 59).
ClientWrite(s) ==
    LET x == ssh[s] IN
    /\ x.down /\ x.peer = "closed" /\ x.cli = "open"
    /\ Set(s, [x EXCEPT !.down = FALSE])
   

\* Lines 33-34, 45, 65: wg.Wait returns; sshConn.Close, stream.Close and
\* <-sem run, and the client reads the end of its stream.
StreamEnd(s) ==
    LET x == ssh[s] IN
    /\ x.strm = "copy" /\ ~x.up /\ ~x.down
    /\ Set(s, [x EXCEPT !.strm = "none", !.peer = "closed", !.cli = "none"])
   

\* The client opens a stream, closes its send side, or closes the
\* connection (or quic-go's idle timeout does).
ClientOpen(s) ==
    /\ ssh[s].conn = "open" /\ ssh[s].cli = "none"
    /\ Set(s, [ssh[s] EXCEPT !.cli = "req"])

ClientEOF(s) ==
    /\ ssh[s].cli = "open"
    /\ Set(s, [ssh[s] EXCEPT !.cli = "eof"])

ClientLeave(s) ==
    /\ ssh[s].conn = "open"
    /\ Set(s, [ssh[s] EXCEPT !.conn = "gone"])

\* The ssh session on dropbear's side ends: the user logs out, or dropbear
\* and its children are killed by a kexec teardown.
PeerClose(s) ==
    /\ ssh[s].strm = "copy" /\ ssh[s].peer = "open"
    /\ Set(s, [ssh[s] EXCEPT !.peer = "closed"])

\* The server goroutines of a session.
RelayStep(s) ==
    \/ RelaySelect(s) \/ RelayAccept(s) \/ StreamDial(s) \/ CopyUp(s)
    \/ CopyDown(s) \/ StreamEnd(s) \/ ConnStart(s) \/ ConnEnd(s)

Next ==
    \E s \in Sessions :
        \/ Dial(s) \/ RelayStep(s) \/ ClientOpen(s) \/ ClientEOF(s)
        \/ ClientLeave(s) \/ ClientWrite(s) \/ PeerClose(s)

\* Each server goroutine's step is weakly fair: the Go scheduler runs a
\* runnable goroutine, and the network delivers what the peer sent.
\* Clients and dropbear are not: they may keep a stream open forever.
Fairness ==
    \A s \in Sessions :
        /\ WF_vars(RelaySelect(s)) /\ WF_vars(RelayAccept(s)) /\ WF_vars(StreamDial(s))
        /\ WF_vars(CopyUp(s)) /\ WF_vars(CopyDown(s)) /\ WF_vars(StreamEnd(s))
        /\ WF_vars(ConnStart(s)) /\ WF_vars(ConnEnd(s))

Spec == Init /\ [][Next]_vars

FairSpec == Spec /\ Fairness

-----------------------------------------------------------------------------
(***************************************************************************)
(* Properties.                                                             *)
(***************************************************************************)

TypeOK ==
    /\ qsem \in 0..QCap
    /\ \A s \in Sessions :
        ssh[s] \in [conn : {"idle", "dialing", "open", "gone"},
                    loop : {"sem", "accept", "out", "ended"},
                    strm : {"none", "dial", "copy"}, up : BOOLEAN, down : BOOLEAN,
                    cli : {"none", "req", "open", "eof"}, peer : {"open", "closed"}]

\* When a quicssh client goes away, whatever its stream was doing, the
\* relay returns and its connection goroutine frees its QUIC slot, and the
\* stream goroutine and both copies end and close the TCP connection to
\* dropbear, even while dropbear keeps it open (sshrelay.go 18-24, 26-30,
\* 63).  Otherwise each dropped client would leave a dropbear session and
\* three goroutines behind.
RelayTeardown ==
    \A s \in Sessions :
        ssh[s].conn = "gone" ~> (ssh[s].loop = "ended" /\ ssh[s].strm = "none")
=============================================================================
