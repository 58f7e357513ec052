----------------------------- MODULE KafkaSink -----------------------------
(***************************************************************************)
(* The zap sink that ships log lines to kafka (homegw-libs/kafka-sink/    *)
(* lib.go) and its users in homegw-init: the logger (Write), Sync in the  *)
(* kexec handler and in logger.Fatal, relayKernelLogs (main.go 164), and  *)
(* the goroutine that relays homegw-rt's log pipe (rt-control/lib.go).    *)
(*                                                                         *)
(* zap wraps its sinks in zapcore.Lock, so Write and Sync of one logger   *)
(* hold the same mutex: a Write is one step, and no Write happens while a *)
(* Sync waits.  Each accepted line is a number; the broker's log is the  *)
(* sequence of lines it stored, duplicates included.                     *)
(***************************************************************************)
EXTENDS Naturals, Sequences, SequencesExt

CONSTANTS QCap,        \* capacity of msgChan (1024)
          MaxBatch,    \* lines that reach 256 KiB, the batch limit
          MaxLines,    \* lines logged in a behaviour, kernel records aside
          MaxLostAcks, \* sends the broker stores but answers with an error
          PipeCap,     \* lines homegw-rt's log pipe buffers before its writes block
          MaxKmsg,     \* kernel log records written in a behaviour
          KRing        \* records the kernel's log ring holds before it overwrites

VARIABLES queue,     \* msgChan
          issued,    \* issuedMessages
          completed, \* completedMessages
          total,     \* TotalCompletedMessages
          sender,    \* position of the sender goroutine
          batch,     \* the lines of msg being sent
          broker,    \* what the broker has stored
          lostAcks,  \* stored sends answered with an error so far
          logged,    \* lines handed to Write so far (the next line's number)
          accepted,  \* the lines Write put in msgChan, in order
          syncPc,    \* the Sync caller: idle, wait, done or exited
          fatal,     \* the Sync caller is logger.Fatal
          snap,      \* Sync's currentIssuedMessages
          relay,     \* relayKernelLogs: wait, streaming, logging (a record read), stopped
          pipe,      \* lines homegw-rt has written that the relay has not read
          kmsg,      \* kernel log records written so far (record k is the k-th)
          kpos       \* records the /dev/kmsg reader has read

vars == <<queue, issued, completed, total, sender, batch, broker, lostAcks,
          logged, accepted, syncPc, fatal, snap, relay, pipe, kmsg, kpos>>

SenderPCs == {"sleep", "recv", "batch", "send", "retry"}

\* zapcore.Lock: a Write waits while a Sync holds the mutex.
ZapLockFree == syncPc # "wait"

Init ==
    /\ queue = <<>> /\ issued = 0 /\ completed = 0 /\ total = 0
    /\ sender = "sleep" /\ batch = <<>> /\ broker = <<>> /\ lostAcks = 0
    /\ logged = 0 /\ accepted = <<>>
    /\ syncPc = "idle" /\ fatal = FALSE /\ snap = 0
    /\ relay = "wait" /\ pipe = 0 /\ kmsg = 0 /\ kpos = 0

-----------------------------------------------------------------------------
(* Write, lines 140-148: a non-blocking send of a copy; issuedMessages is *)
(* counted only when the line went in, and a full queue drops it.         *)

\* Mutant: the line counted as issued whether or not the queue took it.
WriteCountsDropped(line) ==
    IF Len(queue) < QCap
      THEN /\ queue' = Append(queue, line) /\ accepted' = Append(accepted, line)
           /\ issued' = issued + 1
      ELSE UNCHANGED <<queue, accepted>> /\ issued' = issued + 1

WriteLine(line) ==
    IF Len(queue) < QCap
      THEN /\ queue' = Append(queue, line) /\ accepted' = Append(accepted, line)
           /\ issued' = issued + 1
      ELSE UNCHANGED <<queue, accepted, issued>>

\* Any goroutine's logger call: one line through the locked sink.
Write ==
    /\ ZapLockFree /\ syncPc # "exited"
    /\ logged + pipe < MaxLines
    /\ logged' = logged + 1
    /\ WriteLine(logged + 1)
    /\ UNCHANGED <<completed, total, sender, batch, broker, lostAcks,
                   syncPc, fatal, snap, relay, pipe, kmsg, kpos>>

-----------------------------------------------------------------------------
(* The sender goroutine, lines 38-88.                                      *)

SenderUnchanged == UNCHANGED <<issued, logged, accepted, syncPc, fatal, snap, relay, pipe, kmsg, kpos>>

\* Line 40: time.Sleep(1 s).
Sleep ==
    /\ sender = "sleep" /\ syncPc # "exited"
    /\ sender' = "recv"
    /\ UNCHANGED <<queue, completed, total, batch, broker, lostAcks>> /\ SenderUnchanged

\* Lines 42-47: a blocking receive of the first line.
Recv ==
    /\ sender = "recv" /\ syncPc # "exited"
    /\ queue # <<>>
    /\ batch' = <<Head(queue)>> /\ queue' = Tail(queue)
    /\ sender' = "batch"
    /\ UNCHANGED <<completed, total, broker, lostAcks>> /\ SenderUnchanged

\* Lines 50-66: below 256 KiB, append what msgChan holds without blocking.
BatchMore ==
    /\ sender = "batch" /\ syncPc # "exited"
    /\ Len(batch) < MaxBatch /\ queue # <<>>
    /\ batch' = Append(batch, Head(queue)) /\ queue' = Tail(queue)
    /\ UNCHANGED <<sender, completed, total, broker, lostAcks>> /\ SenderUnchanged

\* The size limit, or the select's default on an empty queue.
BatchEnd ==
    /\ sender = "batch" /\ syncPc # "exited"
    /\ Len(batch) >= MaxBatch \/ queue = <<>>
    /\ sender' = "send"
    /\ UNCHANGED <<queue, completed, total, batch, broker, lostAcks>> /\ SenderUnchanged

\* Mutant: numMessages not incremented for the appended lines.
SendOkOneMessage ==
    /\ sender = "send" /\ syncPc # "exited"
    /\ broker' = broker \o batch
    /\ completed' = completed + 1 /\ total' = total + 1
    /\ batch' = <<>> /\ sender' = "sleep"
    /\ UNCHANGED <<queue, lostAcks>> /\ SenderUnchanged

\* Mutant: TotalCompletedMessages not added to.
SendOkNoTotal ==
    /\ sender = "send" /\ syncPc # "exited"
    /\ broker' = broker \o batch
    /\ completed' = completed + Len(batch) /\ UNCHANGED total
    /\ batch' = <<>> /\ sender' = "sleep"
    /\ UNCHANGED <<queue, lostAcks>> /\ SenderUnchanged

\* Lines 68-85: SendMessage succeeds; both counters add numMessages.
SendOk ==
    /\ sender = "send" /\ syncPc # "exited"
    /\ broker' = broker \o batch
    /\ completed' = completed + Len(batch) /\ total' = total + Len(batch)
    /\ batch' = <<>> /\ sender' = "sleep"
    /\ UNCHANGED <<queue, lostAcks>> /\ SenderUnchanged

\* Mutant: the error branch counts the batch as completed.
SendFailCounts ==
    /\ sender = "send" /\ syncPc # "exited"
    /\ completed' = completed + Len(batch) /\ total' = total + Len(batch)
    /\ sender' = "retry"
    /\ UNCHANGED <<queue, batch, broker, lostAcks>> /\ SenderUnchanged

\* Lines 76-78: an error; the 10 s sleep before the same msg is sent again.
SendFail ==
    /\ sender = "send" /\ syncPc # "exited"
    /\ sender' = "retry"
    /\ UNCHANGED <<queue, completed, total, batch, broker, lostAcks>> /\ SenderUnchanged

\* The same error after the broker stored msg (an ack lost or timed out):
\* the retry stores it again.
SendLostAck ==
    /\ sender = "send" /\ syncPc # "exited"
    /\ lostAcks < MaxLostAcks
    /\ broker' = broker \o batch /\ lostAcks' = lostAcks + 1
    /\ sender' = "retry"
    /\ UNCHANGED <<queue, completed, total, batch>> /\ SenderUnchanged

\* The end of the 10 s sleep: back to SendMessage.
Retry ==
    /\ sender = "retry" /\ syncPc # "exited"
    /\ sender' = "send"
    /\ UNCHANGED <<queue, completed, total, batch, broker, lostAcks>> /\ SenderUnchanged

\* The steps that take no answer from the broker.
SenderLocal == Sleep \/ Recv \/ BatchMore \/ BatchEnd \/ Retry

\* SendMessage returns (sarama's own retries and timeouts end).
SendReturns == SendOk \/ SendFail \/ SendLostAck

-----------------------------------------------------------------------------
(* Sync, lines 151-157, under the zap mutex: snapshot issuedMessages and  *)
(* poll every 200 ms until completedMessages reaches it.                  *)

CallerUnchanged == UNCHANGED <<queue, issued, completed, total, sender, batch,
                              broker, lostAcks, logged, accepted, relay, pipe, kmsg, kpos>>

\* logger.Sync (http.go 432, emergency_kexec.go 118, main.go 35).
SyncStart ==
    /\ syncPc \in {"idle", "done"}
    /\ syncPc' = "wait" /\ snap' = issued /\ fatal' = FALSE
    /\ CallerUnchanged

\* logger.Fatal (http.go 447, emergency_kexec.go 122 and the Fatal calls
\* of main, and the rt relay's deferred one, rt-control/lib.go 61-63): zap
\* writes the entry through Write; when the sink took it, zap syncs
\* because the level is above Error, and exits after Sync returns.  When
\* the full queue refused it, the write error returns before the Sync
\* and the process exits at once.
FatalLog ==
    /\ syncPc \in {"idle", "done"}
    /\ logged + pipe < MaxLines
    /\ logged' = logged + 1
    /\ WriteLine(logged + 1)
    /\ \/ Len(queue) < QCap /\ syncPc' = "wait" /\ fatal' = TRUE /\ snap' = issued'
       \/ Len(queue) = QCap /\ syncPc' = "exited" /\ UNCHANGED <<fatal, snap>>
    /\ UNCHANGED <<completed, total, sender, batch, broker, lostAcks, relay, pipe, kmsg, kpos>>

\* Mutant: the loop waits while completedMessages <= currentIssuedMessages.
SyncReturnStrict ==
    /\ syncPc = "wait"
    /\ completed > snap
    /\ syncPc' = IF fatal THEN "exited" ELSE "done"
    /\ UNCHANGED <<fatal, snap>> /\ CallerUnchanged

\* The poll sees completedMessages >= currentIssuedMessages; Sync returns,
\* and after a Fatal the process exits (os.Exit(1)).
SyncReturn ==
    /\ syncPc = "wait"
    /\ completed >= snap
    /\ syncPc' = IF fatal THEN "exited" ELSE "done"
    /\ UNCHANGED <<fatal, snap>> /\ CallerUnchanged

\* The oldest record still in the kernel's ring.
KmsgFirst == IF kmsg > KRing THEN kmsg - KRing + 1 ELSE 1

\* main.go 164-176: relayKernelLogs polls TotalCompletedMessages each
\* second, then opens /dev/kmsg, whose reader starts at the oldest record
\* the ring still holds.
RelayStart ==
    /\ relay = "wait" /\ syncPc # "exited"
    /\ total > 0
    /\ relay' = "streaming" /\ kpos' = KmsgFirst - 1
    /\ UNCHANGED <<queue, issued, completed, total, sender, batch, broker,
                   lostAcks, logged, accepted, syncPc, fatal, snap, pipe, kmsg>>

\* The kernel appends a record to its log ring (printk), overwriting the
\* oldest once the ring is full.
KernelLog ==
    /\ syncPc # "exited" /\ kmsg < MaxKmsg
    /\ kmsg' = kmsg + 1
    /\ UNCHANGED <<queue, issued, completed, total, sender, batch, broker,
                   lostAcks, logged, accepted, syncPc, fatal, snap, relay, pipe, kpos>>

KmsgUnchanged == UNCHANGED <<queue, issued, completed, total, sender, batch, broker,
                             lostAcks, logged, accepted, syncPc, fatal, snap, pipe, kmsg>>

\* main.go 177-178: scanner.Scan reads the next record.  When the ring has
\* overwritten it, read(2) on /dev/kmsg fails with EPIPE; bufio.Scanner
\* stops at any error other than EOF, the loop ends, the deferred Close
\* runs and relayKernelLogs returns without logging anything.
KmsgRead ==
    /\ relay = "streaming" /\ syncPc # "exited"
    /\ kpos < kmsg
    /\ \/ kpos + 1 >= KmsgFirst /\ relay' = "logging" /\ kpos' = kpos + 1
       \/ kpos + 1 < KmsgFirst /\ relay' = "stopped" /\ UNCHANGED kpos
    /\ KmsgUnchanged

\* main.go 179: logger.Info of the record, through the locked sink.
KmsgLog ==
    /\ relay = "logging"
    /\ ZapLockFree /\ syncPc # "exited"
    /\ relay' = "streaming"
    /\ logged' = logged + 1
    /\ WriteLine(logged + 1)
    /\ UNCHANGED <<completed, total, sender, batch, broker, lostAcks,
                   syncPc, fatal, snap, pipe, kmsg, kpos>>

\* homegw-rt writes a log line to the pipe NewRtControl gave it
\* (rt-control/lib.go 21, 49); the write blocks while the pipe is full.
RtEmit ==
    /\ syncPc # "exited"
    /\ pipe < PipeCap /\ logged + pipe < MaxLines
    /\ pipe' = pipe + 1
    /\ UNCHANGED <<queue, issued, completed, total, sender, batch, broker,
                   lostAcks, logged, accepted, syncPc, fatal, snap, relay, kmsg, kpos>>

\* rt-control/lib.go 65-106: the relay goroutine scans one line and logs
\* it (or a parse error) through the same locked logger.
RtRelay ==
    /\ pipe > 0
    /\ ZapLockFree /\ syncPc # "exited"
    /\ pipe' = pipe - 1
    /\ logged' = logged + 1
    /\ WriteLine(logged + 1)
    /\ UNCHANGED <<completed, total, sender, batch, broker, lostAcks,
                   syncPc, fatal, snap, relay, kmsg, kpos>>

\* After os.Exit nothing of the process runs.
Exited == syncPc = "exited" /\ UNCHANGED vars

Next ==
    \/ Write \/ SenderLocal \/ SendReturns
    \/ SyncStart \/ FatalLog \/ SyncReturn \/ RelayStart \/ RtEmit \/ RtRelay
    \/ KernelLog \/ KmsgRead \/ KmsgLog
    \/ Exited

\* The Go scheduler runs every runnable goroutine: the sender's local
\* steps, each SendMessage call returning, the Sync poll and the relay
\* poll are weakly fair.  Callers of Write, Sync and Fatal are not.
Fairness ==
    /\ WF_vars(SenderLocal) /\ WF_vars(SendReturns)
    /\ WF_vars(SyncReturn) /\ WF_vars(RelayStart) /\ WF_vars(KmsgRead)
    \* The relays block on the zap lock, which repeated Syncs take again and
    \* again; sync.Mutex hands it to a waiter after 1 ms (starvation mode).
    /\ SF_vars(RtRelay) /\ SF_vars(KmsgLog)

\* A broker that is reachable again whenever the sender keeps retrying.
BrokerFairness == SF_vars(SendOk)

Spec == Init /\ [][Next]_vars

FairSpec == Spec /\ Fairness /\ BrokerFairness

\* The network may stay down: every send may fail.
UnreliableSpec == Spec /\ Fairness

-----------------------------------------------------------------------------
(***************************************************************************)
(* Properties.                                                             *)
(***************************************************************************)

TypeOK ==
    LET Line == 1..(MaxLines + MaxKmsg) IN
    /\ queue \in Seq(Line) /\ Len(queue) <= QCap
    /\ {issued, completed, total, logged, snap} \subseteq 0..(MaxLines + MaxKmsg)
    /\ lostAcks \in 0..MaxLostAcks
    /\ sender \in SenderPCs /\ batch \in Seq(Line)
    /\ broker \in Seq(Line) /\ accepted \in Seq(Line)
    /\ syncPc \in {"idle", "wait", "done", "exited"} /\ fatal \in BOOLEAN
    /\ relay \in {"wait", "streaming", "logging", "stopped"} /\ pipe \in 0..PipeCap
    /\ kmsg \in 0..MaxKmsg /\ kpos \in 0..kmsg

\* The first n accepted lines.
FirstAccepted(n) == ToSet(SubSeq(accepted, 1, n))

\* When Sync returns (and so before the kexec handler's 200 is written,
\* or before a Fatal whose entry the sink accepted exits), every line
\* accepted before Sync was called, the Fatal entry included, is stored
\* by the broker.  A Fatal whose entry was dropped exits without a Sync.
SyncSound ==
    syncPc = "done" \/ (syncPc = "exited" /\ fatal)
        => FirstAccepted(snap) \subseteq ToSet(broker)

\* completedMessages counts exactly the lines the broker has: the broker
\* holds the first `completed` accepted lines and, while a send is being
\* retried, possibly the lines of that batch; a retry only repeats them.
DeliveredPrefix ==
    /\ FirstAccepted(completed) \subseteq ToSet(broker)
    /\ ToSet(broker) \subseteq FirstAccepted(completed) \cup ToSet(batch)
    /\ batch = SubSeq(accepted, completed + 1, completed + Len(batch))

\* A Sync, or a Fatal, returns once the broker is reachable again.
SyncTerminates == syncPc = "wait" ~> syncPc \in {"done", "exited"}

\* relayKernelLogs starts streaming the kernel log once a line has been
\* accepted and the broker is reachable.
RelayStarts == issued > 0 ~> (relay # "wait" \/ syncPc = "exited")

\* homegw-rt's log writes do not stay blocked: a full pipe is drained
\* again, although the relay shares the logger's lock with every Sync.
RtPipeDrains == pipe = PipeCap ~> (pipe < PipeCap \/ syncPc = "exited")

\* logger.Fatal ends the process (spec 5: a fatal log followed by process
\* exit, after which the boot process relaunches init), whether or not
\* the log shipper can reach its broker.
FatalExits == fatal ~> syncPc = "exited"

\* Once relayKernelLogs streams /dev/kmsg, every kernel record is read
\* past: relayed, or, if the ring overwrote it first, skipped as lost
\* (the reader moves to the oldest record left), and the relay goes on.
KernelLogsFollowed ==
    \A k \in 1..MaxKmsg :
        (relay = "streaming" /\ kmsg >= k) ~> (kpos >= k \/ syncPc = "exited")
====
