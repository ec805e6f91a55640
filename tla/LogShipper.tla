----------------------------- MODULE LogShipper -----------------------------
(***************************************************************************)
(* The shipping of log documents to OpenSearch (monitoring/shipper.rs): a  *)
(* bounded channel that producers never wait on, and one background task   *)
(* that buffers the documents and sends them in batches.                   *)
(*                                                                         *)
(* The task is in its select, or awaits the answer to one _bulk request.   *)
(* Documents are numbered in the order in which they are recorded.         *)
(***************************************************************************)
EXTENDS Naturals, Sequences, FiniteSets, SequencesExt

CONSTANTS
    Capacity,   \* OPENSEARCH_CHANNEL_CAPACITY
    BatchSize,  \* OPENSEARCH_BATCH_SIZE
    MaxDocs     \* bound on the documents recorded

\* The configuration raises both sizes to 1 at least.
ASSUME SizesAssumption ==
    /\ Capacity \in Nat \ {0}
    /\ BatchSize \in Nat \ {0}
    /\ MaxDocs \in Nat

VARIABLES
    recorded,   \* the number of documents recorded so far
    channel,    \* the bounded channel
    buf,        \* the buffer of the task
    batch,      \* the batch whose answer the task awaits
    pc,         \* "select", the arm of the select that sent the batch, or "done"
    dropped,    \* the counter of documents refused since the last report
    serving,    \* the HTTP server runs: its state holds a sender
    keptOpen,   \* GLOBAL_HANDLE holds a sender of this channel, for ever
    exited,     \* the process has ended
    sent,       \* history: the answered batches, in the order of sending
    indexed,    \* the documents that OpenSearch has of them
    abandoned,  \* history: those that it has not
    reported    \* history: the sum of the reports of refused documents

task == <<channel, buf, batch, pc>>
fate == <<sent, indexed, abandoned>>
process == <<serving, keptOpen, exited>>
vars == <<recorded, task, dropped, process, fate, reported>>

Docs == 1..MaxDocs
TypeOK ==
    /\ recorded \in 0..MaxDocs
    /\ channel \in Seq(Docs) /\ Len(channel) <= Capacity
    /\ buf \in Seq(Docs)
    /\ batch \in Seq(Docs)
    /\ pc \in {"select", "recv", "tick", "closed", "done"}
    /\ dropped \in Nat
    /\ serving \in BOOLEAN
    /\ keptOpen \in BOOLEAN
    /\ exited \in BOOLEAN
    /\ sent \in Seq(Docs)
    /\ indexed \subseteq Docs
    /\ abandoned \subseteq Docs
    /\ reported \in Nat

\* No sender is left: recv gives None once the channel is empty.
Closed == ~serving /\ ~keptOpen

\* The buffer is full enough to be sent.
FullSlip(b) == Len(b) > BatchSize
Full(b) == Len(b) >= BatchSize

\* flush of b, in an arm of the select: the buffer is emptied before the request
\* is sent, whatever the answer will be.
FlushKeepingSlip(b, arm) ==
    /\ batch' = b
    /\ buf' = b
    /\ pc' = arm
Flush(b, arm) ==
    /\ batch' = b
    /\ buf' = <<>>
    /\ pc' = arm

\* report_dropped: what the swap leaves in the counter.
AfterReportSlip == dropped
AfterReport == 0
Report ==
    /\ reported' = reported + dropped
    /\ dropped' = AfterReport

-----------------------------------------------------------------------------
(* Operations.                                                             *)

Init ==
    /\ recorded = 0
    /\ channel = <<>>
    /\ buf = <<>>
    /\ batch = <<>>
    /\ pc = "select"
    /\ dropped = 0
    /\ serving = TRUE
    /\ keptOpen \in BOOLEAN    \* only the first handle of a process is kept
    /\ exited = FALSE
    /\ sent = <<>>
    /\ indexed = {}
    /\ abandoned = {}
    /\ reported = 0

\* record, by the middleware or by the tracing layer: try_send, and a document
\* that does not fit is refused and counted.
RecordUnboundedSlip ==
    /\ ~exited
    /\ recorded < MaxDocs
    /\ ~Closed
    /\ recorded' = recorded + 1
    /\ channel' = Append(channel, recorded')
    /\ UNCHANGED <<buf, batch, pc, dropped, process, fate, reported>>
RecordEarlySlip ==
    /\ ~exited
    /\ recorded < MaxDocs
    /\ ~Closed
    /\ recorded' = recorded + 1
    /\ \/ /\ Len(channel) + 1 < Capacity
          /\ channel' = Append(channel, recorded')
          /\ UNCHANGED dropped
       \/ /\ Len(channel) + 1 >= Capacity
          /\ dropped' = dropped + 1
          /\ UNCHANGED channel
    /\ UNCHANGED <<buf, batch, pc, process, fate, reported>>
Record ==
    /\ ~exited
    /\ recorded < MaxDocs
    /\ ~Closed
    /\ recorded' = recorded + 1
    /\ \/ /\ Len(channel) < Capacity
          /\ channel' = Append(channel, recorded')
          /\ UNCHANGED dropped
       \/ /\ Len(channel) = Capacity
          /\ dropped' = dropped + 1
          /\ UNCHANGED channel
    /\ UNCHANGED <<buf, batch, pc, process, fate, reported>>

\* run, recv gives a document.
Receive ==
    LET b == Append(buf, Head(channel)) IN
    /\ ~exited
    /\ pc = "select"
    /\ channel # <<>>
    /\ channel' = Tail(channel)
    /\ \/ /\ Full(b)
          /\ Flush(b, "recv")
       \/ /\ ~Full(b)
          /\ buf' = b
          /\ UNCHANGED <<batch, pc>>
    /\ UNCHANGED <<recorded, dropped, process, fate, reported>>

\* run, recv gives None: the last flush.
ReceiveClosed ==
    /\ ~exited
    /\ pc = "select"
    /\ channel = <<>>
    /\ Closed
    /\ \/ /\ buf # <<>>
          /\ Flush(buf, "closed")
       \/ /\ buf = <<>>
          /\ pc' = "done"
          /\ UNCHANGED <<buf, batch>>
    /\ UNCHANGED <<recorded, channel, dropped, process, fate, reported>>

\* run, the interval has elapsed: flush, then report.
TickReportOnlySlip ==
    /\ ~exited
    /\ pc = "select"
    /\ Report
    /\ UNCHANGED <<recorded, task, process, fate>>
Tick ==
    /\ ~exited
    /\ pc = "select"
    /\ \/ /\ buf # <<>>
          /\ Flush(buf, "tick")
          /\ UNCHANGED <<dropped, reported>>
       \/ /\ buf = <<>>
          /\ Report
          /\ UNCHANGED <<buf, batch, pc>>
    /\ UNCHANGED <<recorded, channel, process, fate>>

\* The answer to _bulk, success, partial failure or error: the task only logs.
\* OpenSearch has the documents in kept; after an error nobody knows which.
Answer(kept) ==
    /\ ~exited
    /\ pc \in {"recv", "tick", "closed"}
    /\ sent' = sent \o batch
    /\ indexed' = indexed \cup kept
    /\ abandoned' = abandoned \cup (ToSet(batch) \ kept)
    /\ batch' = <<>>
    /\ pc' = IF pc = "closed" THEN "done" ELSE "select"
    /\ IF pc = "tick" THEN Report ELSE UNCHANGED <<dropped, reported>>
    /\ UNCHANGED <<recorded, channel, buf, process>>

\* The server has drained its requests and dropped its state.
ServeEnds ==
    /\ ~exited
    /\ serving
    /\ serving' = FALSE
    /\ UNCHANGED <<recorded, task, dropped, keptOpen, exited, fate, reported>>

\* main returns and the runtime goes, with the task wherever it is.
Exit ==
    /\ ~exited
    /\ ~serving
    /\ exited' = TRUE
    /\ UNCHANGED <<recorded, task, dropped, serving, keptOpen, fate, reported>>

AnswerAny == \E kept \in SUBSET ToSet(batch) : Answer(kept)

Next ==
    \/ Record
    \/ Receive \/ ReceiveClosed \/ Tick \/ AnswerAny
    \/ ServeEnds \/ Exit

\* The arms of the select are polled in random order, the interval elapses, and
\* the HTTP client gives every request a timeout.
Fairness == WF_vars(Receive) /\ WF_vars(Tick) /\ WF_vars(AnswerAny)

Spec == Init /\ [][Next]_vars /\ Fairness

-----------------------------------------------------------------------------
(* Properties.                                                             *)

Pipeline == batch \o buf \o channel

\* Documents are sent in the order in which they were recorded, and at most once:
\* what was sent, what is being sent and what waits are one ordered whole.
All == sent \o Pipeline
InOrderOnce == \A i, j \in DOMAIN All : i < j => All[i] < All[j]

\* No document vanishes without a trace: those that are neither on their way,
\* nor indexed, nor in a batch that was logged as failed, are counted.
AllAccounted ==
    recorded = Cardinality(indexed) + Cardinality(abandoned) + Len(Pipeline)
                   + dropped + reported

\* A slow cluster costs no more memory than the channel and one batch.
MemoryBound == Len(Pipeline) <= Capacity + BatchSize

\* Seen from those that record, the channel, the buffer, the batch and the counter
\* are one lossy log: a document is refused only when Capacity documents wait, and
\* what leaves is always the oldest (shipper.rs: "best-effort, jamais bloquants").
Log == INSTANCE LossyLog
       WITH Room <- Capacity, Lot <- BatchSize, waiting <- Pipeline,
            refused <- dropped + reported, ended <- exited
ImplementsLossyLog == Log!Spec

\* While the process runs no document waits for ever, even in a batch that does
\* not fill up.
Settles ==
    \A d \in Docs : d \in ToSet(Pipeline) ~> d \notin ToSet(Pipeline) \/ exited

\* What the loop says of shutdown: a last flush, and only then does it end.  The
\* global handle keeps the channel open, and nothing waits for the task.
ExitDrained == exited => Pipeline = <<>>
=============================================================================
