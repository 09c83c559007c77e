------------------------------ MODULE GridJobs ------------------------------
(***************************************************************************)
(* Grid jobs: GridServerImpl keeps a stream open per worker, and a         *)
(* goroutine of its own sends one job on it five seconds later;            *)
(* startGridWorker of the SDK subscribes and subscribes again when the     *)
(* stream ends.                                                            *)
(*                                                                         *)
(* A GridJob is no protobuf message and no other codec is registered, so   *)
(* every Send of a job fails and the worker's Recv never answers a job:    *)
(* what the worker would do with one cannot happen.                        *)
(***************************************************************************)
EXTENDS Basics

CONSTANT MaxLate   \* bound: goroutines of earlier streams that are still asleep

ASSUME GridAssumption == MaxLate \in Nat

VARIABLES
    worker,   \* startGridWorker: off, retry, listen, pause, closed
    cut,      \* the worker's stream has ended
    asleep,   \* the goroutine of the worker's stream has yet to send its job
    late      \* number of goroutines of earlier streams that have yet to send theirs

gridVars == <<worker, cut, asleep, late>>

GridInit == worker = "off" /\ cut = FALSE /\ asleep = FALSE /\ late = 0

\* Initialize starts the goroutine.
StartGridWorker ==
    /\ worker = "off"
    /\ worker' = "retry"
    /\ UNCHANGED <<cut, asleep, late>>

\* A new stream; the goroutine of the last one outlives its handler.
SubscribeToJobs ==
    /\ worker = "retry"
    /\ worker' = "listen" /\ cut' = FALSE /\ asleep' = TRUE
    /\ IF asleep THEN late < MaxLate /\ late' = late + 1 ELSE UNCHANGED late

\* The call fails; five seconds later the worker tries again.
SubscribeFails ==
    /\ worker = "retry"
    /\ worker' = "pause"
    /\ UNCHANGED <<cut, asleep, late>>

\* The Send of the job fails; gRPC may answer a stream that is still open with the error.
SendJob ==
    /\ asleep
    /\ asleep' = FALSE
    /\ cut' \in {cut, TRUE}
    /\ UNCHANGED <<worker, late>>

SendLateJob ==
    /\ late > 0
    /\ late' = late - 1
    /\ UNCHANGED <<worker, cut, asleep>>

\* The connection of the stream is lost, or MaxConnectionAge is over.
CutStream ==
    /\ worker = "listen" /\ ~cut
    /\ cut' = TRUE
    /\ UNCHANGED <<worker, asleep, late>>

\* Faulty variant: the worker ends with its first stream.
StreamOverReturns ==
    /\ worker = "listen" /\ cut
    /\ worker' = "ended"
    /\ UNCHANGED <<cut, asleep, late>>

\* Recv fails; three seconds later the worker subscribes again.
StreamOver ==
    /\ worker = "listen" /\ cut
    /\ worker' = "pause"
    /\ UNCHANGED <<cut, asleep, late>>

PauseOver ==
    /\ worker = "pause"
    /\ worker' = "retry"
    /\ UNCHANGED <<cut, asleep, late>>

\* The context of the client is cancelled: the call or the Recv fails, and the loop ends.
StopWorker ==
    /\ worker \in {"retry", "listen", "pause"}
    /\ worker' = "closed"
    /\ UNCHANGED <<cut, asleep, late>>

GridNext ==
    \/ StartGridWorker \/ SubscribeToJobs \/ SubscribeFails \/ SendJob \/ SendLateJob
    \/ CutStream \/ StreamOver \/ PauseOver \/ StopWorker

GridFairness ==
    /\ WF_gridVars(SubscribeToJobs \/ SubscribeFails)
    /\ WF_gridVars(StreamOver) /\ WF_gridVars(PauseOver)
    /\ WF_gridVars(SendJob) /\ WF_gridVars(SendLateJob)

GridSpec == GridInit /\ [][GridNext]_gridVars /\ GridFairness

(***************************************************************************)
(* Properties.                                                             *)
(***************************************************************************)
\* Every variable has its type.
GridTypeOK ==
    /\ worker \in {"off", "retry", "listen", "pause", "closed"}
    /\ cut \in BOOLEAN /\ asleep \in BOOLEAN
    /\ late \in 0..MaxLate

\* A worker whose stream has ended listens on a new one in the end, however many
\* attempts fail and streams end in between, unless the client is closed or, from some
\* point on, every attempt fails.
WorkerResubscribes ==
    SF_gridVars(SubscribeToJobs) =>
        ((worker = "listen" /\ cut) ~> ((worker = "listen" /\ ~cut) \/ worker = "closed"))
=============================================================================
