----------------------------- MODULE WorkerRPC ------------------------------
(***************************************************************************)
(* Tensor parallelism in prism_infer/engine/model_runner.py: rank 0 writes *)
(* each call of a ModelRunner method into one shared memory buffer, sets   *)
(* the event of every worker and executes the call itself; a worker waits  *)
(* for its event, reads the buffer, clears the event and executes what it  *)
(* read.                                                                   *)
(*                                                                         *)
(* No answer goes back, not even an exception.  What keeps the ranks       *)
(* together are the collective operations inside `run' (all_reduce, gather)*)
(* and `exit' (barrier), which complete at rank 0 only when every worker   *)
(* has issued its part; NCCL is taken to wait for a worker that has ended  *)
(* without a limit.  The copy and swap methods have none.                  *)
(***************************************************************************)
EXTENDS Naturals, SequencesExt

CONSTANTS
  Worker,      \* the ranks greater than 0
  MaxCalls     \* bound: rank 0 issues at most so many calls

ASSUME RpcAssumption == MaxCalls \in Nat

VARIABLES
  calls,       \* the methods rank 0 has called so far
  shm_size,    \* first four bytes of the buffer: the call whose length they are
  shm_data,    \* the rest: the call whose pickle it is, or Torn
  event,       \* for each worker, whether its event is set
  rank0,       \* the place rank 0 has reached
  to_set,      \* workers whose event rank 0 has still to set
  worker,      \* the place each worker has reached
  size_read,   \* the length a worker has read
  got,         \* the call a worker has read
  executed,    \* the methods a worker has called
  joined,      \* collective operations each worker has taken part in
  joined0,     \* the same for rank 0
  overrun      \* a write began while a call was still unread (ghost)

rank0Vars == <<calls, rank0, to_set, joined0>>
workerVars == <<worker, size_read, got, executed, joined>>
shmVars == <<shm_size, shm_data>>
rpcVars == <<rank0Vars, workerVars, shmVars, event, overrun>>

-----------------------------------------------------------------------------
(***************************************************************************)
(* run, by the ranks that can compute the batch: all of them; rank 0 only, *)
(* since the copies of the workers lack an attribute (WorkerFails of module*)
(* WorkerBatch); or none, since the slots do not match the queries or no   *)
(* graph fits, which every rank finds out for itself.                      *)
(***************************************************************************)
Batches == {"run", "run_rank0_only", "run_nowhere"}

\* The calls that end a worker with an exception.
Unprepared == {"run_rank0_only", "run_nowhere"}

\* The calls in which rank 0 waits for the workers.
Collective == {"run", "run_rank0_only", "exit"}

Methods == Batches \cup {"copy_kv_blocks", "swap_out", "swap_in", "exit"}

\* The order of the calls in LLMEngine.step, and exit between two steps; swap_out
\* and swap_in are swap_blocks with that direction.
MayFollow(m) ==
  CASE m \in Batches -> Methods
    [] m = "copy_kv_blocks" -> {"swap_out", "swap_in"} \cup Batches
    [] m = "swap_out" -> {"swap_in"} \cup Batches
    [] m = "swap_in" -> Batches
    [] OTHER -> {}

\* The first step has nothing to copy or to swap.
NextMethods == IF calls = <<>> THEN Batches \cup {"exit"} ELSE MayFollow(Last(calls))

\* The buffer while its data is being written.
Torn == MaxCalls + 1

CallId == 0 .. MaxCalls

-----------------------------------------------------------------------------
(* Rank 0: call and write_shm.                                             *)

\* The worker has neither a call before it nor one it is reading.
Consumed(w) == ~event[w] /\ worker[w] \notin {"size", "data", "clear"}

\* After an exception the caller of step may go on, and exit is called at the end.
Call(m) ==
  /\ rank0 \in {"idle", "raised"}
  /\ Len(calls) < MaxCalls
  /\ m \in NextMethods
  /\ calls' = Append(calls, m)
  /\ rank0' = "size"
  /\ overrun' = (overrun \/ \E w \in Worker : ~Consumed(w))
  /\ UNCHANGED <<to_set, joined0, workerVars, shmVars, event>>

\* Fault: the length counts its own four bytes.
WriteSizeWithHeader ==
  /\ rank0 = "size"
  /\ shm_size' = Len(calls) + 1
  /\ rank0' = "data"
  /\ UNCHANGED <<calls, to_set, joined0, workerVars, shm_data, event, overrun>>

WriteSize ==
  /\ rank0 = "size"
  /\ shm_size' = Len(calls)
  /\ rank0' = "data"
  /\ UNCHANGED <<calls, to_set, joined0, workerVars, shm_data, event, overrun>>

BeginData ==
  /\ rank0 = "data"
  /\ shm_data' = Torn
  /\ rank0' = "rest"
  /\ UNCHANGED <<calls, to_set, joined0, workerVars, shm_size, event, overrun>>

EndData ==
  /\ rank0 = "rest"
  /\ shm_data' = Len(calls)
  /\ rank0' = "set"
  /\ to_set' = Worker
  /\ UNCHANGED <<calls, joined0, workerVars, shm_size, event, overrun>>

SetEventOnce(w) ==   \* fault: only one worker is woken
  /\ rank0 = "set"
  /\ to_set = Worker
  /\ event' = [event EXCEPT ![w] = TRUE]
  /\ to_set' = {}
  /\ UNCHANGED <<calls, rank0, joined0, workerVars, shmVars, overrun>>

SetEvent(w) ==
  /\ rank0 = "set"
  /\ w \in to_set
  /\ event' = [event EXCEPT ![w] = TRUE]
  /\ to_set' = to_set \ {w}
  /\ UNCHANGED <<calls, rank0, joined0, workerVars, shmVars, overrun>>

\* The method itself: a collective one waits for the workers, a batch that cannot be
\* computed raises before that.
Execute ==
  /\ rank0 = "set"
  /\ to_set = {}
  /\ \/ /\ Last(calls) \in Collective
        /\ joined0' = joined0 + 1
        /\ rank0' = "sync"
     \/ /\ Last(calls) \notin Collective
        /\ rank0' = IF Last(calls) = "run_nowhere" THEN "raised" ELSE "idle"
        /\ UNCHANGED joined0
  /\ UNCHANGED <<calls, to_set, workerVars, shmVars, event, overrun>>

\* Fault: rank 0 does not wait for the result of the batch.
SyncNot ==
  /\ rank0 = "sync"
  /\ rank0' = IF Last(calls) = "exit" THEN "join" ELSE "idle"
  /\ UNCHANGED <<calls, to_set, joined0, workerVars, shmVars, event, overrun>>

\* The sampled tokens are there, or the barrier of exit is passed.
Sync ==
  /\ rank0 = "sync"
  /\ \A w \in Worker : joined[w] >= joined0
  /\ rank0' = IF Last(calls) = "exit" THEN "join" ELSE "idle"
  /\ UNCHANGED <<calls, to_set, joined0, workerVars, shmVars, event, overrun>>

\* LLMEngine.exit joins the processes.
Join ==
  /\ rank0 = "join"
  /\ \A w \in Worker : worker[w] \in {"done", "failed", "raised"}
  /\ rank0' = "end"
  /\ UNCHANGED <<calls, to_set, joined0, workerVars, shmVars, event, overrun>>

-----------------------------------------------------------------------------
(* A worker: loop, read_shm and call.                                      *)

GoTo(w, place) == worker' = [worker EXCEPT ![w] = place]

Wait(w) ==
  /\ worker[w] = "wait"
  /\ event[w]
  /\ GoTo(w, "size")
  /\ UNCHANGED <<rank0Vars, size_read, got, executed, joined, shmVars, event, overrun>>

ReadSize(w) ==
  /\ worker[w] = "size"
  /\ size_read' = [size_read EXCEPT ![w] = shm_size]
  /\ GoTo(w, "data")
  /\ UNCHANGED <<rank0Vars, got, executed, joined, shmVars, event, overrun>>

\* pickle.loads: data of another length than the one read is cut short and
\* fails, or is longer than needed, which pickle ignores.
ReadData(w) ==
  /\ worker[w] = "data"
  /\ \/ /\ shm_data # Torn
        /\ got' = [got EXCEPT ![w] = shm_data]
        /\ GoTo(w, "clear")
     \/ /\ shm_data # size_read[w]
        /\ GoTo(w, "failed")
        /\ UNCHANGED got
  /\ UNCHANGED <<rank0Vars, size_read, executed, joined, shmVars, event, overrun>>

ClearNot(w) ==   \* fault: clear is forgotten
  /\ worker[w] = "clear"
  /\ GoTo(w, "call")
  /\ UNCHANGED <<rank0Vars, size_read, got, executed, joined, shmVars, event, overrun>>

Clear(w) ==
  /\ worker[w] = "clear"
  /\ event' = [event EXCEPT ![w] = FALSE]
  /\ GoTo(w, "call")
  /\ UNCHANGED <<rank0Vars, size_read, got, executed, joined, shmVars, overrun>>

CallMethodForever(w) ==   \* fault: loop does not end with exit
  /\ worker[w] = "call"
  /\ LET m == calls[got[w]]
     IN /\ executed' = [executed EXCEPT ![w] = Append(@, m)]
        /\ joined' = [joined EXCEPT ![w] = IF m \in Collective \ Unprepared THEN @ + 1 ELSE @]
        /\ GoTo(w, IF m \in Unprepared THEN "raised" ELSE "wait")
  /\ UNCHANGED <<rank0Vars, size_read, got, shmVars, event, overrun>>

(***************************************************************************)
(* A worker only queues its part of a batch; in exit it stays at the       *)
(* barrier.  Nothing in loop catches an exception: one in run ends the     *)
(* process before it takes part in the batch.                              *)
(***************************************************************************)
CallMethod(w) ==
  /\ worker[w] = "call"
  /\ LET m == calls[got[w]]
     IN /\ executed' = [executed EXCEPT ![w] = Append(@, m)]
        /\ joined' = [joined EXCEPT ![w] = IF m \in Collective \ Unprepared THEN @ + 1 ELSE @]
        /\ GoTo(w, CASE m \in Unprepared -> "raised"
                     [] m = "exit" -> "barrier"
                     [] OTHER -> "wait")
  /\ UNCHANGED <<rank0Vars, size_read, got, shmVars, event, overrun>>

PassBarrier(w) ==
  /\ worker[w] = "barrier"
  /\ joined0 >= joined[w]
  /\ \A v \in Worker : joined[v] >= joined[w]
  /\ GoTo(w, "done")
  /\ UNCHANGED <<rank0Vars, size_read, got, executed, joined, shmVars, event, overrun>>

-----------------------------------------------------------------------------
\* After the barrier of __init__: the buffer exists and everyone has opened it.
RpcInit ==
  /\ calls = <<>>
  /\ shm_size = 0
  /\ shm_data = 0
  /\ event = [w \in Worker |-> FALSE]
  /\ rank0 = "idle"
  /\ to_set = {}
  /\ worker = [w \in Worker |-> "wait"]
  /\ size_read = [w \in Worker |-> 0]
  /\ got = [w \in Worker |-> 0]
  /\ executed = [w \in Worker |-> <<>>]
  /\ joined = [w \in Worker |-> 0]
  /\ joined0 = 0
  /\ overrun = FALSE

\* What rank 0 does once a call is made.
Rank0Step ==
  \/ WriteSize \/ BeginData \/ EndData \/ (\E w \in Worker : SetEvent(w))
  \/ Execute \/ Sync \/ Join

WorkerStep(w) ==
  Wait(w) \/ ReadSize(w) \/ ReadData(w) \/ Clear(w) \/ CallMethod(w) \/ PassBarrier(w)

RpcNext ==
  \/ \E m \in Methods : Call(m)
  \/ Rank0Step
  \/ \E w \in Worker : WorkerStep(w)

RpcSpec == RpcInit /\ [][RpcNext]_rpcVars

\* Every process goes on when it can; nobody has to call the engine.
FairRpc == RpcSpec /\ WF_rpcVars(Rank0Step) /\ \A w \in Worker : WF_rpcVars(WorkerStep(w))

-----------------------------------------------------------------------------
(* Properties.                                                             *)

\* Every variable has its type; a torn read is no call.
RpcTypeOK ==
  /\ calls \in Seq(Methods)
  /\ Len(calls) <= MaxCalls
  /\ shm_size \in CallId
  /\ shm_data \in CallId \cup {Torn}
  /\ event \in [Worker -> BOOLEAN]
  /\ rank0 \in {"idle", "size", "data", "rest", "set", "sync", "raised", "join", "end"}
  /\ to_set \subseteq Worker
  /\ worker \in [Worker -> {"wait", "size", "data", "clear", "call", "barrier", "done",
                            "failed", "raised"}]
  /\ size_read \in [Worker -> CallId]
  /\ got \in [Worker -> CallId]
  /\ executed \in [Worker -> Seq(Methods)]
  /\ joined \in [Worker -> Nat]
  /\ joined0 \in Nat
  /\ overrun \in BOOLEAN

(***************************************************************************)
(* The comment above loop: a worker performs the operations that rank 0    *)
(* performs, in step with it.  Whatever a worker has executed is a prefix  *)
(* of what rank 0 has called.                                              *)
(***************************************************************************)
WorkersFollow == \A w \in Worker : IsPrefix(executed[w], calls)

(***************************************************************************)
(* Workers follow rank 0 and read whole calls as long as no write begins   *)
(* before the last call has been read by all: the buffer, the lengths and  *)
(* the events then need no answer from the workers.                        *)
(***************************************************************************)
FollowUnlessOverrun ==
  ~overrun => WorkersFollow /\ \A w \in Worker : worker[w] # "failed"

(***************************************************************************)
(* The result of a batch is the missing answer: rank 0 returns from run    *)
(* (and exit) only after every worker has read the call, cleared its event *)
(* and done its part without an exception, so the next write cannot        *)
(* overrun.  After a copy or a swap it can.                                *)
(***************************************************************************)
CollectivesFlush ==
  ~overrun /\ rank0 = "idle" /\ calls # <<>> /\ Last(calls) \in Collective =>
    \A w \in Worker :
      Consumed(w) /\ Len(executed[w]) = Len(calls) /\ worker[w] # "raised"

\* An exception has ended a worker.
WorkerEnded == \E w \in Worker : worker[w] = "raised"

(***************************************************************************)
(* No call waits for ever: rank 0 gets past its collective operations, and *)
(* past joining the processes, unless a call was overrun or an exception   *)
(* ended a worker.  WorkersPrepareSame of module WorkerBatch says when one *)
(* does: with each chunked prefill.  Nothing tells rank 0 of it.           *)
(***************************************************************************)
CallsReturn ==
  rank0 \notin {"idle", "raised"} ~>
    (rank0 \in {"idle", "raised", "end"} \/ overrun \/ WorkerEnded)

(***************************************************************************)
(* No wakeup is lost: a worker that lags behind rank 0 catches up, unless  *)
(* a call was overrun or an exception ended the worker.                    *)
(***************************************************************************)
CallsReachWorkers ==
  \A w \in Worker :
    Len(executed[w]) < Len(calls) ~>
      (Len(executed[w]) >= Len(calls) \/ overrun \/ worker[w] = "raised")

=============================================================================
