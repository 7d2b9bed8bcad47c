--------------------------- MODULE WorkerRPCProofs --------------------------
(***************************************************************************)
(* Proofs about WorkerRPC, for every set of workers and every number of    *)
(* calls.                                                                  *)
(***************************************************************************)
EXTENDS WorkerRPC, TLAPS, SequenceTheorems

-----------------------------------------------------------------------------
(* The inductive invariant.  It speaks of the time before an overrun only: *)
(* overrun never becomes false again.                                      *)

LastCollective == calls # <<>> /\ Last(calls) \in Collective

\* Rank 0 has set the event of w for its last call.
Announced(w) ==
  rank0 \in {"idle", "sync", "raised", "join", "end"} \/ (rank0 = "set" /\ w \notin to_set)

\* How many calls w has taken from the buffer.
Cleared(w) == IF worker[w] = "call" THEN Len(executed[w]) + 1 ELSE Len(executed[w])

\* The buffer holds the last call once it has been written.
BufferGood ==
  /\ rank0 # "idle" => calls # <<>>
  /\ rank0 = "sync" => LastCollective
  /\ rank0 = "raised" => ~LastCollective
  /\ rank0 # "set" => to_set = {}
  /\ rank0 \notin {"idle", "size"} => shm_size = Len(calls)
  /\ rank0 \in {"set", "sync", "raised", "join", "end"} => shm_data = Len(calls)
  /\ rank0 = "idle" /\ calls # <<>> => shm_size = Len(calls) /\ shm_data = Len(calls)

\* The worker lacks the last call exactly while that is not announced or its
\* event is set, and reads only then.
ReadingGood(w) ==
  /\ worker[w] # "failed"
  /\ IF event[w] THEN Announced(w) ELSE worker[w] \notin {"size", "data", "clear"}
  /\ Cleared(w) = IF Announced(w) /\ ~event[w] THEN Len(calls) ELSE Len(calls) - 1
  /\ worker[w] = "data" => size_read[w] = Len(calls)
  /\ worker[w] = "clear" => got[w] = Len(calls)
  /\ worker[w] = "call" => got[w] = Cleared(w)

\* What the worker has executed is a prefix of the calls.
PrefixGood(w) ==
  /\ Len(executed[w]) <= Len(calls)
  /\ \A i \in 1 .. Len(executed[w]) : executed[w][i] = calls[i]

\* An exception keeps a worker from taking part in the last call.
CountedBy(w) ==
  IF LastCollective /\ Len(executed[w]) = Len(calls) /\ worker[w] # "raised" THEN 1 ELSE 0

CountedBy0 ==
  IF LastCollective /\ rank0 \in {"idle", "sync", "join", "end"} THEN 1 ELSE 0

\* A worker never lags behind a collective call but the last, which rank 0 leaves
\* only when the worker has joined it.
JoinedGood(w) ==
  /\ \A i \in Len(executed[w]) + 1 .. Len(calls) - 1 : calls[i] \notin Collective
  /\ joined[w] + CountedBy0 = joined0 + CountedBy(w)
  /\ rank0 \in {"idle", "join", "end"} /\ LastCollective =>
       Len(executed[w]) = Len(calls) /\ worker[w] # "raised"

Good ==
  /\ RpcTypeOK
  /\ BufferGood
  /\ \A w \in Worker : ReadingGood(w) /\ PrefixGood(w) /\ JoinedGood(w)

InStep == ~overrun => Good

-----------------------------------------------------------------------------
LEMMA InitGood == RpcInit => Good
<1> SUFFICES ASSUME RpcInit PROVE Good
  OBVIOUS
<1>1. calls = <<>> /\ calls \in Seq(Methods) /\ Len(calls) = 0
  BY DEF RpcInit
<1>2. RpcTypeOK
  <2>1. <<>> \in Seq(Methods) /\ 0 \in CallId
    BY RpcAssumption DEF CallId
  <2>2. event \in [Worker -> BOOLEAN] /\ overrun \in BOOLEAN
    BY DEF RpcInit
  <2>3. executed \in [Worker -> Seq(Methods)]
    BY <2>1 DEF RpcInit
  <2>4. size_read \in [Worker -> CallId] /\ got \in [Worker -> CallId]
    BY <2>1 DEF RpcInit
  <2>5. 0 <= MaxCalls
    BY RpcAssumption
  <2> QED
    BY <1>1, <2>1, <2>2, <2>3, <2>4, <2>5 DEF RpcInit, RpcTypeOK
<1>3. BufferGood
  BY <1>1 DEF RpcInit, BufferGood
<1>4. ASSUME NEW w \in Worker
      PROVE  ReadingGood(w) /\ PrefixGood(w) /\ JoinedGood(w)
  <2>1. executed[w] = <<>> /\ Len(executed[w]) = 0
    BY DEF RpcInit
  <2>2. ReadingGood(w)
    BY <1>1, <2>1 DEF RpcInit, ReadingGood, Announced, Cleared
  <2>3. PrefixGood(w)
    BY <1>1, <2>1 DEF PrefixGood
  <2>4. JoinedGood(w)
    BY <1>1, <2>1 DEF RpcInit, JoinedGood, CountedBy, CountedBy0, LastCollective
  <2> QED
    BY <2>2, <2>3, <2>4
<1> QED
  BY <1>2, <1>3, <1>4 DEF Good

\* Good is preserved by a new call that is not an overrun.
LEMMA CallGood ==
  ASSUME Good, NEW m \in Methods, Call(m), ~overrun'
  PROVE  Good'
<1> USE DEF Good
<1>1. /\ calls \in Seq(Methods)
      /\ calls' = Append(calls, m)
      /\ Len(calls') = Len(calls) + 1
      /\ Last(calls') = m
      /\ calls'[Len(calls')] = m
      /\ \A i \in 1 .. Len(calls) : calls'[i] = calls[i]
      /\ calls' # <<>>
      /\ calls' \in Seq(Methods)
  BY DEF Call, RpcTypeOK, Last
<1>2. RpcTypeOK'
  BY <1>1, RpcAssumption DEF Call, RpcTypeOK, rank0Vars, workerVars, shmVars
<1>3. BufferGood'
  BY <1>1 DEF Call, BufferGood, shmVars
<1>4. ASSUME NEW w \in Worker
      PROVE  ReadingGood(w)' /\ PrefixGood(w)' /\ JoinedGood(w)'
  <2>1. /\ executed' = executed
        /\ joined' = joined
        /\ joined0' = joined0
        /\ rank0 \in {"idle", "raised"} /\ rank0' = "size"
        /\ Len(executed[w]) \in Nat
        /\ joined[w] \in Nat
        /\ joined0 \in Nat
        /\ Len(calls) \in Nat
    BY DEF Call, RpcTypeOK, workerVars
  <2>2. ReadingGood(w)'
    BY <1>1 DEF Call, BufferGood, ReadingGood, Announced, Cleared, Consumed, workerVars, RpcTypeOK
  <2>3. PrefixGood(w)'
    BY <1>1, <2>1 DEF PrefixGood
  <2>4. CountedBy0' = 0 /\ CountedBy(w)' = 0
    BY <1>1, <2>1 DEF CountedBy, CountedBy0, PrefixGood
  <2>5. joined[w] = joined0
    BY <2>1 DEF JoinedGood, CountedBy, CountedBy0, BufferGood
  <2>6. \A i \in Len(executed[w]) + 1 .. Len(calls) : calls[i] \notin Collective
    <3>1. CASE LastCollective
      BY <2>1, <3>1 DEF JoinedGood, BufferGood
    <3>2. CASE ~LastCollective
      BY <1>1, <2>1, <3>2 DEF JoinedGood, LastCollective, Last
    <3> QED
      BY <3>1, <3>2
  <2>7. JoinedGood(w)'
    BY <1>1, <2>1, <2>4, <2>5, <2>6 DEF JoinedGood
  <2> QED
    BY <2>2, <2>3, <2>7
<1> QED
  BY <1>2, <1>3, <1>4

(***************************************************************************)
(* Good is preserved by everything rank 0 does once a call is made.        *)
(***************************************************************************)
LEMMA WriteGood ==
  ASSUME Good, WriteSize \/ BeginData \/ EndData
  PROVE  Good'
<1> USE DEF Good
<1>1. /\ calls' = calls
      /\ workerVars' = workerVars
      /\ event' = event
      /\ joined0' = joined0
      /\ rank0 \in {"size", "data", "rest"}
      /\ rank0' \in {"data", "rest", "set"}
  BY DEF WriteSize, BeginData, EndData
<1>2. RpcTypeOK'
  BY <1>1, RpcAssumption
     DEF RpcTypeOK, WriteSize, BeginData, EndData, workerVars, CallId, Torn
<1>3. BufferGood'
  BY <1>1 DEF BufferGood, WriteSize, BeginData, EndData
<1>4. ASSUME NEW w \in Worker
      PROVE  ReadingGood(w)' /\ PrefixGood(w)' /\ JoinedGood(w)'
  <2>1. ~Announced(w) /\ ~Announced(w)'
    BY <1>1 DEF Announced, WriteSize, BeginData, EndData
  <2>2. ReadingGood(w)'
    BY <1>1, <2>1 DEF ReadingGood, Cleared, workerVars
  <2>3. PrefixGood(w)'
    BY <1>1 DEF PrefixGood, workerVars
  <2>4. JoinedGood(w)'
    BY <1>1 DEF JoinedGood, CountedBy, CountedBy0, LastCollective, workerVars
  <2> QED
    BY <2>2, <2>3, <2>4
<1> QED
  BY <1>2, <1>3, <1>4

LEMMA SetGood ==
  ASSUME Good, NEW v \in Worker, SetEvent(v)
  PROVE  Good'
<1> USE DEF Good
<1>1. /\ UNCHANGED <<calls, joined0, rank0, shmVars, workerVars, overrun>>
      /\ event' = [event EXCEPT ![v] = TRUE]
      /\ to_set' = to_set \ {v}
      /\ rank0 = "set" /\ v \in to_set
  BY DEF SetEvent
<1>2. RpcTypeOK'
  BY <1>1 DEF RpcTypeOK, workerVars, shmVars
<1>3. BufferGood'
  BY <1>1 DEF BufferGood, LastCollective, shmVars
<1>4. ASSUME NEW w \in Worker
      PROVE  ReadingGood(w)' /\ PrefixGood(w)' /\ JoinedGood(w)'
  <2>1. ReadingGood(w)'
    <3>1. CASE w = v
      BY <1>1, <3>1 DEF ReadingGood, Announced, Cleared, workerVars, RpcTypeOK
    <3>2. CASE w # v
      BY <1>1, <3>2 DEF ReadingGood, Announced, Cleared, workerVars, RpcTypeOK
    <3> QED
      BY <3>1, <3>2
  <2>2. PrefixGood(w)'
    BY <1>1 DEF PrefixGood, workerVars
  <2>3. JoinedGood(w)'
    BY <1>1 DEF JoinedGood, CountedBy, CountedBy0, LastCollective, workerVars
  <2> QED
    BY <2>1, <2>2, <2>3
<1> QED
  BY <1>2, <1>3, <1>4

\* A collective call is counted when rank 0 starts on it.
LEMMA ExecuteGood ==
  ASSUME Good, Execute
  PROVE  Good'
<1> USE DEF Good
<1>1. /\ UNCHANGED <<calls, to_set, event, shmVars, workerVars, overrun>>
      /\ rank0 = "set" /\ to_set = {}
      /\ calls # <<>>
  BY DEF Execute, BufferGood
<1>2. \/ LastCollective /\ joined0' = joined0 + 1 /\ rank0' = "sync"
      \/ ~LastCollective /\ joined0' = joined0 /\ rank0' \in {"idle", "raised"}
  BY <1>1 DEF Execute, LastCollective
<1>3. LastCollective' = LastCollective
  BY <1>1 DEF LastCollective
<1>4. RpcTypeOK'
  BY <1>1, <1>2 DEF RpcTypeOK, workerVars, shmVars
<1>5. BufferGood'
  BY <1>1, <1>2, <1>3 DEF BufferGood, shmVars
<1>6. ASSUME NEW w \in Worker
      PROVE  ReadingGood(w)' /\ PrefixGood(w)' /\ JoinedGood(w)'
  <2>1. Announced(w) /\ Announced(w)'
    BY <1>1, <1>2 DEF Announced
  <2>2. ReadingGood(w)'
    BY <1>1, <2>1 DEF ReadingGood, Cleared, workerVars
  <2>3. PrefixGood(w)'
    BY <1>1 DEF PrefixGood, workerVars
  <2>4. joined0 \in Nat /\ joined[w] \in Nat
    BY DEF RpcTypeOK
  <2>5. JoinedGood(w)'
    BY <1>1, <1>2, <1>3, <2>4 DEF JoinedGood, CountedBy, CountedBy0, workerVars
  <2> QED
    BY <2>2, <2>3, <2>5
<1> QED
  BY <1>4, <1>5, <1>6

\* Rank 0 leaves a collective call when every worker has caught up.
LEMMA SyncGood ==
  ASSUME Good, Sync \/ Join
  PROVE  Good'
<1> USE DEF Good
<1>1. /\ UNCHANGED <<calls, to_set, joined0, event, shmVars, workerVars, overrun>>
      /\ rank0 \in {"sync", "join"}
      /\ rank0' \in {"idle", "join", "end"}
  BY DEF Sync, Join
<1>2. RpcTypeOK'
  BY <1>1 DEF RpcTypeOK, workerVars, shmVars
<1>3. BufferGood'
  BY <1>1 DEF BufferGood, LastCollective, shmVars
<1>4. ASSUME NEW w \in Worker
      PROVE  ReadingGood(w)' /\ PrefixGood(w)' /\ JoinedGood(w)'
  <2>1. Announced(w) /\ Announced(w)'
    BY <1>1 DEF Announced
  <2>2. ReadingGood(w)'
    BY <1>1, <2>1 DEF ReadingGood, Cleared, workerVars
  <2>3. PrefixGood(w)'
    BY <1>1 DEF PrefixGood, workerVars
  <2>4. joined0 \in Nat /\ joined[w] \in Nat
    BY DEF RpcTypeOK
  <2>5. LastCollective => Len(executed[w]) = Len(calls) /\ worker[w] # "raised"
    <3>1. CASE rank0 = "sync"
      BY <1>1, <2>4, <3>1 DEF Sync, Join, JoinedGood, CountedBy, CountedBy0
    <3>2. CASE rank0 = "join"
      BY <3>2 DEF JoinedGood
    <3> QED
      BY <1>1, <3>1, <3>2
  <2>6. JoinedGood(w)'
    BY <1>1, <2>5 DEF JoinedGood, CountedBy, CountedBy0, LastCollective, workerVars
  <2> QED
    BY <2>2, <2>3, <2>6
<1> QED
  BY <1>2, <1>3, <1>4

(***************************************************************************)
(* Good is preserved by a worker that waits, reads and clears its event.   *)
(***************************************************************************)
LEMMA ReadGood ==
  ASSUME Good, NEW v \in Worker,
         Wait(v) \/ ReadSize(v) \/ ReadData(v) \/ Clear(v) \/ PassBarrier(v)
  PROVE  Good'
<1> USE DEF Good
<1>1. UNCHANGED <<rank0Vars, shmVars, executed, joined>>
  BY DEF Wait, ReadSize, ReadData, Clear, PassBarrier
<1>2. worker[v] \in {"size", "data"} => shm_size = Len(calls) /\ shm_data = Len(calls)
  <2>1. worker[v] \in {"size", "data"} => Announced(v) /\ Cleared(v) = Len(calls) - 1
    BY DEF ReadingGood
  <2>2. Cleared(v) \in Nat /\ Len(calls) \in Nat
    BY DEF Cleared, RpcTypeOK
  <2> QED
    BY <2>1, <2>2 DEF BufferGood, Announced, RpcTypeOK
<1>3. Len(calls) # Torn /\ Len(calls) \in CallId
  BY RpcAssumption DEF RpcTypeOK, Torn, CallId
<1>4. RpcTypeOK'
  <2>1. /\ size_read \in [Worker -> CallId] /\ got \in [Worker -> CallId]
        /\ event \in [Worker -> BOOLEAN]
    BY DEF RpcTypeOK
  <2>2. size_read' \in [Worker -> CallId]
    BY <1>2, <1>3, <2>1 DEF Wait, ReadSize, ReadData, Clear, PassBarrier
  <2>3. got' \in [Worker -> CallId]
    BY <1>2, <1>3, <2>1 DEF Wait, ReadSize, ReadData, Clear, PassBarrier
  <2>4. event' \in [Worker -> BOOLEAN]
    BY <2>1 DEF Wait, ReadSize, ReadData, Clear, PassBarrier
  <2>5. overrun' = overrun
    BY DEF Wait, ReadSize, ReadData, Clear, PassBarrier
  <2>6. PICK place \in {"size", "data", "clear", "call", "done", "failed"} : GoTo(v, place)
    BY DEF Wait, ReadSize, ReadData, Clear, PassBarrier
  <2>7. worker' \in [Worker -> {"wait", "size", "data", "clear", "call", "barrier", "done",
                                "failed", "raised"}]
    BY <2>6 DEF RpcTypeOK, GoTo
  <2> QED
    BY <1>1, <2>2, <2>3, <2>4, <2>5, <2>7 DEF RpcTypeOK, rank0Vars, shmVars
<1>5. BufferGood'
  BY <1>1 DEF BufferGood, LastCollective, rank0Vars, shmVars
<1>6. ASSUME NEW w \in Worker
      PROVE  ReadingGood(w)' /\ PrefixGood(w)' /\ JoinedGood(w)'
  <2>1. ReadingGood(w)'
    <3>1. CASE w = v
      BY <1>1, <1>2, <1>3, <3>1
         DEF ReadingGood, Announced, Cleared, Wait, ReadSize, ReadData, Clear, PassBarrier,
             GoTo, rank0Vars, RpcTypeOK
    <3>2. CASE w # v
      BY <1>1, <3>2
         DEF ReadingGood, Announced, Cleared, Wait, ReadSize, ReadData, Clear, PassBarrier,
             GoTo, rank0Vars, RpcTypeOK
    <3> QED
      BY <3>1, <3>2
  <2>2. PrefixGood(w)'
    BY <1>1 DEF PrefixGood, rank0Vars
  <2>3. worker'[w] = "raised" <=> worker[w] = "raised"
    <3>1. PICK place \in {"size", "data", "clear", "call", "done", "failed"} : GoTo(v, place)
      BY DEF Wait, ReadSize, ReadData, Clear, PassBarrier
    <3>2. worker[v] # "raised"
      BY DEF Wait, ReadSize, ReadData, Clear, PassBarrier
    <3> QED
      BY <3>1, <3>2 DEF GoTo, RpcTypeOK
  <2>4. JoinedGood(w)'
    BY <1>1, <2>3 DEF JoinedGood, CountedBy, CountedBy0, LastCollective, rank0Vars
  <2> QED
    BY <2>1, <2>2, <2>4
<1> QED
  BY <1>4, <1>5, <1>6

\* A worker executes the call that follows those it has executed.
LEMMA CallMethodGood ==
  ASSUME Good, NEW v \in Worker, CallMethod(v)
  PROVE  Good'
<1> USE DEF Good
<1> DEFINE k == Len(executed[v])
           m == calls[k + 1]
<1>1. /\ UNCHANGED <<rank0Vars, size_read, got, shmVars, event, overrun>>
      /\ worker[v] = "call"
  BY DEF CallMethod
<1>2. k \in Nat /\ Len(calls) \in Nat /\ executed[v] \in Seq(Methods)
  BY DEF RpcTypeOK
<1>3. got[v] = k + 1 /\ k + 1 <= Len(calls)
  BY <1>1, <1>2 DEF ReadingGood, Cleared
<1>4. m \in Methods
  BY <1>2, <1>3 DEF RpcTypeOK
<1>5. /\ executed' = [executed EXCEPT ![v] = Append(executed[v], m)]
      /\ joined' = [joined EXCEPT ![v] =
                       IF m \in Collective \ Unprepared THEN joined[v] + 1 ELSE joined[v]]
      /\ worker' = [worker EXCEPT ![v] = CASE m \in Unprepared -> "raised"
                                           [] m = "exit" -> "barrier"
                                           [] OTHER -> "wait"]
  BY <1>3 DEF CallMethod, GoTo
<1>6. /\ executed'[v] = Append(executed[v], m)
      /\ Len(executed'[v]) = k + 1
      /\ executed'[v][k + 1] = m
      /\ \A i \in 1 .. k : executed'[v][i] = executed[v][i]
      /\ executed'[v] \in Seq(Methods)
  BY <1>2, <1>4, <1>5 DEF RpcTypeOK
<1>7. \A w \in Worker \ {v} :
        executed'[w] = executed[w] /\ joined'[w] = joined[w] /\ worker'[w] = worker[w]
  BY <1>5 DEF RpcTypeOK
<1>8. /\ worker'[v] \in {"wait", "barrier", "raised"}
      /\ worker'[v] = "raised" <=> m \in Unprepared
      /\ joined'[v] = IF m \in Collective \ Unprepared THEN joined[v] + 1 ELSE joined[v]
  BY <1>5 DEF RpcTypeOK, Unprepared
<1> HIDE DEF m
<1>9. RpcTypeOK'
  <2>1. executed' \in [Worker -> Seq(Methods)]
    BY <1>5, <1>6 DEF RpcTypeOK
  <2>2. joined' \in [Worker -> Nat]
    BY <1>5 DEF RpcTypeOK
  <2>3. worker' \in [Worker -> {"wait", "size", "data", "clear", "call", "barrier", "done",
                                "failed", "raised"}]
    BY <1>5 DEF RpcTypeOK
  <2> QED
    BY <1>1, <2>1, <2>2, <2>3 DEF RpcTypeOK, rank0Vars, shmVars
<1>10. BufferGood'
  BY <1>1 DEF BufferGood, LastCollective, rank0Vars, shmVars
<1>11. ASSUME NEW w \in Worker, w # v
       PROVE  ReadingGood(w)' /\ PrefixGood(w)' /\ JoinedGood(w)'
  <2>1. ReadingGood(w)'
    BY <1>1, <1>7, <1>11 DEF ReadingGood, Announced, Cleared, rank0Vars
  <2>2. PrefixGood(w)'
    BY <1>1, <1>7, <1>11 DEF PrefixGood, rank0Vars
  <2>3. JoinedGood(w)'
    BY <1>1, <1>7, <1>11 DEF JoinedGood, CountedBy, CountedBy0, LastCollective, rank0Vars
  <2> QED
    BY <2>1, <2>2, <2>3
<1>12. ReadingGood(v)' /\ PrefixGood(v)' /\ JoinedGood(v)'
  <2>1. ReadingGood(v)'
    BY <1>1, <1>6, <1>8 DEF ReadingGood, Announced, Cleared, rank0Vars
  <2>2. PrefixGood(v)'
    BY <1>1, <1>2, <1>3, <1>6 DEF PrefixGood, rank0Vars, m
  <2>3. LastCollective' = LastCollective /\ CountedBy0' = CountedBy0
    BY <1>1 DEF LastCollective, CountedBy0, rank0Vars
  <2>4. joined[v] \in Nat /\ joined0 \in Nat
    BY DEF RpcTypeOK
  <2>5. calls' = calls /\ rank0' = rank0
    BY <1>1 DEF rank0Vars
  <2>6. CASE k + 1 = Len(calls)
    <3>1. LastCollective <=> m \in Collective
      BY <1>2, <2>6 DEF LastCollective, Last, m, RpcTypeOK
    <3>2. CountedBy(v) = 0 /\ CountedBy(v)' = IF m \in Collective \ Unprepared THEN 1 ELSE 0
      BY <1>1, <1>2, <1>6, <1>8, <2>3, <2>6, <3>1 DEF CountedBy, rank0Vars
    <3>3. joined'[v] + CountedBy0' = joined0' + CountedBy(v)'
      BY <1>1, <1>8, <2>3, <2>4, <3>2 DEF JoinedGood, CountedBy0, rank0Vars
    <3>4. \A i \in Len(executed'[v]) + 1 .. Len(calls') - 1 : calls'[i] \notin Collective
      BY <1>2, <1>6, <2>5, <2>6
    <3>5. ~(rank0' \in {"idle", "join", "end"} /\ LastCollective')
      BY <1>2, <2>3, <2>5, <2>6 DEF JoinedGood
    <3> QED
      BY <2>1, <2>2, <3>3, <3>4, <3>5 DEF JoinedGood
  <2>7. CASE k + 1 < Len(calls)
    <3>1. m \notin Collective
      BY <1>2, <2>7 DEF JoinedGood, m
    <3>2. CountedBy(v) = 0 /\ CountedBy(v)' = 0
      BY <1>1, <1>2, <1>6, <2>7 DEF CountedBy, rank0Vars
    <3>3. joined'[v] + CountedBy0' = joined0' + CountedBy(v)'
      BY <1>1, <1>8, <2>3, <3>1, <3>2 DEF JoinedGood, rank0Vars
    <3>4. \A i \in k + 2 .. Len(calls) - 1 : calls[i] \notin Collective
      BY <1>2 DEF JoinedGood
    <3>5. ~(rank0 \in {"idle", "join", "end"} /\ LastCollective)
      BY <1>2, <2>7 DEF JoinedGood
    <3>6. \A i \in Len(executed'[v]) + 1 .. Len(calls') - 1 : calls'[i] \notin Collective
      BY <1>2, <1>6, <2>5, <3>4
    <3>7. ~(rank0' \in {"idle", "join", "end"} /\ LastCollective')
      BY <2>3, <2>5, <3>5
    <3> QED
      BY <2>1, <2>2, <3>3, <3>6, <3>7 DEF JoinedGood
  <2> QED
    BY <1>2, <1>3, <2>1, <2>2, <2>6, <2>7
<1> QED
  BY <1>9, <1>10, <1>11, <1>12

-----------------------------------------------------------------------------
(* The theorems.                                                           *)

LEMMA InStepInvariant == RpcSpec => []InStep
<1>1. RpcInit => InStep
  BY InitGood DEF InStep
<1>2. InStep /\ [RpcNext]_rpcVars => InStep'
  <2> SUFFICES ASSUME InStep, [RpcNext]_rpcVars, ~overrun'
               PROVE  Good'
    BY DEF InStep
  <2>1. ~overrun
    BY DEF RpcNext, Call, Rank0Step, WriteSize, BeginData, EndData, SetEvent, Execute, Sync,
           Join, WorkerStep, Wait, ReadSize, ReadData, Clear, CallMethod, PassBarrier, rpcVars
  <2>2. Good
    BY <2>1 DEF InStep
  <2>3. CASE \E m \in Methods : Call(m)
    BY <2>2, <2>3, CallGood
  <2>4. CASE Rank0Step
    BY <2>2, <2>4, WriteGood, SetGood, ExecuteGood, SyncGood DEF Rank0Step
  <2>5. CASE \E w \in Worker : WorkerStep(w)
    BY <2>2, <2>5, ReadGood, CallMethodGood DEF WorkerStep
  <2>6. CASE UNCHANGED rpcVars
    BY <2>2, <2>6
       DEF Good, RpcTypeOK, BufferGood, ReadingGood, PrefixGood, JoinedGood, CountedBy,
           CountedBy0, LastCollective, Announced, Cleared, rpcVars, rank0Vars, workerVars,
           shmVars
  <2> QED
    BY <2>3, <2>4, <2>5, <2>6 DEF RpcNext
<1> QED
  BY <1>1, <1>2, PTL DEF RpcSpec

(***************************************************************************)
(* Without an overrun, what a worker has executed is a prefix of what rank *)
(* 0 has called, and no worker reads a torn call: for any number of        *)
(* workers, the buffer and the events need no answer.                      *)
(***************************************************************************)
THEOREM WorkersFollowUnlessOverrun == RpcSpec => []FollowUnlessOverrun
<1>1. InStep => FollowUnlessOverrun
  <2> SUFFICES ASSUME InStep, ~overrun, NEW w \in Worker
               PROVE  IsPrefix(executed[w], calls) /\ worker[w] # "failed"
    BY DEF FollowUnlessOverrun, WorkersFollow
  <2>1. Good
    BY DEF InStep
  <2>2. executed[w] \in Seq(Methods) /\ calls \in Seq(Methods)
    BY <2>1 DEF Good, RpcTypeOK
  <2>3. PrefixGood(w) /\ ReadingGood(w)
    BY <2>1 DEF Good
  <2> QED
    BY <2>2, <2>3 DEF PrefixGood, ReadingGood, IsPrefix
<1> QED
  BY <1>1, InStepInvariant, PTL

(***************************************************************************)
(* run and exit are what keeps the ranks in step: when rank 0 has returned *)
(* from one of them, every worker has executed every call and cleared its  *)
(* event.                                                                  *)
(***************************************************************************)
THEOREM CollectivesFlushWorkers == RpcSpec => []CollectivesFlush
<1>1. InStep => CollectivesFlush
  <2> SUFFICES ASSUME InStep, ~overrun, rank0 = "idle", calls # <<>>,
                      Last(calls) \in Collective, NEW w \in Worker
               PROVE  Consumed(w) /\ Len(executed[w]) = Len(calls) /\ worker[w] # "raised"
    BY DEF CollectivesFlush
  <2>1. Good
    BY DEF InStep
  <2>2. Len(executed[w]) = Len(calls) /\ worker[w] # "raised"
    BY <2>1 DEF Good, JoinedGood, LastCollective
  <2>3. Len(executed[w]) \in Nat
    BY <2>1 DEF Good, RpcTypeOK
  <2> QED
    BY <2>1, <2>2, <2>3 DEF Good, ReadingGood, Announced, Cleared, Consumed
<1> QED
  BY <1>1, InStepInvariant, PTL

-----------------------------------------------------------------------------
(* Types, overrun or not.                                                  *)

(***************************************************************************)
(* A worker that reads the buffer finds a call there, possibly the wrong   *)
(* one or in pieces: nobody is woken before the first call is written.     *)
(***************************************************************************)
ReadsCalls ==
  /\ rank0 # "idle" => calls # <<>>
  /\ shm_data \in 0 .. Len(calls) \cup {Torn}
  /\ rank0 \in {"rest", "set"} => shm_data # 0
  /\ \A w \in Worker :
       /\ event[w] \/ worker[w] \in {"size", "data"} => shm_data # 0
       /\ worker[w] \in {"clear", "call"} => got[w] \in 1 .. Len(calls)

RpcTypeInv == RpcTypeOK /\ ReadsCalls

LEMMA Rank0TypeStep ==
  ASSUME RpcTypeInv,
         \/ \E m \in Methods : Call(m)
         \/ WriteSize \/ BeginData \/ EndData \/ (\E w \in Worker : SetEvent(w))
         \/ Execute \/ Sync \/ Join
  PROVE  RpcTypeInv'
<1>1. /\ RpcTypeOK /\ ReadsCalls
      /\ MaxCalls \in Nat /\ Len(calls) \in Nat /\ Len(calls) <= MaxCalls
  BY RpcAssumption DEF RpcTypeInv, RpcTypeOK
<1>2. CASE \E m \in Methods : Call(m)
  <2>1. PICK m \in Methods : Call(m)
    BY <1>2
  <2>2. /\ calls' = Append(calls, m) /\ calls' \in Seq(Methods) /\ calls' # <<>>
        /\ Len(calls') = Len(calls) + 1 /\ Len(calls') <= MaxCalls
    <3>1. calls' = Append(calls, m) /\ Len(calls) < MaxCalls /\ calls \in Seq(Methods)
      BY <1>1, <2>1 DEF Call, RpcTypeOK
    <3>2. calls' \in Seq(Methods) /\ calls' # <<>> /\ Len(calls') = Len(calls) + 1
      BY <3>1, AppendProperties
    <3> QED
      BY <1>1, <3>1, <3>2
  <2>3. RpcTypeOK'
    BY <1>1, <2>1, <2>2 DEF Call, RpcTypeOK, workerVars, shmVars
  <2>4. UNCHANGED <<worker, got, shm_data, event>> /\ rank0' = "size"
    BY <2>1 DEF Call, workerVars, shmVars
  <2>5. 0 .. Len(calls) \subseteq 0 .. Len(calls') /\ 1 .. Len(calls) \subseteq 1 .. Len(calls')
    BY <1>1, <2>2
  <2>6. ReadsCalls'
    BY <1>1, <2>2, <2>4, <2>5 DEF ReadsCalls
  <2> QED
    BY <2>3, <2>6 DEF RpcTypeInv
<1>3. CASE WriteSize \/ BeginData \/ EndData
  <2>1. /\ UNCHANGED <<calls, worker, got, event>> /\ calls # <<>> /\ rank0' # "idle"
        /\ \/ UNCHANGED shm_data /\ rank0' = "data"
           \/ shm_data' = Torn
           \/ shm_data' = Len(calls)
    BY <1>1, <1>3 DEF WriteSize, BeginData, EndData, workerVars, ReadsCalls
  <2>2. Len(calls) # 0 /\ Torn # 0
    BY <1>1, <2>1, EmptySeq DEF RpcTypeOK, Torn
  <2>3. RpcTypeOK'
    <3>1. Len(calls) \in CallId
      BY <1>1 DEF CallId
    <3> QED
      BY <1>1, <1>3, <3>1 DEF RpcTypeOK, WriteSize, BeginData, EndData, workerVars
  <2>4. ReadsCalls'
    BY <1>1, <2>1, <2>2 DEF ReadsCalls
  <2> QED
    BY <2>3, <2>4 DEF RpcTypeInv
<1>4. CASE \E w \in Worker : SetEvent(w)
  <2>1. PICK w \in Worker : SetEvent(w)
    BY <1>4
  <2>2. RpcTypeOK'
    BY <1>1, <2>1 DEF RpcTypeOK, SetEvent, workerVars, shmVars
  <2>3. ReadsCalls'
    BY <1>1, <2>1 DEF ReadsCalls, SetEvent, workerVars, shmVars
  <2> QED
    BY <2>2, <2>3 DEF RpcTypeInv
<1>5. CASE Execute \/ Sync \/ Join
  <2>1. RpcTypeOK'
    BY <1>1, <1>5 DEF RpcTypeOK, Execute, Sync, Join, workerVars, shmVars
  <2>2. /\ UNCHANGED <<calls, worker, got, event, shm_data>>
        /\ rank0 # "idle" /\ rank0' \notin {"rest", "set"}
    BY <1>5 DEF Execute, Sync, Join, workerVars, shmVars
  <2>3. ReadsCalls'
    BY <1>1, <2>2 DEF ReadsCalls
  <2> QED
    BY <2>1, <2>3 DEF RpcTypeInv
<1> QED
  BY <1>2, <1>3, <1>4, <1>5

LEMMA WorkerTypeStep ==
  ASSUME RpcTypeInv, NEW w \in Worker, WorkerStep(w)
  PROVE  RpcTypeInv'
<1>1. /\ RpcTypeOK /\ ReadsCalls
      /\ MaxCalls \in Nat /\ Len(calls) \in Nat /\ Len(calls) <= MaxCalls
  BY RpcAssumption DEF RpcTypeInv, RpcTypeOK
<1>2. UNCHANGED <<calls, shm_data, shm_size, rank0, to_set, joined0, overrun>>
  BY DEF WorkerStep, Wait, ReadSize, ReadData, Clear, CallMethod, PassBarrier, rank0Vars, shmVars
<1>3. CASE CallMethod(w)
  <2>1. PICK m \in Methods : m = calls[got[w]]
    <3>1. got[w] \in 1 .. Len(calls)
      BY <1>1, <1>3 DEF CallMethod, ReadsCalls
    <3> QED
      BY <1>1, <3>1 DEF RpcTypeOK
  <2>2. /\ executed' = [executed EXCEPT ![w] = Append(@, m)]
        /\ joined' = [joined EXCEPT ![w] = IF m \in Collective \ Unprepared THEN @ + 1 ELSE @]
        /\ GoTo(w, CASE m \in Unprepared -> "raised"
                     [] m = "exit" -> "barrier"
                     [] OTHER -> "wait")
        /\ UNCHANGED <<size_read, got, event>>
    BY <1>3, <2>1 DEF CallMethod
  <2>3. executed' \in [Worker -> Seq(Methods)]
    BY <1>1, <2>1, <2>2 DEF RpcTypeOK
  <2>4. joined' \in [Worker -> Nat]
    BY <1>1, <2>2 DEF RpcTypeOK
  <2>5. RpcTypeOK'
    BY <1>1, <1>2, <2>2, <2>3, <2>4 DEF RpcTypeOK, GoTo
  <2>6. ReadsCalls'
    BY <1>1, <1>2, <2>2 DEF RpcTypeOK, ReadsCalls, GoTo
  <2> QED
    BY <2>5, <2>6 DEF RpcTypeInv
<1>4. CASE Wait(w) \/ ReadSize(w) \/ ReadData(w) \/ Clear(w) \/ PassBarrier(w)
  <2>1. shm_data # Torn => shm_data \in CallId
    BY <1>1 DEF RpcTypeOK
  <2>2. RpcTypeOK'
    <3>1. /\ size_read \in [Worker -> CallId] /\ got \in [Worker -> CallId]
          /\ event \in [Worker -> BOOLEAN] /\ shm_size \in CallId
      BY <1>1 DEF RpcTypeOK
    <3>2. size_read' \in [Worker -> CallId]
      BY <1>4, <3>1 DEF Wait, ReadSize, ReadData, Clear, PassBarrier
    <3>3. got' \in [Worker -> CallId]
      BY <1>4, <2>1, <3>1 DEF Wait, ReadSize, ReadData, Clear, PassBarrier
    <3>4. event' \in [Worker -> BOOLEAN]
      BY <1>4, <3>1 DEF Wait, ReadSize, ReadData, Clear, PassBarrier
    <3>5. UNCHANGED <<executed, joined>>
      BY <1>4 DEF Wait, ReadSize, ReadData, Clear, PassBarrier
    <3>6. PICK place \in {"size", "data", "clear", "call", "done", "failed"} : GoTo(w, place)
      BY <1>4 DEF Wait, ReadSize, ReadData, Clear, PassBarrier
    <3>7. worker' \in [Worker -> {"wait", "size", "data", "clear", "call", "barrier", "done",
                                  "failed", "raised"}]
      BY <1>1, <3>6 DEF RpcTypeOK, GoTo
    <3> QED
      BY <1>1, <1>2, <3>2, <3>3, <3>4, <3>5, <3>7 DEF RpcTypeOK
  <2>3. ReadsCalls'
    <3>1. CASE Wait(w)
      BY <1>1, <1>2, <3>1 DEF RpcTypeOK, ReadsCalls, Wait, GoTo
    <3>2. CASE ReadSize(w)
      BY <1>1, <1>2, <3>2 DEF RpcTypeOK, ReadsCalls, ReadSize, GoTo
    <3>3. CASE ReadData(w)
      <4>1. shm_data # Torn => shm_data \in 1 .. Len(calls)
        BY <1>1, <3>3 DEF ReadsCalls, ReadData
      <4> QED
        BY <1>1, <1>2, <3>3, <4>1 DEF RpcTypeOK, ReadsCalls, ReadData, GoTo
    <3>4. CASE Clear(w)
      BY <1>1, <1>2, <3>4 DEF RpcTypeOK, ReadsCalls, Clear, GoTo
    <3>5. CASE PassBarrier(w)
      BY <1>1, <1>2, <3>5 DEF RpcTypeOK, ReadsCalls, PassBarrier, GoTo
    <3> QED
      BY <1>4, <3>1, <3>2, <3>3, <3>4, <3>5
  <2> QED
    BY <2>2, <2>3 DEF RpcTypeInv
<1> QED
  BY <1>3, <1>4 DEF WorkerStep

(***************************************************************************)
(* Every variable of the protocol keeps its type, overrun or not: a worker *)
(* that takes part calls only methods that rank 0 has called, even when it *)
(* reads the wrong one of them.                                            *)
(***************************************************************************)
THEOREM RpcTypeCorrect == RpcSpec => []RpcTypeOK
<1>1. RpcInit => RpcTypeInv
  <2> SUFFICES ASSUME RpcInit PROVE RpcTypeInv
    OBVIOUS
  <2>1. RpcTypeOK
    BY InitGood DEF Good
  <2>2. ReadsCalls
    BY <2>1 DEF RpcInit, RpcTypeOK, ReadsCalls
  <2> QED
    BY <2>1, <2>2 DEF RpcTypeInv
<1>2. RpcTypeInv /\ [RpcNext]_rpcVars => RpcTypeInv'
  <2> SUFFICES ASSUME RpcTypeInv, [RpcNext]_rpcVars PROVE RpcTypeInv'
    OBVIOUS
  <2>1. CASE UNCHANGED rpcVars
    BY <2>1 DEF RpcTypeInv, RpcTypeOK, ReadsCalls, rpcVars, rank0Vars, workerVars, shmVars
  <2>2. CASE RpcNext
    BY <2>2, Rank0TypeStep, WorkerTypeStep DEF RpcNext, Rank0Step
  <2> QED
    BY <2>1, <2>2
<1>3. RpcTypeInv => RpcTypeOK
  BY DEF RpcTypeInv
<1> QED
  BY <1>1, <1>2, <1>3, PTL DEF RpcSpec

=============================================================================
