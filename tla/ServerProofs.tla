---------------------------- MODULE ServerProofs ----------------------------
(***************************************************************************)
(* Proofs about module Server: the end of the main loop cuts no run off,   *)
(* and no stream id is run twice, for any number of runs, workers and      *)
(* commands.                                                               *)
(***************************************************************************)
EXTENDS Server, FiniteSetTheorems, TLAPS

MainStates == {"handshake", "serving", "replying", "leaving", "closing", "collecting", "exited"}
RunStates == {"none", "queued", "started", "serving", "ended"}

Types ==
  /\ main \in MainStates
  /\ control \in Seq(Commands)
  /\ queue \in Seq(Ids)
  /\ run \in [Ids -> RunStates]
  /\ running \in BOOLEAN /\ peerOpen \in BOOLEAN

\* The work queue holds runs that wait, each of them once.
QueueInv ==
  /\ \A k \in 1..Len(queue) : run[queue[k]] = "queued"
  /\ \A k, l \in 1..Len(queue) : k # l => queue[k] # queue[l]

\* Before the first command and once the executor is left there is nothing to run;
\* only the main thread's own close takes the connection from a client that stays.
MainInv ==
  /\ main \in {"handshake", "closing", "collecting", "exited"} => Unfinished = {}
  /\ ~running /\ peerOpen => main \in {"collecting", "exited"}

ServerInv == Types /\ QueueInv /\ MainInv

LEMMA InitServer == Init => ServerInv
  BY DEF Init, ServerInv, Types, QueueInv, MainInv, MainStates, RunStates, Active, Unfinished

\* The head of a non-empty queue and the queue behind it.
LEMMA TakeHead ==
  ASSUME Types, QueueInv, queue # <<>>
  PROVE  /\ Head(queue) \in Ids /\ run[Head(queue)] = "queued"
         /\ Tail(queue) \in Seq(Ids)
         /\ \A k \in 1..Len(Tail(queue)) :
              run[Tail(queue)[k]] = "queued" /\ Tail(queue)[k] # Head(queue)
         /\ \A k, l \in 1..Len(Tail(queue)) : k # l => Tail(queue)[k] # Tail(queue)[l]
  <1>1. Len(queue) \in Nat /\ Len(queue) >= 1
    BY DEF Types
  <1>2. Head(queue) = queue[1] /\ queue[1] \in Ids
    BY <1>1 DEF Types
  <1>3. Tail(queue) \in Seq(Ids) /\ Len(Tail(queue)) = Len(queue) - 1
    BY DEF Types
  <1>4. \A k \in 1..Len(Tail(queue)) : Tail(queue)[k] = queue[k + 1] /\ k + 1 \in 1..Len(queue)
    BY <1>1, <1>3 DEF Types
  <1> QED
    BY <1>1, <1>2, <1>3, <1>4 DEF QueueInv

\* A command to run names one of Ids.
LEMMA RunCommand ==
  ASSUME Types, control # <<>>, Head(control).cmd = "run"
  PROVE  Head(control).id \in Ids
  <1>1. Head(control) \in Commands
    BY DEF Types
  <1> QED
    BY <1>1 DEF Commands, Run, Other

LEMMA SubmitKeeps == ServerInv /\ Submit => ServerInv'
  <1> SUFFICES ASSUME ServerInv, Submit PROVE ServerInv'
    OBVIOUS
  <1> DEFINE i == Head(control).id
  <1>1. i \in Ids /\ run[i] = "none"
    BY RunCommand DEF Submit, Registers, ServerInv
  <1>2. run' = [run EXCEPT ![i] = "queued"] /\ queue' = Append(queue, i)
    BY DEF Submit
  <1>3. Types'
    BY <1>1, <1>2 DEF Submit, ServerInv, Types, MainStates, RunStates
  <1>4. QueueInv'
    <2>1. /\ queue \in Seq(Ids) /\ Len(queue) \in Nat
          /\ Len(queue') = Len(queue) + 1
          /\ queue'[Len(queue) + 1] = i
          /\ \A k \in 1..Len(queue) : queue'[k] = queue[k] /\ queue[k] \in Ids
      BY <1>1, <1>2 DEF ServerInv, Types
    <2>2. \A k \in 1..Len(queue) : run[queue[k]] = "queued" /\ queue[k] # i
      BY <1>1 DEF ServerInv, QueueInv
    <2>3. \A k \in 1..Len(queue') : k \in 1..Len(queue) \/ k = Len(queue) + 1
      BY <2>1
    <2>4. run'[i] = "queued" /\ \A j \in Ids : j # i => run'[j] = run[j]
      BY <1>1, <1>2 DEF ServerInv, Types
    <2>5. \A k \in 1..Len(queue') : run'[queue'[k]] = "queued"
      BY <2>1, <2>2, <2>3, <2>4
    <2>6. \A k, l \in 1..Len(queue') : k # l => queue'[k] # queue'[l]
      BY <2>1, <2>2, <2>3 DEF ServerInv, QueueInv
    <2> QED
      BY <2>5, <2>6 DEF QueueInv
  <1>5. MainInv'
    BY DEF Submit, ServerInv, MainInv
  <1> QED
    BY <1>3, <1>4, <1>5 DEF ServerInv

LEMMA StartKeeps == ServerInv /\ Start => ServerInv'
  <1> SUFFICES ASSUME ServerInv, Start PROVE ServerInv'
    OBVIOUS
  <1> DEFINE h == Head(queue)
  <1>1. /\ h \in Ids /\ run[h] = "queued"
        /\ Tail(queue) \in Seq(Ids)
        /\ \A k \in 1..Len(Tail(queue)) :
             run[Tail(queue)[k]] = "queued" /\ Tail(queue)[k] # h
        /\ \A k, l \in 1..Len(Tail(queue)) : k # l => Tail(queue)[k] # Tail(queue)[l]
    BY TakeHead DEF Start, ServerInv
  <1>2. run' = [run EXCEPT ![h] = "started"] /\ queue' = Tail(queue)
    BY DEF Start
  <1>3. Types'
    BY <1>1, <1>2 DEF Start, mainVars, ServerInv, Types, RunStates
  <1>4. QueueInv'
    <2>1. \A k \in 1..Len(queue') : queue'[k] \in Ids
      BY <1>3 DEF Types
    <2>2. \A j \in Ids : j # h => run'[j] = run[j]
      BY <1>2 DEF ServerInv, Types
    <2> QED
      BY <1>1, <1>2, <2>1, <2>2 DEF QueueInv
  <1>5. MainInv'
    <2>1. main \notin {"handshake", "closing", "collecting", "exited"}
      BY <1>1 DEF ServerInv, MainInv, Unfinished
    <2> QED
      BY <2>1 DEF Start, mainVars, ServerInv, MainInv
  <1> QED
    BY <1>3, <1>4, <1>5 DEF ServerInv

\* A step of a run that a worker has taken leaves the queue as it is.
LEMMA PoolKeeps ==
  ASSUME ServerInv, NEW i \in Ids, Pool(i)
  PROVE  ServerInv'
  <1>1. /\ run[i] \in {"started", "serving"} /\ UNCHANGED <<mainVars, queue, running, peerOpen>>
        /\ \E s \in RunStates : run' = [run EXCEPT ![i] = s] /\ s # "queued"
    BY DEF Pool, Serve, Finish, Active, RunStates
  <1>2. Types'
    BY <1>1 DEF ServerInv, Types, mainVars
  <1>3. QueueInv'
    <2>1. \A k \in 1..Len(queue) : queue[k] \in Ids /\ queue[k] # i
      BY <1>1 DEF ServerInv, Types, QueueInv
    <2> QED
      BY <1>1, <2>1 DEF ServerInv, Types, QueueInv
  <1>4. MainInv'
    <2>1. i \in Unfinished
      BY <1>1 DEF Unfinished, Active
    <2>2. main \notin {"handshake", "closing", "collecting", "exited"}
      BY <2>1 DEF ServerInv, MainInv
    <2> QED
      BY <1>1, <2>2 DEF ServerInv, MainInv, mainVars
  <1> QED
    BY <1>2, <1>3, <1>4 DEF ServerInv

\* The steps that touch no run: the rest of the main thread's, the client's, the
\* reader's.
LEMMA OthersKeep ==
  ASSUME ServerInv,
         \/ Handshake \/ Reply \/ LeaveLoop \/ Drain \/ Close \/ Collect
         \/ (\E c \in Commands : Command(c)) \/ Disconnect \/ ReaderCloses
         \/ UNCHANGED vars
  PROVE  ServerInv'
  <1>1. UNCHANGED <<run, queue>>
    BY DEF Handshake, Reply, LeaveLoop, Drain, Close, Collect, Command, Disconnect, ReaderCloses,
           vars, runVars
  <1>2. QueueInv' /\ Unfinished' = Unfinished
    BY <1>1 DEF ServerInv, QueueInv, Unfinished, Active
  <1>3. control' \in Seq(Commands)
    <2>1. \/ control' = control
          \/ control # <<>> /\ control' = Tail(control)
          \/ \E c \in Commands : control' = Append(control, c)
      BY DEF Handshake, Reply, LeaveLoop, Drain, Close, Collect, Command, Disconnect, ReaderCloses,
             vars, mainVars
    <2>2. control \in Seq(Commands)
      BY DEF ServerInv, Types
    <2> QED
      BY SMTT(30), <2>1, <2>2
  <1>4. Types'
    <2>1. main' \in MainStates
      BY DEF Handshake, Reply, LeaveLoop, Drain, Close, Collect, Command, Disconnect, ReaderCloses,
             vars, mainVars, ServerInv, Types, MainStates
    <2>2. running' \in BOOLEAN /\ peerOpen' \in BOOLEAN
      BY DEF Handshake, Reply, LeaveLoop, Drain, Close, Collect, Command, Disconnect, ReaderCloses,
             vars, ServerInv, Types
    <2> QED
      BY <1>1, <1>3, <2>1, <2>2 DEF ServerInv, Types
  <1>5. MainInv'
    BY <1>2 DEF Handshake, Reply, LeaveLoop, Drain, Close, Collect, Command, Disconnect,
           ReaderCloses, vars, mainVars, ServerInv, Types, MainInv
  <1> QED
    BY <1>2, <1>4, <1>5 DEF ServerInv

LEMMA NextKeeps == ServerInv /\ [Next]_vars => ServerInv'
  <1> SUFFICES ASSUME ServerInv, [Next]_vars PROVE ServerInv'
    OBVIOUS
  <1>1. CASE Submit
    BY <1>1, SubmitKeeps
  <1>2. CASE Start
    BY <1>2, StartKeeps
  <1>3. CASE \E i \in Ids : Pool(i)
    BY <1>3, PoolKeeps
  <1>4. CASE \/ Handshake \/ Reply \/ LeaveLoop \/ Drain \/ Close \/ Collect
             \/ (\E c \in Commands : Command(c)) \/ Disconnect \/ ReaderCloses
             \/ UNCHANGED vars
    BY <1>4, OthersKeep
  <1> QED
    BY <1>1, <1>2, <1>3, <1>4 DEF Next, Main

LEMMA ServerInvariant == Spec => []ServerInv
  BY InitServer, NextKeeps, PTL DEF Spec

\* As long as the client stays, the connection is closed only when every accepted run
\* has ended (server.py:432, 484): for any number of runs, workers and commands.
THEOREM RunsNotCutOff == Spec => []CloseWaitsForRuns
  <1>1. ServerInv => CloseWaitsForRuns
    BY DEF ServerInv, MainInv, CloseWaitsForRuns
  <1> QED
    BY <1>1, ServerInvariant, PTL

\* A run that has ended is never started again, whatever ids the client names
\* (connection.py:297-298).
THEOREM EndedForGood == Spec => RunsOnce
  <1>1. ServerInv /\ [Next]_vars => [\A i \in Ids : run[i] = "ended" => run'[i] = "ended"]_vars
    <2> SUFFICES ASSUME ServerInv, Next, NEW i \in Ids, run[i] = "ended"
                 PROVE  run'[i] = "ended"
      OBVIOUS
    <2>1. CASE Submit
      BY <2>1, RunCommand DEF Submit, Registers, ServerInv, Types
    <2>2. CASE Start
      BY <2>2, TakeHead DEF Start, ServerInv, Types
    <2>3. CASE \E j \in Ids : Pool(j)
      BY <2>3 DEF Pool, Serve, Finish, Active, ServerInv, Types
    <2>4. CASE \/ Handshake \/ Reply \/ LeaveLoop \/ Drain \/ Close \/ Collect
               \/ (\E c \in Commands : Command(c)) \/ Disconnect \/ ReaderCloses
      BY <2>4 DEF Handshake, Reply, LeaveLoop, Drain, Close, Collect, Command, Disconnect,
                  ReaderCloses, runVars
    <2> QED
      BY <2>1, <2>2, <2>3, <2>4 DEF Next, Main
  <1> QED
    BY <1>1, ServerInvariant, PTL DEF Spec, RunsOnce

-----------------------------------------------------------------------------
(* Types, and the pool: never more runs in progress than workers.          *)

TypeInv == TypeOK /\ IsFiniteSet(Active) /\ (main = "replying" => current \in Ids)

LEMMA InitTypes == Init => TypeInv
  <1> SUFFICES ASSUME Init PROVE TypeInv
    OBVIOUS
  <1>1. Active = {}
    BY DEF Init, Active
  <1>2. IsFiniteSet(Active) /\ Cardinality(Active) = 0
    BY <1>1, FS_EmptySet
  <1>3. Cardinality(Active) <= Workers /\ written \in 0..MaxCommands
    BY <1>2, ServerAssumption DEF Init
  <1>4. control \in Seq(Commands) /\ queue \in Seq(Ids) /\ futures \in Seq(Ids)
    BY DEF Init
  <1>5. /\ run \in [Ids -> {"none", "queued", "started", "serving", "ended"}]
        /\ outcome \in [Ids -> Outcomes]
    BY DEF Init, Outcomes
  <1> QED
    BY <1>2, <1>3, <1>4, <1>5 DEF Init, TypeInv, TypeOK

\* The steps that leave the pool's work queue and its runs' states alone.
LEMMA OthersKeepTypes ==
  ASSUME TypeInv,
         \/ Handshake \/ Reply \/ LeaveLoop \/ Drain \/ Close \/ Collect
         \/ (\E c \in Commands : Command(c)) \/ Disconnect \/ ReaderCloses
         \/ UNCHANGED vars
  PROVE  TypeInv'
  <1>1. UNCHANGED <<queue, run, outcome, current>>
    BY DEF Handshake, Reply, LeaveLoop, Drain, Close, Collect, Command, Disconnect, ReaderCloses,
           vars, runVars, mainVars
  <1>2. Active' = Active
    BY <1>1 DEF Active
  <1>3. control' \in Seq(Commands)
    <2>1. \/ control' = control
          \/ control # <<>> /\ control' = Tail(control)
          \/ \E c \in Commands : control' = Append(control, c)
      BY DEF Handshake, Reply, LeaveLoop, Drain, Close, Collect, Command, Disconnect, ReaderCloses,
             vars, mainVars
    <2>2. control \in Seq(Commands)
      BY DEF TypeInv, TypeOK
    <2> QED
      BY <2>1, <2>2
  <1>4. futures' \in Seq(Ids)
    <2>1. futures' = futures \/ (futures # <<>> /\ futures' = Tail(futures))
      BY DEF Handshake, Reply, LeaveLoop, Drain, Close, Collect, Command, Disconnect, ReaderCloses,
             vars, mainVars
    <2>2. futures \in Seq(Ids)
      BY DEF TypeInv, TypeOK
    <2> QED
      BY <2>1, <2>2
  <1>5. replies' \subseteq Ids
    <2>1. replies' = replies \/ (main = "replying" /\ replies' = replies \cup {current})
      BY DEF Handshake, Reply, LeaveLoop, Drain, Close, Collect, Command, Disconnect, ReaderCloses,
             vars, mainVars
    <2> QED
      BY <2>1 DEF TypeInv, TypeOK
  <1>6. /\ main' \in {"handshake", "serving", "replying", "leaving", "closing", "collecting",
                      "exited"}
        /\ raised' \in BOOLEAN /\ running' \in BOOLEAN /\ peerOpen' \in BOOLEAN
    BY DEF Handshake, Reply, LeaveLoop, Drain, Close, Collect, Command, Disconnect, ReaderCloses,
           vars, mainVars, TypeInv, TypeOK
  <1>8. main' = "replying" => main = "replying"
    BY DEF Handshake, Reply, LeaveLoop, Drain, Close, Collect, Command, Disconnect, ReaderCloses,
           vars, mainVars
  <1>7. written' \in 0..MaxCommands
    BY ServerAssumption
    DEF Handshake, Reply, LeaveLoop, Drain, Close, Collect, Command, Disconnect, ReaderCloses,
        vars, TypeInv, TypeOK
  <1> QED
    BY <1>1, <1>2, <1>3, <1>4, <1>5, <1>6, <1>7, <1>8 DEF TypeInv, TypeOK

\* The pool's steps change Active by one run.
LEMMA PoolKeepsTypes ==
  ASSUME TypeInv, NEW i \in Ids, Pool(i)
  PROVE  TypeInv'
  <1>1. /\ run[i] \in {"started", "serving"} /\ UNCHANGED <<mainVars, queue, running, peerOpen, written>>
        /\ \/ run' = [run EXCEPT ![i] = "serving"] /\ UNCHANGED outcome
           \/ run' = [run EXCEPT ![i] = "ended"]
    BY DEF Pool, Serve, Finish, Active
  <1>2. /\ run' \in [Ids -> {"none", "queued", "started", "serving", "ended"}]
        /\ outcome' \in [Ids -> Outcomes]
    BY ZenonT(60), <1>1 DEF Pool, Serve, Finish, TypeInv, TypeOK
  <1>3. Active' = Active \/ Active' = Active \ {i}
    BY <1>1, <1>2 DEF Active, TypeInv, TypeOK
  <1>4. IsFiniteSet(Active') /\ Cardinality(Active') <= Workers
    <2>1. IsFiniteSet(Active) /\ Cardinality(Active) <= Workers /\ Workers \in Nat
      BY ServerAssumption DEF TypeInv, TypeOK
    <2>2. /\ IsFiniteSet(Active \ {i})
          /\ Cardinality(Active \ {i}) <= Cardinality(Active)
      BY <2>1, FS_Subset
    <2>3. Cardinality(Active) \in Nat /\ Cardinality(Active \ {i}) \in Nat
      BY <2>1, <2>2, FS_CardinalityType
    <2> QED
      BY <1>3, <2>1, <2>2, <2>3
  <1> QED
    BY <1>1, <1>2, <1>4 DEF TypeInv, TypeOK, mainVars

LEMMA StartKeepsTypes == TypeInv /\ Start => TypeInv'
  <1> SUFFICES ASSUME TypeInv, Start PROVE TypeInv'
    OBVIOUS
  <1> DEFINE h == Head(queue)
  <1>1. h \in Ids /\ queue' \in Seq(Ids)
    <2>1. queue \in Seq(Ids) /\ queue # <<>> /\ queue' = Tail(queue)
      BY DEF Start, TypeInv, TypeOK
    <2> QED
      BY <2>1
  <1>2. run' = [run EXCEPT ![h] = "started"]
    BY DEF Start
  <1>3. run' \in [Ids -> {"none", "queued", "started", "serving", "ended"}]
    BY <1>1, <1>2 DEF TypeInv, TypeOK
  <1>4. Active' = Active \cup {h}
    BY <1>1, <1>2 DEF Active, TypeInv, TypeOK
  <1>5. IsFiniteSet(Active') /\ Cardinality(Active') <= Workers
    <2>1. IsFiniteSet(Active) /\ Cardinality(Active) < Workers /\ Workers \in Nat
      BY ServerAssumption DEF TypeInv, Start
    <2>2. /\ IsFiniteSet(Active \cup {h})
          /\ Cardinality(Active \cup {h}) = IF h \in Active THEN Cardinality(Active)
                                                            ELSE Cardinality(Active) + 1
      BY <2>1, FS_AddElement
    <2>3. Cardinality(Active) \in Nat
      BY <2>1, FS_CardinalityType
    <2> QED
      BY <1>4, <2>1, <2>2, <2>3
  <1> QED
    BY <1>1, <1>3, <1>5 DEF Start, TypeInv, TypeOK, mainVars

LEMMA SubmitKeepsTypes == TypeInv /\ Submit => TypeInv'
  <1> SUFFICES ASSUME TypeInv, Submit PROVE TypeInv'
    OBVIOUS
  <1> DEFINE i == Head(control).id
  <1>1. Head(control) \in Commands /\ control' \in Seq(Commands)
    <2>1. control \in Seq(Commands) /\ control # <<>> /\ control' = Tail(control)
      BY DEF Submit, TypeInv, TypeOK
    <2> QED
      BY <2>1
  <1>2. i \in Ids /\ run[i] = "none"
    BY <1>1 DEF Submit, Registers, Commands, Run, Other
  <1>3. queue' \in Seq(Ids) /\ futures' \in Seq(Ids)
    BY <1>2 DEF Submit, TypeInv, TypeOK
  <1>4. run' \in [Ids -> {"none", "queued", "started", "serving", "ended"}]
    BY <1>2 DEF Submit, TypeInv, TypeOK
  <1>5. Active' = Active
    BY <1>2 DEF Submit, Active, TypeInv, TypeOK
  <1> QED
    BY <1>1, <1>2, <1>3, <1>4, <1>5 DEF Submit, TypeInv, TypeOK

LEMMA TypeInvariant == Spec => []TypeInv
  <1>1. TypeInv /\ [Next]_vars => TypeInv'
    <2> SUFFICES ASSUME TypeInv, [Next]_vars PROVE TypeInv'
      OBVIOUS
    <2>1. CASE Submit
      BY <2>1, SubmitKeepsTypes
    <2>2. CASE Start
      BY <2>2, StartKeepsTypes
    <2>3. CASE \E i \in Ids : Pool(i)
      BY <2>3, PoolKeepsTypes
    <2>4. CASE \/ Handshake \/ Reply \/ LeaveLoop \/ Drain \/ Close \/ Collect
               \/ (\E c \in Commands : Command(c)) \/ Disconnect \/ ReaderCloses
               \/ UNCHANGED vars
      BY <2>4, OthersKeepTypes
    <2> QED
      BY <2>1, <2>2, <2>3, <2>4 DEF Next, Main
  <1> QED
    BY <1>1, InitTypes, PTL DEF Spec

\* Every variable keeps its type, and no more runs are in progress than the pool has
\* workers (server.py:431-432), for any number of either.
THEOREM TypeCorrect == Spec => []TypeOK
  <1>1. TypeInv => TypeOK
    BY DEF TypeInv
  <1> QED
    BY <1>1, TypeInvariant, PTL

-----------------------------------------------------------------------------
(* The exceptions of the runs: none is lost on the way to the exit.         *)

Pending(i) == \E k \in 1..Len(futures) : futures[k] = i

\* Only a run that has ended has raised.  Until the futures are looked at, every run
\* accepted is among them; while they are, every one that raised still is.
ExitInv ==
  /\ \A i \in Ids : outcome[i] = "exception" => run[i] = "ended"
  /\ main = "handshake" => \A i \in Ids : run[i] = "none"
  /\ main # "exited" => ~raised
  /\ main \notin {"collecting", "exited"} => \A i \in Ids : run[i] # "none" => Pending(i)
  /\ main = "collecting" => \A i \in Ids : outcome[i] = "exception" => Pending(i)
  /\ ExitTellsOfRuns

LEMMA InitExit == Init => ExitInv
  BY DEF Init, ExitInv, ExitTellsOfRuns, Pending

LEMMA SubmitKeepsExit == TypeInv /\ ExitInv /\ Submit => ExitInv'
  <1> SUFFICES ASSUME TypeInv, ExitInv, Submit PROVE ExitInv'
    OBVIOUS
  <1>1. PICK r \in Ids : /\ run[r] = "none" /\ run' = [run EXCEPT ![r] = "queued"]
                         /\ futures' = Append(futures, r)
    <2> DEFINE h == Head(control).id
    <2>1. Head(control) \in Commands
      BY DEF Submit, TypeInv, TypeOK
    <2>2. h \in Ids
      BY <2>1 DEF Submit, Commands, Run, Other
    <2>3. run[h] = "none" /\ run' = [run EXCEPT ![h] = "queued"] /\ futures' = Append(futures, h)
      BY DEF Submit, Registers
    <2> HIDE DEF h
    <2> QED
      BY <2>2, <2>3
  <1>2. main = "serving" /\ main' = "replying" /\ UNCHANGED <<outcome, raised>>
    BY DEF Submit
  <1>3. \A i \in Ids : i # r => run'[i] = run[i]
    BY <1>1 DEF TypeInv, TypeOK
  <1>4. outcome[r] # "exception"
    BY <1>1 DEF ExitInv
  <1>5. Pending(r)' /\ \A i \in Ids : Pending(i) => Pending(i)'
    <2>1. /\ Len(futures) \in Nat /\ Len(futures') = Len(futures) + 1
          /\ futures'[Len(futures) + 1] = r
          /\ \A k \in 1..Len(futures) : futures'[k] = futures[k]
      BY <1>1, <1>2 DEF TypeInv, TypeOK
    <2> QED
      BY <2>1 DEF Pending
  <1> QED
    BY <1>1, <1>2, <1>3, <1>4, <1>5 DEF ExitInv, ExitTellsOfRuns

\* A worker's step comes before the futures are looked at.
LEMMA WorkerKeepsExit ==
  ASSUME TypeInv, ServerInv, ExitInv, Start \/ \E i \in Ids : Pool(i)
  PROVE  ExitInv'
  <1>1. PICK i \in Ids : /\ run[i] \in {"queued", "started", "serving"}
                         /\ \/ /\ \E s \in {"started", "serving"} : run' = [run EXCEPT ![i] = s]
                               /\ UNCHANGED outcome
                            \/ /\ run' = [run EXCEPT ![i] = "ended"]
                               /\ \E how \in Outcomes : outcome' = [outcome EXCEPT ![i] = how]
    <2>1. CASE Start
      BY <2>1, TakeHead DEF Start, ServerInv
    <2>2. CASE \E i \in Ids : Pool(i)
      BY <2>2 DEF Pool, Serve, Finish, Active
    <2> QED
      BY <2>1, <2>2
  <1>2. UNCHANGED <<main, raised, futures>>
    BY DEF Start, Pool, Serve, Finish, mainVars
  <1>3. main \notin {"handshake", "closing", "collecting", "exited"}
    BY <1>1 DEF ServerInv, MainInv, Unfinished, Active
  <1>4. \A j \in Ids : j # i => run'[j] = run[j] /\ outcome'[j] = outcome[j]
    BY <1>1 DEF TypeInv, TypeOK
  <1>5. outcome'[i] = "exception" => run'[i] = "ended"
    BY <1>1 DEF ExitInv, TypeInv, TypeOK
  <1>6. \A j \in Ids : run'[j] # "none" => Pending(j)'
    BY <1>1, <1>2, <1>3, <1>4 DEF ExitInv, Pending
  <1> QED
    BY <1>2, <1>3, <1>4, <1>5, <1>6 DEF ExitInv, ExitTellsOfRuns

LEMMA CollectKeepsExit == TypeInv /\ ExitInv /\ Collect => ExitInv'
  <1> SUFFICES ASSUME TypeInv, ExitInv, Collect PROVE ExitInv'
    OBVIOUS
  <1>1. UNCHANGED <<run, outcome>> /\ main = "collecting" /\ ~raised
    BY DEF Collect, runVars, ExitInv
  <1>2. CASE futures = <<>>
    <2>1. \A i \in Ids : outcome[i] # "exception"
      BY <1>1, <1>2 DEF ExitInv, Pending
    <2> QED
      BY <1>1, <1>2, <2>1 DEF Collect, ExitInv, ExitTellsOfRuns
  <1>3. CASE futures # <<>> /\ outcome[Head(futures)] = "exception"
    <2>1. Head(futures) \in Ids
      BY <1>3 DEF TypeInv, TypeOK
    <2> QED
      BY <1>1, <1>3, <2>1 DEF Collect, ExitInv, ExitTellsOfRuns
  <1>4. CASE futures # <<>> /\ outcome[Head(futures)] # "exception"
    <2>1. main' = main /\ raised' = raised /\ futures' = Tail(futures)
      BY <1>4 DEF Collect
    <2>2. ASSUME NEW i \in Ids, outcome[i] = "exception" PROVE Pending(i)'
      <3>1. PICK k \in 1..Len(futures) : futures[k] = i
        BY <1>1, <2>2 DEF ExitInv, Pending
      <3>2. k # 1 /\ Len(futures) \in Nat
        BY <1>4, <2>2, <3>1 DEF TypeInv, TypeOK
      <3>3. /\ k - 1 \in 1..Len(Tail(futures)) /\ Tail(futures)[k - 1] = futures[k]
        BY <3>1, <3>2, <1>4 DEF TypeInv, TypeOK
      <3> QED
        BY <2>1, <3>1, <3>3 DEF Pending
    <2> QED
      BY <1>1, <2>1, <2>2 DEF ExitInv, ExitTellsOfRuns
  <1> QED
    BY <1>2, <1>3, <1>4

LEMMA OthersKeepExit ==
  ASSUME ExitInv,
         \/ Handshake \/ Reply \/ LeaveLoop \/ Drain \/ Close
         \/ (\E c \in Commands : Command(c)) \/ Disconnect \/ ReaderCloses
         \/ UNCHANGED vars
  PROVE  ExitInv'
  <1>1. UNCHANGED <<run, outcome, futures>>
    BY DEF Handshake, Reply, LeaveLoop, Drain, Close, Command, Disconnect, ReaderCloses,
           vars, runVars, mainVars
  <1>2. \A i : Pending(i)' <=> Pending(i)
    BY <1>1 DEF Pending
  <1>3. \/ UNCHANGED <<main, raised>>
        \/ main = "handshake" /\ (main' = "exited" \/ (main' = "serving" /\ UNCHANGED raised))
        \/ /\ UNCHANGED raised
           /\ <<main, main'>> \in {<<"replying", "serving">>, <<"replying", "leaving">>,
                 <<"serving", "leaving">>, <<"leaving", "closing">>, <<"closing", "collecting">>}
    BY DEF Handshake, Reply, LeaveLoop, Drain, Close, Command, Disconnect, ReaderCloses,
           vars, mainVars
  <1> QED
    BY <1>1, <1>2, <1>3 DEF ExitInv, ExitTellsOfRuns

\* An exception of any run but a lost connection or a timeout reaches the caller of
\* run_server_on_connection, and without one it returns (server.py:486-490): for any
\* number of runs, in whatever order they were accepted and ended.
THEOREM NoExceptionLost == Spec => []ExitTellsOfRuns
  <1>1. TypeInv /\ ServerInv /\ ExitInv /\ [Next]_vars => ExitInv'
    <2> SUFFICES ASSUME TypeInv, ServerInv, ExitInv, [Next]_vars PROVE ExitInv'
      OBVIOUS
    <2>1. CASE Submit
      BY <2>1, SubmitKeepsExit
    <2>2. CASE Start \/ \E i \in Ids : Pool(i)
      BY <2>2, WorkerKeepsExit
    <2>3. CASE Collect
      BY <2>3, CollectKeepsExit
    <2>4. CASE \/ Handshake \/ Reply \/ LeaveLoop \/ Drain \/ Close
               \/ (\E c \in Commands : Command(c)) \/ Disconnect \/ ReaderCloses
               \/ UNCHANGED vars
      BY <2>4, OthersKeepExit
    <2> QED
      BY <2>1, <2>2, <2>3, <2>4 DEF Next, Main
  <1>2. ExitInv => ExitTellsOfRuns
    BY DEF ExitInv
  <1> QED
    BY <1>1, <1>2, InitExit, TypeInvariant, ServerInvariant, PTL DEF Spec
=============================================================================
