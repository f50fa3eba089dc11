------------------------ MODULE CommissioningProofs ------------------------
(***************************************************************************)
(* The commissioning coordinator, proved for any jobs, keys and bounds.    *)
(* The inductive invariant says, for each job, which histories its durable *)
(* status allows (what was launched, seen and decided), and that custody's *)
(* decision agrees with it; for the turn in progress, what it has already  *)
(* committed; and that there is always room for the one row an admission   *)
(* may still owe.                                                          *)
(***************************************************************************)
EXTENDS Commissioning, FiniteSetTheorems, SequenceTheorems, TLAPS

\* The types the proofs use; nothing here depends on the leases.
Typed ==
    /\ daemon \in {"down", "opened", "ready", "blocked"}
    /\ binding \in [Keys -> Jobs \cup {NoJob}]
    /\ state \in [Jobs -> JobStates]
    /\ events \in [Jobs -> Seq(EventTypes)]
    /\ boundary \in [Jobs -> Boundaries]
    /\ handed = [j \in Jobs |-> handed[j]]
    /\ openJobs \in Nat
    /\ rows \in Seq(Jobs)
    /\ status \in [Jobs -> Statuses \cup {"none"}]
    /\ compiler \in [Jobs -> Observations \cup {"none"}]
    /\ worker \in [Jobs -> Observations \cup {"none"}]
    /\ disposition \in [Jobs -> Dispositions \cup {"none"}]
    /\ delivery \in [Jobs -> {"none", "OFFERED", "ACKNOWLEDGED"}]
    /\ launched \in [Jobs -> [compiler : Nat, worker : Nat]]
    /\ turn \in [at : {"idle", "open", "ensure", "cancel", "run", "acquired",
                       "handed", "refused", "released"},
                 job : Jobs \cup {NoJob}]
    /\ active \in Jobs \cup {NoJob}

\* Custody's own records of a job agree, and a cancelled job stays cancelled.
Decided(j) ==
    /\ state[j] = "UNSEEN" <=> boundary[j] = "none"
    /\ state[j] = "HANDOFF_COMMITTED" <=> boundary[j] = "HANDOFF_COMMITTED"
    /\ boundary[j] # "AMBIGUOUS"
    /\ handed[j] # NoHandoff => state[j] = "HANDOFF_COMMITTED"
    /\ Has(j, "job_cancelled_before_dispatch") =>
           state[j] = "CANCELLED_BEFORE_DISPATCH"

\* What the status of a row allows the rest of it to be.
Recorded(j) ==
    /\ status[j] # "none" => state[j] # "UNSEEN"
    /\ launched[j].compiler <= 1 /\ launched[j].worker <= 1
    /\ launched[j].compiler + launched[j].worker > 0 =>
           state[j] = "HANDOFF_COMMITTED"
    /\ launched[j].compiler > 0 => status[j] \notin {"none", "QUEUED"}
    /\ launched[j].worker > 0 =>
           status[j] \in {"WORKER_STARTED", "RAW_CAPTURED", "TERMINAL"}
    /\ status[j] \notin {"none", "QUEUED", "TERMINAL"} =>
           state[j] = "HANDOFF_COMMITTED"
    /\ compiler[j] # "none" =>
           status[j] \notin {"none", "QUEUED", "COMPILER_STARTED"}
    /\ worker[j] # "none" => status[j] \in {"RAW_CAPTURED", "TERMINAL"}
    /\ disposition[j] # "none" <=> status[j] = "TERMINAL"
    /\ status[j] = "TERMINAL" =>
           (disposition[j] = "adjudicated" <=> worker[j] = "captured")

\* What the turn in progress has committed, or found.
TurnInv ==
    /\ turn.at = "ensure" => /\ turn.job \in Jobs
                             /\ status[turn.job] = "none"
                             /\ state[turn.job] # "UNSEEN"
    /\ turn.at = "cancel" => turn.job \in Jobs /\ status[turn.job] = "QUEUED"
    /\ turn.at \in {"run", "acquired", "handed", "refused", "released"} =>
           turn.job \in Jobs /\ active = turn.job
    /\ turn.at \in {"acquired", "handed", "refused", "released"} =>
           status[turn.job] = "QUEUED"
    /\ turn.at = "acquired" => state[turn.job] = "ADMITTED"
    /\ turn.at \in {"handed", "released"} => state[turn.job] = "HANDOFF_COMMITTED"
    /\ daemon # "ready" => turn = Idle /\ active = NoJob

\* Unfinished work has somebody to look at it, also between the commits of a
\* client's call.
WorkInv ==
    (/\ daemon = "ready" /\ turn.at \in {"idle", "ensure", "cancel"}
     /\ ~closing /\ Unfinished # {}) => scheduled \/ active # NoJob

\* At most one admission owes its row, and only while a turn or a start that
\* will make it is due; there is room for it.
RoomInv ==
    /\ \A i, j \in Rowless : i = j
    /\ Rowless # {} => /\ Len(rows) < MaxRows
                       /\ turn.at \in {"ensure", "open"} \/ daemon # "ready"

\* What recovery reconciles.
BooksInv ==
    /\ {binding[k] : k \in Keys} \ {NoJob} = Admitted
    /\ openJobs = Cardinality(Counted)

IInv ==
    /\ Typed
    /\ \A j \in Jobs : Decided(j) /\ Recorded(j)
    /\ TurnInv /\ WorkInv /\ RoomInv /\ BooksInv
    /\ daemon # "blocked"

-----------------------------------------------------------------------------
(* Frames *)

\* A job none of whose records a step touches.
Untouched(i) ==
    /\ state'[i] = state[i] /\ boundary'[i] = boundary[i]
    /\ handed'[i] = handed[i] /\ events'[i] = events[i]
    /\ status'[i] = status[i] /\ launched'[i] = launched[i]
    /\ compiler'[i] = compiler[i] /\ worker'[i] = worker[i]
    /\ disposition'[i] = disposition[i]

LEMMA JobFrame ==
    ASSUME IInv, NEW i \in Jobs, Untouched(i)
    PROVE  Decided(i)' /\ Recorded(i)'
<1>1. Decided(i) /\ Recorded(i)
  BY DEF IInv
<1> QED BY <1>1 DEF Untouched, Decided, Recorded, Has

\* Steps that change no custody and no row.
LEMMA TurnStepFrame ==
    ASSUME IInv,
           UNCHANGED <<daemon, binding, state, events, boundary, handed, openJobs>>,
           UNCHANGED <<rows, status, compiler, worker, disposition, launched>>,
           Typed', TurnInv', WorkInv', RoomInv'
    PROVE  IInv'
<1>1. \A i \in Jobs : Untouched(i)
  BY DEF Untouched
<1>2. BooksInv'
  BY DEF IInv, BooksInv, Admitted, Counted
<1>3. \A i \in Jobs : Decided(i)' /\ Recorded(i)'
  BY <1>1, JobFrame
<1>4. daemon' # "blocked"
  BY DEF IInv
<1> QED BY <1>2, <1>3, <1>4 DEF IInv

\* Custody as it was.
CustodyKept ==
    UNCHANGED <<daemon, binding, state, events, boundary, handed, openJobs>>

\* Steps on the row of one job.
LEMMA RowFrame ==
    ASSUME IInv, NEW j \in Jobs, CustodyKept, rows' = rows,
           \A i \in Jobs \ {j} : Untouched(i),
           status[j] # "none", status'[j] # "none",
           turn.at \notin {"ensure", "open"} \/ turn' = turn,
           Typed', Recorded(j)', TurnInv', WorkInv'
    PROVE  IInv'
<1>1. \A i \in Jobs \ {j} : Decided(i)' /\ Recorded(i)'
  BY JobFrame
<1>2. Decided(j)'
  <2>1. Decided(j)
    BY DEF IInv
  <2> QED BY <2>1 DEF Decided, Has, CustodyKept
<1>3. Rowless' = Rowless
  BY DEF Rowless, Admitted, CustodyKept, Untouched
<1>4. RoomInv'
  BY <1>3 DEF IInv, RoomInv, CustodyKept
<1>5. BooksInv'
  BY DEF IInv, BooksInv, Admitted, Counted, CustodyKept
<1>6. daemon' # "blocked"
  BY DEF IInv, CustodyKept
<1>7. \A i \in Jobs : Decided(i)' /\ Recorded(i)'
  BY <1>1, <1>2
<1> QED BY <1>4, <1>5, <1>6, <1>7 DEF IInv

-----------------------------------------------------------------------------
(* The verdicts *)

\* A verdict on an unfinished row.
LEMMA FinishStep ==
    ASSUME IInv, NEW j \in Jobs, NEW verdict \in Dispositions,
           Finish(j, verdict), CustodyKept, launched' = launched,
           status[j] \notin {"none", "TERMINAL"},
           verdict = "adjudicated" <=> worker[j] = "captured",
           \/ /\ turn.at \in {"run", "refused"} \/ (turn = Idle /\ daemon = "ready")
              /\ RunEnds
           \/ turn.at = "cancel" /\ turn' = Idle /\ UNCHANGED <<active, scheduled, closing>>
           \/ turn.at = "open" /\ UNCHANGED <<turn, active, scheduled, closing>>
    PROVE  IInv'
<1>1. /\ rows' = rows /\ compiler' = compiler /\ worker' = worker
      /\ delivery' = delivery
      /\ status' = [status EXCEPT ![j] = "TERMINAL"]
      /\ disposition' = [disposition EXCEPT ![j] = verdict]
  BY DEF Finish, Move
<1>2. /\ status'[j] = "TERMINAL" /\ disposition'[j] = verdict
      /\ \A i \in Jobs \ {j} : status'[i] = status[i] /\ disposition'[i] = disposition[i]
      /\ \A i \in Jobs : status'[i] # "TERMINAL" => status[i] # "TERMINAL"
      /\ status' \in [Jobs -> Statuses \cup {"none"}]
      /\ disposition' \in [Jobs -> Dispositions \cup {"none"}]
  BY <1>1 DEF IInv, Typed, Statuses
<1>3. /\ Idle \in [at : {"idle", "open", "ensure", "cancel", "run", "acquired",
                         "handed", "refused", "released"}, job : Jobs \cup {NoJob}]
      /\ Idle.at = "idle"
  BY DEF Idle
<1>4. /\ turn' = Idle \/ (turn' = turn /\ turn.at = "open")
      /\ active' \in Jobs \cup {NoJob}
      /\ turn.at \notin {"ensure", "open"} \/ turn' = turn
      /\ daemon = "ready"
  <2>1. turn # Idle => daemon = "ready"
    BY DEF IInv, TurnInv
  <2>2. turn.at \in {"run", "refused", "cancel", "open"} => turn # Idle
    BY <1>3
  <2> QED BY <1>3, <2>1, <2>2 DEF IInv, Typed, RunEnds
<1>5. Typed'
  BY <1>1, <1>2, <1>3, <1>4 DEF IInv, Typed, CustodyKept
<1>6. Recorded(j)'
  <2>1. Recorded(j)
    BY DEF IInv
  <2>2. verdict # "none"
    BY DEF Dispositions
  <2> QED BY <1>1, <1>2, <2>1, <2>2 DEF Recorded, CustodyKept
<1>7. TurnInv'
  BY <1>3, <1>4 DEF TurnInv, CustodyKept
<1>8. WorkInv'
  <2>1. Unfinished' \subseteq Unfinished
    BY <1>1, <1>2 DEF Unfinished, IInv, Typed
  <2>2. CASE RunEnds
    BY <2>2 DEF RunEnds, WorkInv
  <2>3. CASE turn.at = "cancel" /\ turn' = Idle /\ UNCHANGED <<active, scheduled, closing>>
    BY <2>1, <2>3 DEF IInv, WorkInv, CustodyKept
  <2>4. CASE turn.at = "open" /\ UNCHANGED <<turn, active, scheduled, closing>>
    BY <2>4 DEF WorkInv
  <2> QED BY <2>2, <2>3, <2>4
<1>9. \A i \in Jobs \ {j} : Untouched(i)
  BY <1>1, <1>2 DEF Untouched, CustodyKept
<1> QED BY <1>1, <1>2, <1>4, <1>5, <1>6, <1>7, <1>8, <1>9, RowFrame

LEMMA VerdictSteps ==
    ASSUME IInv, NEW j \in Jobs,
           \/ FinishCancelled(j)
           \/ DispatchRefused(j)
           \/ turn = At("refused", j) /\ RunFinishes(j, "remanded") /\ CustodyKept
                                      /\ launched' = launched
           \/ CompilerReturns(j) /\ RunFinishes(j, "remanded")
           \/ MaterializePage(j) /\ RunFinishes(j, "remanded")
           \/ StopBeforeWorker(j)
           \/ WorkerReturns(j) /\ RunFinishes(j, "remanded")
           \/ Adjudicate(j)
           \/ FinishInterrupted(j)
    PROVE  IInv'
<1> USE DEF custodyVars, CustodyKept, hostVars, RunFinishes
<1>1. Recorded(j)
  BY DEF IInv
<1>2. /\ "remanded" \in Dispositions /\ "adjudicated" \in Dispositions
      /\ "remanded" # "adjudicated"
  BY DEF Dispositions
<1>3. \A what : At(what, j).at = what
  BY DEF At
<1>4. CASE FinishCancelled(j)
  <2>1. status[j] = "QUEUED" /\ worker[j] # "captured"
    <3>1. status[j] = "QUEUED"
      BY <1>4 DEF FinishCancelled, At, IInv, TurnInv
    <3> QED BY <1>1, <3>1 DEF Recorded
  <2>2. /\ turn.at = "cancel" /\ turn' = Idle
        /\ Finish(j, "remanded") /\ CustodyKept /\ launched' = launched
        /\ UNCHANGED <<active, scheduled, closing>>
    BY <1>3, <1>4 DEF FinishCancelled
  <2> QED BY <1>2, <2>1, <2>2, FinishStep
<1>5. CASE DispatchRefused(j)
  <2>1. status[j] = "QUEUED" /\ worker[j] # "captured"
    BY <1>1, <1>5 DEF DispatchRefused, Running, Recorded
  <2>2. /\ turn.at = "run" /\ RunEnds
        /\ Finish(j, "remanded") /\ CustodyKept /\ launched' = launched
    BY <1>3, <1>5 DEF DispatchRefused, Running
  <2> QED BY <1>2, <2>1, <2>2, FinishStep
<1>6. CASE turn = At("refused", j) /\ RunFinishes(j, "remanded") /\ CustodyKept
                                   /\ launched' = launched
  <2>1. status[j] = "QUEUED" /\ worker[j] # "captured"
    <3>1. status[j] = "QUEUED"
      BY <1>6 DEF At, IInv, TurnInv
    <3> QED BY <1>1, <3>1 DEF Recorded
  <2>2. /\ turn.at = "refused" /\ RunEnds
        /\ Finish(j, "remanded") /\ CustodyKept /\ launched' = launched
    BY <1>3, <1>6
  <2> QED BY <1>2, <2>1, <2>2, FinishStep
<1>7. CASE (CompilerReturns(j) \/ WorkerReturns(j)) /\ RunFinishes(j, "remanded")
  <2>1. status[j] \in {"COMPILER_STARTED", "WORKER_STARTED"} /\ worker[j] # "captured"
    BY <1>1, <1>7 DEF CompilerReturns, WorkerReturns, Awaiting, Recorded
  <2>2. /\ turn = Idle /\ daemon = "ready" /\ RunEnds
        /\ Finish(j, "remanded") /\ CustodyKept /\ launched' = launched
    BY <1>7 DEF CompilerReturns, WorkerReturns, Awaiting, Free, Serving
  <2> QED BY <1>2, <2>1, <2>2, FinishStep
<1>8. CASE (MaterializePage(j) \/ StopBeforeWorker(j)) /\ RunFinishes(j, "remanded")
  <2>1. status[j] \in {"COMPILER_CAPTURED", "PAGE_MATERIALIZED"} /\ worker[j] # "captured"
    BY <1>1, <1>8 DEF MaterializePage, StopBeforeWorker, Running, Recorded
  <2>2. /\ turn.at = "run" /\ RunEnds
        /\ Finish(j, "remanded") /\ CustodyKept /\ launched' = launched
    BY <1>3, <1>8 DEF MaterializePage, StopBeforeWorker, Running
  <2> QED BY <1>2, <2>1, <2>2, FinishStep
<1>9. CASE Adjudicate(j)
  <2>1. PICK verdict \in Dispositions :
            /\ verdict = IF worker[j] = "captured" THEN "adjudicated" ELSE "remanded"
            /\ Finish(j, verdict) /\ RunEnds
    BY <1>2, <1>9 DEF Adjudicate
  <2>2. verdict = "adjudicated" <=> worker[j] = "captured"
    BY <1>2, <2>1
  <2>3. /\ turn.at = "run" /\ status[j] = "RAW_CAPTURED"
        /\ CustodyKept /\ launched' = launched
    BY <1>3, <1>9 DEF Adjudicate, Running
  <2> QED BY <2>1, <2>2, <2>3, FinishStep
<1>10. CASE FinishInterrupted(j)
  <2>1. status[j] \in {"COMPILER_STARTED", "WORKER_STARTED"} /\ worker[j] # "captured"
    BY <1>1, <1>10 DEF FinishInterrupted, Started, Recorded
  <2>2. /\ turn.at = "open" /\ UNCHANGED <<turn, active, scheduled, closing>>
        /\ Finish(j, "remanded") /\ CustodyKept /\ launched' = launched
    BY <1>10 DEF FinishInterrupted
  <2> QED BY <1>2, <2>1, <2>2, FinishStep
<1>11. StopBeforeWorker(j) => RunFinishes(j, "remanded")
  BY DEF StopBeforeWorker
<1> QED BY <1>4, <1>5, <1>6, <1>7, <1>8, <1>9, <1>10, <1>11

-----------------------------------------------------------------------------
(* Progress on a row *)

LEMMA AdvanceStep ==
    ASSUME IInv, NEW j \in Jobs, NEW next \in Statuses, Move(j, next), CustodyKept,
           UNCHANGED <<rows, disposition, delivery, active, scheduled, closing>>,
           status[j] # "none", status[j] # "TERMINAL", next # "TERMINAL",
           active = j, daemon = "ready",
           turn.at \notin {"ensure", "open"},
           turn' = Idle \/ turn' = At("run", j),
           compiler' \in [Jobs -> Observations \cup {"none"}],
           worker' \in [Jobs -> Observations \cup {"none"}],
           launched' \in [Jobs -> [compiler : Nat, worker : Nat]],
           \A i \in Jobs \ {j} : /\ compiler'[i] = compiler[i] /\ worker'[i] = worker[i]
                                 /\ launched'[i] = launched[i],
           Recorded(j)'
    PROVE  IInv'
<1>1. /\ status' = [status EXCEPT ![j] = next]
      /\ status'[j] = next
      /\ \A i \in Jobs \ {j} : status'[i] = status[i]
  BY DEF Move, IInv, Typed
<1>2. /\ turn' \in [at : {"idle", "open", "ensure", "cancel", "run", "acquired",
                          "handed", "refused", "released"}, job : Jobs \cup {NoJob}]
      /\ turn'.at = "idle" \/ (turn'.at = "run" /\ turn'.job = j)
  BY DEF Idle, At
<1>3. Typed'
  BY <1>1, <1>2 DEF IInv, Typed, CustodyKept
<1>4. TurnInv'
  BY <1>2 DEF TurnInv, CustodyKept
<1>5. active' # NoJob
  BY CustodyAssumption
<1>6. WorkInv'
  BY <1>5 DEF WorkInv
<1>7. \A i \in Jobs \ {j} : Untouched(i)
  BY <1>1 DEF Untouched, CustodyKept
<1>8. next # "none"
  BY DEF Statuses
<1> QED BY <1>1, <1>3, <1>4, <1>6, <1>7, <1>8, RowFrame

LEMMA StartCompilerStep ==
    ASSUME IInv, NEW j \in Jobs, StartCompiler(j)
    PROVE  IInv'
<1> USE DEF custodyVars, CustodyKept
<1>1. /\ Move(j, "COMPILER_STARTED") /\ CustodyKept
      /\ launched' = [launched EXCEPT ![j].compiler = @ + 1]
      /\ turn' = Idle /\ compiler' = compiler /\ worker' = worker
      /\ UNCHANGED <<rows, disposition, delivery, active, scheduled, closing>>
  BY DEF StartCompiler
<1>2. /\ turn.at \in {"released", "run"} /\ active = j /\ daemon = "ready"
      /\ status[j] = "QUEUED" /\ state[j] = "HANDOFF_COMMITTED"
  <2>1. turn = At("released", j) \/ (turn = At("run", j) /\ status[j] = "QUEUED"
                                       /\ boundary[j] = "HANDOFF_COMMITTED")
    BY DEF StartCompiler, Running
  <2>2. turn.at \in {"released", "run"} /\ turn.job = j /\ turn # Idle
    BY <2>1 DEF At, Idle
  <2>3. active = j /\ daemon = "ready"
    BY <2>2 DEF IInv, TurnInv
  <2>4. CASE turn = At("released", j)
    BY <2>2, <2>3, <2>4 DEF IInv, TurnInv, At
  <2>5. CASE status[j] = "QUEUED" /\ boundary[j] = "HANDOFF_COMMITTED"
    BY <2>2, <2>3, <2>5 DEF IInv, Decided
  <2> QED BY <2>1, <2>4, <2>5
<1>3. launched[j] \in [compiler : Nat, worker : Nat] /\ Recorded(j)
  BY DEF IInv, Typed
<1>4. launched[j].compiler = 0 /\ launched[j].worker = 0
  BY <1>2, <1>3 DEF Recorded
<1>5. /\ launched' \in [Jobs -> [compiler : Nat, worker : Nat]]
      /\ launched'[j].compiler = 1 /\ launched'[j].worker = 0
      /\ \A i \in Jobs \ {j} : launched'[i] = launched[i]
  <2>1. PICK r : r = [launched[j] EXCEPT !.compiler = launched[j].compiler + 1]
    OBVIOUS
  <2>2. /\ r \in [compiler : Nat, worker : Nat]
        /\ r.compiler = 1 /\ r.worker = launched[j].worker
    BY <1>3, <1>4, <2>1
  <2>3. launched' = [launched EXCEPT ![j] = r] /\ launched \in [Jobs -> [compiler : Nat, worker : Nat]]
    BY <1>1, <2>1 DEF IInv, Typed
  <2> QED BY <1>4, <2>2, <2>3
<1>6. status'[j] = "COMPILER_STARTED" /\ "COMPILER_STARTED" \in Statuses
  BY <1>1 DEF Move, IInv, Typed, Statuses
<1>7. Recorded(j)'
  BY <1>1, <1>2, <1>3, <1>5, <1>6 DEF Recorded
<1>8. /\ compiler' \in [Jobs -> Observations \cup {"none"}]
      /\ worker' \in [Jobs -> Observations \cup {"none"}]
  BY <1>1 DEF IInv, Typed
<1>9. /\ \A i \in Jobs \ {j} : compiler'[i] = compiler[i] /\ worker'[i] = worker[i]
      /\ turn.at \notin {"ensure", "open"}
      /\ status[j] # "none" /\ status[j] # "TERMINAL"
  BY <1>1, <1>2
<1> QED BY <1>1, <1>2, <1>5, <1>6, <1>7, <1>8, <1>9, AdvanceStep

LEMMA StartWorkerStep ==
    ASSUME IInv, NEW j \in Jobs, StartWorker(j)
    PROVE  IInv'
<1> USE DEF custodyVars, CustodyKept
<1>1. /\ Move(j, "WORKER_STARTED") /\ CustodyKept
      /\ launched' = [launched EXCEPT ![j].worker = @ + 1]
      /\ turn' = Idle /\ compiler' = compiler /\ worker' = worker
      /\ turn = At("run", j) /\ status[j] = "PAGE_MATERIALIZED"
      /\ UNCHANGED <<rows, disposition, delivery, active, scheduled, closing>>
  BY DEF StartWorker, Running
<1>2. turn.at = "run" /\ active = j /\ daemon = "ready"
  <2>1. turn.at = "run" /\ turn.job = j /\ turn # Idle
    BY <1>1 DEF At, Idle
  <2> QED BY <2>1 DEF IInv, TurnInv
<1>3. launched[j] \in [compiler : Nat, worker : Nat] /\ Recorded(j)
  BY DEF IInv, Typed
<1>4. launched[j].worker = 0 /\ state[j] = "HANDOFF_COMMITTED"
  BY <1>1, <1>3 DEF Recorded
<1>5. /\ launched' \in [Jobs -> [compiler : Nat, worker : Nat]]
      /\ launched'[j].compiler = launched[j].compiler /\ launched'[j].worker = 1
      /\ \A i \in Jobs \ {j} : launched'[i] = launched[i]
  <2>1. PICK r : r = [launched[j] EXCEPT !.worker = launched[j].worker + 1]
    OBVIOUS
  <2>2. /\ r \in [compiler : Nat, worker : Nat]
        /\ r.worker = 1 /\ r.compiler = launched[j].compiler
    BY <1>3, <1>4, <2>1
  <2>3. launched' = [launched EXCEPT ![j] = r] /\ launched \in [Jobs -> [compiler : Nat, worker : Nat]]
    BY <1>1, <2>1 DEF IInv, Typed
  <2> QED BY <1>4, <2>2, <2>3
<1>6. status'[j] = "WORKER_STARTED" /\ "WORKER_STARTED" \in Statuses
  BY <1>1 DEF Move, IInv, Typed, Statuses
<1>7. Recorded(j)'
  BY <1>1, <1>3, <1>4, <1>5, <1>6 DEF Recorded
<1>8. /\ compiler' \in [Jobs -> Observations \cup {"none"}]
      /\ worker' \in [Jobs -> Observations \cup {"none"}]
  BY <1>1 DEF IInv, Typed
<1>9. /\ \A i \in Jobs \ {j} : compiler'[i] = compiler[i] /\ worker'[i] = worker[i]
      /\ turn.at \notin {"ensure", "open"}
      /\ status[j] # "none" /\ status[j] # "TERMINAL"
  BY <1>1, <1>2
<1> QED BY <1>1, <1>2, <1>5, <1>6, <1>7, <1>8, <1>9, AdvanceStep

LEMMA EvidenceSteps ==
    ASSUME IInv, NEW j \in Jobs,
           \/ CompilerReturns(j) /\ status'[j] = "COMPILER_CAPTURED"
           \/ WorkerReturns(j) /\ status'[j] = "RAW_CAPTURED"
    PROVE  IInv'
<1> USE DEF custodyVars, CustodyKept
<1>1. PICK seen \in Observations :
        /\ CustodyKept /\ launched' = launched
        /\ active = j /\ daemon = "ready" /\ turn = Idle /\ turn' = At("run", j)
        /\ UNCHANGED <<rows, disposition, delivery, active, scheduled, closing>>
        /\ \/ /\ status[j] = "COMPILER_STARTED" /\ Move(j, "COMPILER_CAPTURED")
              /\ compiler' = [compiler EXCEPT ![j] = seen] /\ worker' = worker
           \/ /\ status[j] = "WORKER_STARTED" /\ Move(j, "RAW_CAPTURED")
              /\ worker' = [worker EXCEPT ![j] = seen] /\ compiler' = compiler
  <2>1. RunFinishes(j, "remanded") => status'[j] = "TERMINAL"
    BY DEF RunFinishes, Finish, Move, IInv, Typed
  <2>2. CASE CompilerReturns(j) /\ status'[j] = "COMPILER_CAPTURED"
    BY <2>1, <2>2 DEF CompilerReturns, Awaiting, Free, Serving
  <2>3. CASE WorkerReturns(j) /\ status'[j] = "RAW_CAPTURED"
    BY <2>1, <2>3 DEF WorkerReturns, Awaiting, Free, Serving
  <2> QED BY <2>2, <2>3
<1>2. PICK next \in {"COMPILER_CAPTURED", "RAW_CAPTURED"} :
        /\ Move(j, next)
        /\ next = "COMPILER_CAPTURED" =>
              /\ status[j] = "COMPILER_STARTED"
              /\ compiler' = [compiler EXCEPT ![j] = seen] /\ worker' = worker
        /\ next = "RAW_CAPTURED" =>
              /\ status[j] = "WORKER_STARTED"
              /\ worker' = [worker EXCEPT ![j] = seen] /\ compiler' = compiler
  BY <1>1
<1>3. status'[j] = next /\ next \in Statuses /\ next # "TERMINAL"
  BY <1>2 DEF Move, IInv, Typed, Statuses
<1>4. /\ compiler' \in [Jobs -> Observations \cup {"none"}]
      /\ worker' \in [Jobs -> Observations \cup {"none"}]
      /\ \A i \in Jobs \ {j} : compiler'[i] = compiler[i] /\ worker'[i] = worker[i]
      /\ next = "COMPILER_CAPTURED" => worker'[j] = worker[j]
  <2>0. /\ compiler \in [Jobs -> Observations \cup {"none"}]
        /\ worker \in [Jobs -> Observations \cup {"none"}]
    BY DEF IInv, Typed
  <2>1. CASE next = "COMPILER_CAPTURED"
    <3>1. compiler' = [compiler EXCEPT ![j] = seen] /\ worker' = worker
      BY <1>2, <2>1
    <3> QED BY <2>0, <3>1
  <2>2. CASE next = "RAW_CAPTURED"
    <3>1. worker' = [worker EXCEPT ![j] = seen] /\ compiler' = compiler
      BY <1>2, <2>2
    <3> QED BY <2>0, <2>2, <3>1
  <2> QED BY <2>1, <2>2
<1>5. Recorded(j)
  BY DEF IInv
<1>6. Recorded(j)'
  BY <1>1, <1>2, <1>3, <1>4, <1>5 DEF Recorded
<1>7. /\ turn.at = "idle"
      /\ launched' \in [Jobs -> [compiler : Nat, worker : Nat]]
      /\ \A i \in Jobs \ {j} : launched'[i] = launched[i]
      /\ status[j] # "none" /\ status[j] # "TERMINAL"
  BY <1>1 DEF Idle, IInv, Typed
<1> QED BY <1>1, <1>2, <1>3, <1>4, <1>6, <1>7, AdvanceStep

LEMMA MaterializeStep ==
    ASSUME IInv, NEW j \in Jobs, MaterializePage(j), Move(j, "PAGE_MATERIALIZED"),
           UNCHANGED <<rows, compiler, worker, disposition, delivery, hostVars>>
    PROVE  IInv'
<1> USE DEF custodyVars, CustodyKept
<1>1. /\ CustodyKept /\ launched' = launched
      /\ turn = At("run", j) /\ turn' = turn
      /\ UNCHANGED <<rows, disposition, delivery, active, scheduled, closing>>
      /\ compiler' = compiler /\ worker' = worker
      /\ status[j] = "COMPILER_CAPTURED"
  BY DEF MaterializePage, Running, hostVars
<1>2. turn.at = "run" /\ active = j /\ daemon = "ready"
  <2>1. turn.at = "run" /\ turn.job = j /\ turn # Idle
    BY <1>1 DEF At, Idle
  <2> QED BY <2>1 DEF IInv, TurnInv
<1>3. status'[j] = "PAGE_MATERIALIZED" /\ "PAGE_MATERIALIZED" \in Statuses
  BY DEF Move, IInv, Typed, Statuses
<1>4. Recorded(j)
  BY DEF IInv
<1>5. Recorded(j)'
  BY <1>1, <1>3, <1>4 DEF Recorded
<1>6. /\ compiler' \in [Jobs -> Observations \cup {"none"}]
      /\ worker' \in [Jobs -> Observations \cup {"none"}]
      /\ launched' \in [Jobs -> [compiler : Nat, worker : Nat]]
  BY <1>1 DEF IInv, Typed
<1>7. /\ \A i \in Jobs \ {j} : /\ compiler'[i] = compiler[i] /\ worker'[i] = worker[i]
                               /\ launched'[i] = launched[i]
      /\ turn.at \notin {"ensure", "open"}
      /\ status[j] # "none" /\ status[j] # "TERMINAL"
  BY <1>1, <1>2
<1> QED BY <1>1, <1>2, <1>3, <1>5, <1>6, <1>7, AdvanceStep

-----------------------------------------------------------------------------
(* Steps of the turn alone *)

LEMMA DeliverySteps ==
    ASSUME IInv, NEW j \in Jobs, Offer(j) \/ Acknowledge(j)
    PROVE  IInv'
<1> USE DEF custodyVars, hostVars
<1>1. /\ UNCHANGED <<daemon, binding, state, events, boundary, handed, openJobs>>
      /\ UNCHANGED <<rows, status, compiler, worker, disposition, launched>>
      /\ UNCHANGED <<turn, active, scheduled, closing>>
      /\ delivery' \in [Jobs -> {"none", "OFFERED", "ACKNOWLEDGED"}]
  BY DEF Offer, Acknowledge, IInv, Typed
<1>2. Typed'
  BY <1>1 DEF IInv, Typed
<1>3. TurnInv' /\ WorkInv'
  BY <1>1 DEF IInv, TurnInv, WorkInv, Unfinished
<1>4. RoomInv'
  BY <1>1 DEF IInv, RoomInv, Rowless, Admitted
<1> QED BY <1>1, <1>2, <1>3, <1>4, TurnStepFrame

LEMMA QuietSteps ==
    ASSUME IInv, \/ Revoke \/ Close
                 \/ \E j \in Jobs : LeaseLate(j)
                 \/ UNCHANGED vars
    PROVE  IInv'
<1> USE DEF custodyVars, durableVars, hostVars
<1>1. /\ UNCHANGED <<daemon, binding, state, events, boundary, handed, openJobs>>
      /\ UNCHANGED <<rows, status, compiler, worker, disposition, launched>>
      /\ UNCHANGED <<delivery, turn, active, scheduled>>
      /\ closing' = closing \/ closing' = TRUE
  BY DEF Revoke, Close, LeaseLate, LeaseElapses, vars
<1>2. Typed'
  BY <1>1 DEF IInv, Typed
<1>3. TurnInv' /\ WorkInv'
  BY <1>1 DEF IInv, TurnInv, WorkInv, Unfinished
<1>4. RoomInv'
  BY <1>1 DEF IInv, RoomInv, Rowless, Admitted
<1> QED BY <1>1, <1>2, <1>3, <1>4, TurnStepFrame

Turns == [at : {"idle", "open", "ensure", "cancel", "run", "acquired",
                "handed", "refused", "released"}, job : Jobs \cup {NoJob}]

LEMMA AtTyped ==
    /\ Idle \in Turns /\ Idle.at = "idle"
    /\ \A what \in {"open", "ensure", "cancel", "run", "acquired", "handed",
                    "refused", "released"}, j \in Jobs \cup {NoJob} :
         /\ At(what, j) \in Turns /\ At(what, j).at = what /\ At(what, j).job = j
         /\ At(what, j) # Idle
BY DEF Turns, Idle, At

LEMMA DrainStep ==
    ASSUME IInv, Drain
    PROVE  IInv'
<1> USE DEF custodyVars, durableVars
<1>1. /\ UNCHANGED <<daemon, binding, state, events, boundary, handed, openJobs>>
      /\ UNCHANGED <<rows, status, compiler, worker, disposition, launched>>
      /\ UNCHANGED <<delivery, closing>>
      /\ turn = Idle /\ daemon = "ready" /\ active = NoJob
  BY DEF Drain, Free, Serving
<1>2. CASE Unfinished = {} /\ UNCHANGED <<turn, active>>
  <2>1. Typed'
    BY <1>1, <1>2 DEF IInv, Typed
  <2>2. TurnInv' /\ WorkInv'
    BY <1>1, <1>2 DEF IInv, TurnInv, WorkInv, Unfinished
  <2>3. RoomInv'
    BY <1>1, <1>2 DEF IInv, RoomInv, Rowless, Admitted
  <2> QED BY <1>1, <2>1, <2>2, <2>3, TurnStepFrame
<1>3. CASE \E n \in Unfinished : turn' = At("run", rows[n]) /\ active' = rows[n]
  <2>1. PICK n \in Unfinished : turn' = At("run", rows[n]) /\ active' = rows[n]
    BY <1>3
  <2>2. rows[n] \in Jobs
    BY DEF Unfinished, IInv, Typed
  <2>3. PICK j \in Jobs : turn' = At("run", j) /\ active' = j
    BY <2>1, <2>2
  <2>4. turn' \in Turns /\ turn'.at = "run" /\ turn'.job = j /\ active' # NoJob
    BY <2>3, AtTyped, CustodyAssumption
  <2>5. Typed'
    BY <1>1, <2>3, <2>4 DEF IInv, Typed, Turns
  <2>6. TurnInv' /\ WorkInv'
    BY <1>1, <2>3, <2>4 DEF TurnInv, WorkInv
  <2>7. Rowless = {}
    BY <1>1, AtTyped DEF IInv, RoomInv
  <2>8. RoomInv'
    BY <1>1, <2>7 DEF RoomInv, Rowless, Admitted
  <2> QED BY <1>1, <2>5, <2>6, <2>8, TurnStepFrame
<1> QED BY <1>2, <1>3 DEF Drain

LEMMA AcquireStep ==
    ASSUME IInv, NEW j \in Jobs, AcquireForHandoff(j)
    PROVE  IInv'
<1> USE DEF custodyVars, durableVars
<1>1. /\ UNCHANGED <<daemon, binding, state, events, boundary, handed, openJobs>>
      /\ UNCHANGED <<rows, status, compiler, worker, disposition, launched>>
      /\ UNCHANGED <<delivery, active, scheduled, closing>>
      /\ turn = At("run", j) /\ turn' = At("acquired", j)
      /\ status[j] = "QUEUED" /\ boundary[j] # "HANDOFF_COMMITTED"
      /\ state[j] # "CANCELLED_BEFORE_DISPATCH" /\ state[j] # "UNSEEN"
  BY DEF AcquireForHandoff, Running, Acquire, Admitted
<1>2. state[j] = "ADMITTED"
  BY <1>1 DEF IInv, Typed, Decided, JobStates
<1>3. /\ turn' \in Turns /\ turn'.at = "acquired" /\ turn'.job = j
      /\ turn.at = "run" /\ turn.job = j /\ turn # Idle
  BY <1>1, AtTyped
<1>4. active = j /\ daemon = "ready"
  BY <1>3 DEF IInv, TurnInv
<1>5. Typed'
  BY <1>1, <1>3 DEF IInv, Typed, Turns
<1>6. TurnInv' /\ WorkInv'
  BY <1>1, <1>2, <1>3, <1>4 DEF TurnInv, WorkInv
<1>7. Rowless = {}
  BY <1>3, <1>4 DEF IInv, RoomInv
<1>8. RoomInv'
  BY <1>1, <1>7 DEF RoomInv, Rowless, Admitted
<1> QED BY <1>1, <1>5, <1>6, <1>8, TurnStepFrame

LEMMA ReleaseStep ==
    ASSUME IInv, NEW j \in Jobs, ReleaseAfterHandoff(j)
    PROVE  IInv'
<1> USE DEF custodyVars, durableVars
<1>1. /\ UNCHANGED <<daemon, binding, state, events, boundary, handed, openJobs>>
      /\ launched' = launched
  BY DEF ReleaseAfterHandoff, Release
<1>2. CASE turn = At("refused", j) /\ RunFinishes(j, "remanded")
  BY <1>1, <1>2, VerdictSteps DEF CustodyKept
<1>3. CASE /\ turn = At("handed", j) /\ turn' = At("released", j)
           /\ UNCHANGED <<durableVars, active, scheduled, closing>>
  <2>1. /\ turn' \in Turns /\ turn'.at = "released" /\ turn'.job = j
        /\ turn.at = "handed" /\ turn.job = j /\ turn # Idle
    BY <1>3, AtTyped
  <2>2. /\ active = j /\ daemon = "ready" /\ status[j] = "QUEUED"
        /\ state[j] = "HANDOFF_COMMITTED"
    BY <2>1 DEF IInv, TurnInv
  <2>3. Typed'
    BY <1>1, <1>3, <2>1 DEF IInv, Typed, Turns
  <2>4. TurnInv' /\ WorkInv'
    BY <1>1, <1>3, <2>1, <2>2 DEF TurnInv, WorkInv
  <2>5. Rowless = {}
    BY <2>1, <2>2 DEF IInv, RoomInv
  <2>6. RoomInv'
    BY <1>1, <1>3, <2>5 DEF RoomInv, Rowless, Admitted
  <2> QED BY <1>1, <1>3, <2>3, <2>4, <2>6, TurnStepFrame
<1> QED BY <1>2, <1>3 DEF ReleaseAfterHandoff

LEMMA OpenDoneStep ==
    ASSUME IInv, OpenDone
    PROVE  IInv'
<1> USE DEF custodyVars, durableVars
<1>1. /\ UNCHANGED <<daemon, binding, state, events, boundary, handed, openJobs>>
      /\ UNCHANGED <<rows, status, compiler, worker, disposition, launched>>
      /\ UNCHANGED <<delivery, active, closing>>
      /\ turn.at = "open" /\ turn' = Idle /\ scheduled' = TRUE /\ Rowless = {}
  BY DEF OpenDone
<1>2. Typed'
  BY <1>1, AtTyped DEF IInv, Typed, Turns
<1>3. daemon = "ready"
  BY <1>1, AtTyped DEF IInv, TurnInv
<1>4. TurnInv' /\ WorkInv'
  BY <1>1, <1>3, AtTyped DEF TurnInv, WorkInv
<1>5. RoomInv'
  BY <1>1 DEF RoomInv, Rowless, Admitted
<1> QED BY <1>1, <1>2, <1>4, <1>5, TurnStepFrame

-----------------------------------------------------------------------------
(* Custody's decisions and their rows *)

LEMMA HasAppend ==
    ASSUME NEW j \in Jobs, NEW type, NEW what \in EventTypes,
           events[j] \in Seq(EventTypes), events'[j] = Append(events[j], what)
    PROVE  Has(j, type)' => Has(j, type) \/ type = what
<1> SUFFICES ASSUME NEW n \in DOMAIN events'[j], events'[j][n] = type, type # what
             PROVE  \E m \in DOMAIN events[j] : events[j][m] = type
  BY DEF Has
<1>1. n \in 1 .. Len(events[j]) + 1
  OBVIOUS
<1>2. n # Len(events[j]) + 1
  BY <1>1
<1> QED BY <1>1, <1>2

LEMMA CountedFinite == IsFiniteSet(Counted)
BY CustodyAssumption, FS_Subset DEF Counted

\* An admission owes its row from here on.
LEMMA SubmitStep ==
    ASSUME IInv, NEW k \in Keys, NEW j \in Jobs, SubmitJob(k, j)
    PROVE  IInv'
<1> USE DEF durableVars
<1>1. /\ daemon = "ready" /\ turn = Idle /\ Len(rows) < MaxRows
      /\ binding[k] = NoJob /\ state[j] = "UNSEEN"
      /\ binding' = [binding EXCEPT ![k] = j]
      /\ state' = [state EXCEPT ![j] = "ADMITTED"]
      /\ events' = [events EXCEPT ![j] = Append(@, "job_admitted")]
      /\ boundary' = [boundary EXCEPT ![j] = "NOT_DISPATCHED"]
      /\ openJobs' = openJobs + 1
      /\ daemon' = daemon /\ handed' = handed
      /\ turn' = At("ensure", j)
      /\ UNCHANGED <<rows, status, compiler, worker, disposition, delivery,
                     launched, active, scheduled, closing>>
  BY DEF SubmitJob, Free, Serving, Submit
<1>2. Decided(j) /\ Recorded(j) /\ status[j] = "none"
  BY <1>1 DEF IInv, Recorded
<1>3. /\ turn' \in Turns /\ turn'.at = "ensure" /\ turn'.job = j /\ turn.at = "idle"
  BY <1>1, AtTyped
<1>4. /\ state'[j] = "ADMITTED" /\ boundary'[j] = "NOT_DISPATCHED"
      /\ \A i \in Jobs \ {j} : /\ state'[i] = state[i] /\ boundary'[i] = boundary[i]
                               /\ events'[i] = events[i]
      /\ state' \in [Jobs -> JobStates] /\ boundary' \in [Jobs -> Boundaries]
  BY <1>1 DEF IInv, Typed, JobStates, Boundaries
<1>5. /\ events[j] \in Seq(EventTypes) /\ "job_admitted" \in EventTypes
      /\ events'[j] = Append(events[j], "job_admitted")
  BY <1>1 DEF IInv, Typed, EventTypes
<1>6. events' \in [Jobs -> Seq(EventTypes)]
  <2>1. Append(events[j], "job_admitted") \in Seq(EventTypes)
    BY <1>5
  <2>2. events \in [Jobs -> Seq(EventTypes)]
    BY DEF IInv, Typed
  <2> QED BY <1>1, <2>1, <2>2
<1>7. Typed'
  BY <1>1, <1>3, <1>4, <1>6 DEF IInv, Typed, Turns
<1>8. Decided(j)'
  <2>1. ~Has(j, "job_cancelled_before_dispatch")'
    BY <1>1, <1>2, <1>5, HasAppend DEF Decided
  <2> QED BY <1>1, <1>2, <1>4, <2>1 DEF Decided
<1>9. Recorded(j)'
  BY <1>1, <1>2, <1>4 DEF Recorded
<1>10. \A i \in Jobs : Decided(i)' /\ Recorded(i)'
  <2>1. \A i \in Jobs \ {j} : Untouched(i)
    BY <1>1, <1>4 DEF Untouched
  <2> QED BY <1>8, <1>9, <2>1, JobFrame
<1>11. TurnInv'
  BY <1>1, <1>2, <1>3, <1>4 DEF TurnInv
<1>12. WorkInv'
  BY <1>1, <1>3 DEF IInv, WorkInv, Unfinished
<1>13. RoomInv'
  <2>1. Rowless = {}
    BY <1>1, <1>3 DEF IInv, RoomInv
  <2>2. Rowless' \subseteq {j}
    BY <1>1, <1>4, <2>1 DEF Rowless, Admitted
  <2> QED BY <1>1, <1>3, <2>2 DEF RoomInv
<1>14. BooksInv'
  <2>1. Admitted' = Admitted \cup {j}
    BY <1>1, <1>4 DEF Admitted
  <2>2. {binding'[h] : h \in Keys} \ {NoJob} = ({binding[h] : h \in Keys} \ {NoJob}) \cup {j}
    <3>1. /\ binding'[k] = j /\ \A h \in Keys \ {k} : binding'[h] = binding[h]
      BY <1>1 DEF IInv, Typed
    <3>2. j # NoJob
      BY CustodyAssumption
    <3> QED BY <1>1, <3>1, <3>2
  <2>3. Counted' = Counted \cup {j} /\ j \notin Counted
    BY <1>1, <1>4 DEF Counted
  <2>4. Cardinality(Counted') = Cardinality(Counted) + 1
    BY <2>3, CountedFinite, FS_AddElement
  <2> QED BY <1>1, <2>1, <2>2, <2>4 DEF IInv, BooksInv
<1>15. daemon' # "blocked"
  BY <1>1
<1> QED BY <1>7, <1>10, <1>11, <1>12, <1>13, <1>14, <1>15 DEF IInv

LEMMA CancelStep ==
    ASSUME IInv, NEW j \in Jobs, CancelJob(j)
    PROVE  IInv'
<1> USE DEF durableVars
<1>1. /\ daemon = "ready" /\ turn = Idle
      /\ boundary[j] = "NOT_DISPATCHED"
      /\ state[j] \notin {"CANCELLED_BEFORE_DISPATCH", "HANDOFF_COMMITTED"}
      /\ state' = [state EXCEPT ![j] = "CANCELLED_BEFORE_DISPATCH"]
      /\ events' = [events EXCEPT ![j] = Append(@, "job_cancelled_before_dispatch")]
      /\ openJobs - 1 >= 0
      /\ openJobs' = openJobs - 1
      /\ daemon' = daemon /\ handed' = handed /\ binding' = binding
      /\ boundary' = boundary
      /\ turn' = IF status[j] = "QUEUED" THEN At("cancel", j) ELSE Idle
      /\ UNCHANGED <<rows, status, compiler, worker, disposition, delivery,
                     launched, active, scheduled, closing>>
  BY DEF CancelJob, Free, Serving, Cancel
<1>2. Decided(j) /\ Recorded(j)
  BY DEF IInv
<1>3. state[j] = "ADMITTED"
  BY <1>1, <1>2 DEF Decided, IInv, Typed, JobStates
<1>4. /\ turn' \in Turns /\ turn.at = "idle"
      /\ \/ turn' = Idle /\ turn'.at = "idle"
         \/ turn'.at = "cancel" /\ turn'.job = j /\ status[j] = "QUEUED"
  BY <1>1, AtTyped
<1>5. /\ state'[j] = "CANCELLED_BEFORE_DISPATCH"
      /\ \A i \in Jobs \ {j} : state'[i] = state[i] /\ events'[i] = events[i]
      /\ state' \in [Jobs -> JobStates]
  BY <1>1 DEF IInv, Typed, JobStates
<1>6. events' \in [Jobs -> Seq(EventTypes)]
  <2>1. Append(events[j], "job_cancelled_before_dispatch") \in Seq(EventTypes)
    BY DEF IInv, Typed, EventTypes
  <2>2. events \in [Jobs -> Seq(EventTypes)]
    BY DEF IInv, Typed
  <2> QED BY <1>1, <2>1, <2>2
<1>7. Typed'
  <2>1. openJobs' \in Nat
    BY <1>1 DEF IInv, Typed
  <2> QED BY <1>1, <1>4, <1>5, <1>6, <2>1 DEF IInv, Typed, Turns
<1>8. Decided(j)'
  BY <1>1, <1>2, <1>3, <1>5 DEF Decided
<1>9. Recorded(j)'
  BY <1>1, <1>2, <1>3, <1>5 DEF Recorded
<1>10. \A i \in Jobs : Decided(i)' /\ Recorded(i)'
  <2>1. \A i \in Jobs \ {j} : Untouched(i)
    BY <1>1, <1>5 DEF Untouched
  <2> QED BY <1>8, <1>9, <2>1, JobFrame
<1>11. TurnInv'
  BY <1>1, <1>4 DEF TurnInv
<1>12. WorkInv'
  BY <1>1, <1>4 DEF IInv, WorkInv, Unfinished
<1>13. RoomInv'
  <2>1. Rowless = {}
    BY <1>1, <1>4 DEF IInv, RoomInv
  <2>2. Rowless' = {}
    BY <1>1, <1>3, <1>5, <2>1 DEF Rowless, Admitted
  <2> QED BY <2>2 DEF RoomInv
<1>14. BooksInv'
  <2>1. Admitted' = Admitted
    BY <1>3, <1>5 DEF Admitted
  <2>2. Counted' = Counted \ {j} /\ j \in Counted
    BY <1>3, <1>5 DEF Counted
  <2>3. Cardinality(Counted') = Cardinality(Counted) - 1
    BY <2>2, CountedFinite, FS_RemoveElement
  <2> QED BY <1>1, <2>1, <2>3 DEF IInv, BooksInv
<1>15. daemon' # "blocked"
  BY <1>1
<1> QED BY <1>7, <1>10, <1>11, <1>12, <1>13, <1>14, <1>15 DEF IInv

LEMMA CommitHandoffStep ==
    ASSUME IInv, NEW j \in Jobs, CommitHandoff(j)
    PROVE  IInv'
<1> USE DEF durableVars
<1>1. /\ turn = At("acquired", j)
      /\ UNCHANGED <<rows, status, compiler, worker, disposition, delivery,
                     launched, active, scheduled, closing>>
  BY DEF CommitHandoff
<1>2. turn.at = "acquired" /\ turn.job = j /\ turn # Idle
  BY <1>1, AtTyped
<1>3. /\ active = j /\ daemon = "ready" /\ status[j] = "QUEUED" /\ state[j] = "ADMITTED"
  BY <1>2 DEF IInv, TurnInv
<1>4. Rowless = {}
  BY <1>2, <1>3 DEF IInv, RoomInv
<1>5. CASE turn' = At("refused", j) /\ UNCHANGED custodyVars
  <2>1. /\ UNCHANGED <<daemon, binding, state, events, boundary, handed, openJobs>>
        /\ turn' \in Turns /\ turn'.at = "refused" /\ turn'.job = j
    BY <1>5, AtTyped DEF custodyVars
  <2>2. Typed'
    BY <1>1, <2>1 DEF IInv, Typed, Turns
  <2>3. TurnInv' /\ WorkInv'
    BY <1>1, <1>3, <2>1 DEF TurnInv, WorkInv
  <2>4. RoomInv'
    BY <1>1, <1>4, <2>1 DEF RoomInv, Rowless, Admitted
  <2> QED BY <1>1, <2>1, <2>2, <2>3, <2>4, TurnStepFrame
<1>6. ASSUME NEW i \in ActiveRows(j), HandOff(j, i, leases[j][i].token),
             turn' = At("handed", j)
      PROVE  IInv'
  <2>1. /\ state' = [state EXCEPT ![j] = "HANDOFF_COMMITTED"]
        /\ events' = [events EXCEPT ![j] = Append(@, "later_tranche_handoff_committed")]
        /\ boundary' = [boundary EXCEPT ![j] = "HANDOFF_COMMITTED"]
        /\ handed' = [handed EXCEPT ![j] =
                        [generation |-> generation, token |-> leases[j][i].token]]
        /\ daemon' = daemon /\ binding' = binding /\ openJobs' = openJobs
    BY <1>6 DEF HandOff
  <2>2. turn' \in Turns /\ turn'.at = "handed" /\ turn'.job = j
    BY <1>6, AtTyped
  <2>3. /\ state'[j] = "HANDOFF_COMMITTED" /\ boundary'[j] = "HANDOFF_COMMITTED"
        /\ \A h \in Jobs \ {j} : /\ state'[h] = state[h] /\ boundary'[h] = boundary[h]
                                 /\ events'[h] = events[h] /\ handed'[h] = handed[h]
        /\ state' \in [Jobs -> JobStates] /\ boundary' \in [Jobs -> Boundaries]
        /\ handed' = [h \in Jobs |-> handed'[h]]
    BY <2>1 DEF IInv, Typed, JobStates, Boundaries
  <2>4. /\ events[j] \in Seq(EventTypes)
        /\ "later_tranche_handoff_committed" \in EventTypes
        /\ events'[j] = Append(events[j], "later_tranche_handoff_committed")
    BY <2>1 DEF IInv, Typed, EventTypes
  <2>5. events' \in [Jobs -> Seq(EventTypes)]
    <3>1. Append(events[j], "later_tranche_handoff_committed") \in Seq(EventTypes)
      BY <2>4
    <3>2. events \in [Jobs -> Seq(EventTypes)]
      BY DEF IInv, Typed
    <3> QED BY <2>1, <3>1, <3>2
  <2>6. Typed'
    BY <1>1, <2>1, <2>2, <2>3, <2>5 DEF IInv, Typed, Turns
  <2>7. Decided(j) /\ Recorded(j)
    BY DEF IInv
  <2>8. Decided(j)'
    <3>1. ~Has(j, "job_cancelled_before_dispatch")
      BY <1>3, <2>7 DEF Decided
    <3>2. ~Has(j, "job_cancelled_before_dispatch")'
      BY <2>4, <3>1, HasAppend
    <3> QED BY <2>3, <3>2 DEF Decided
  <2>9. Recorded(j)'
    BY <1>1, <2>3, <2>7 DEF Recorded
  <2>10. \A h \in Jobs : Decided(h)' /\ Recorded(h)'
    <3>1. \A h \in Jobs \ {j} : Untouched(h)
      BY <1>1, <2>3 DEF Untouched
    <3> QED BY <2>8, <2>9, <3>1, JobFrame
  <2>11. TurnInv'
    BY <1>1, <1>3, <2>1, <2>2, <2>3 DEF TurnInv
  <2>12. WorkInv'
    BY <2>2 DEF WorkInv
  <2>13. Admitted' = Admitted
    BY <1>3, <2>3 DEF Admitted
  <2>14. RoomInv'
    BY <1>1, <1>4, <2>13 DEF RoomInv, Rowless
  <2>15. Counted' = Counted
    BY <1>3, <2>3 DEF Counted
  <2>16. BooksInv'
    BY <2>1, <2>13, <2>15 DEF IInv, BooksInv
  <2>17. daemon' # "blocked"
    BY <1>3, <2>1
  <2> QED BY <2>6, <2>10, <2>11, <2>12, <2>14, <2>16, <2>17 DEF IInv
<1> QED BY <1>5, <1>6 DEF CommitHandoff

\* The row is made, by the admitting turn or by the next start.
LEMMA AddRowStep ==
    ASSUME IInv, NEW j \in Jobs, AddRow(j), CustodyKept, launched' = launched,
           j \in Rowless,
           \/ /\ turn.at = "ensure"
              /\ turn' = Idle
              /\ scheduled' = Scheduled
           \/ /\ turn.at = "open"
              /\ turn' = turn,
           active' = active, closing' = closing
    PROVE  IInv'
<1>1. /\ rows' = Append(rows, j)
      /\ status' = [status EXCEPT ![j] = "QUEUED"]
      /\ UNCHANGED <<compiler, worker, disposition, delivery>>
  BY DEF AddRow
<1>2. /\ status[j] = "none" /\ state[j] # "UNSEEN" /\ Decided(j) /\ Recorded(j)
  BY DEF Rowless, Admitted, IInv
<1>3. /\ status'[j] = "QUEUED"
      /\ \A i \in Jobs \ {j} : status'[i] = status[i]
      /\ status' \in [Jobs -> Statuses \cup {"none"}]
  BY <1>1 DEF IInv, Typed, Statuses
<1>5. rows' \in Seq(Jobs)
  BY <1>1 DEF IInv, Typed
<1>6. turn' \in Turns
  BY AtTyped DEF IInv, Typed, Turns
<1>7. Typed'
  BY <1>1, <1>3, <1>5, <1>6 DEF IInv, Typed, Turns, CustodyKept
<1>8. Decided(j)'
  BY <1>2 DEF Decided, Has, CustodyKept
<1>9. Recorded(j)'
  BY <1>1, <1>2, <1>3 DEF Recorded, CustodyKept
<1>10. \A i \in Jobs : Decided(i)' /\ Recorded(i)'
  <2>1. \A i \in Jobs \ {j} : Untouched(i)
    BY <1>1, <1>3 DEF Untouched, CustodyKept
  <2> QED BY <1>8, <1>9, <2>1, JobFrame
<1>11. daemon = "ready"
  BY AtTyped DEF IInv, TurnInv
<1>12. TurnInv'
  BY <1>11, AtTyped DEF TurnInv, CustodyKept
<1>13. WorkInv'
  BY AtTyped DEF WorkInv, Scheduled
<1>14. RoomInv'
  <2>1. Rowless' = {}
    BY <1>3 DEF IInv, RoomInv, Rowless, Admitted, CustodyKept
  <2> QED BY <2>1 DEF RoomInv
<1>15. BooksInv'
  BY DEF IInv, BooksInv, Admitted, Counted, CustodyKept
<1>16. daemon' # "blocked"
  BY <1>11 DEF CustodyKept
<1> QED BY <1>7, <1>10, <1>12, <1>13, <1>14, <1>15, <1>16 DEF IInv

LEMMA RowSteps ==
    ASSUME IInv, NEW j \in Jobs, QueueSubmitted(j) \/ RebuildRow(j)
    PROVE  IInv'
<1>1. CASE QueueSubmitted(j)
  <2>1. turn.at = "ensure" /\ turn.job = j
    BY <1>1, AtTyped DEF QueueSubmitted
  <2>2. j \in Rowless
    BY <2>1 DEF IInv, TurnInv, Rowless, Admitted
  <2>3. /\ AddRow(j) /\ CustodyKept /\ launched' = launched
        /\ turn' = Idle /\ scheduled' = Scheduled
        /\ active' = active /\ closing' = closing
    BY <1>1 DEF QueueSubmitted, CustodyKept, custodyVars
  <2> QED BY <2>1, <2>2, <2>3, AddRowStep
<1>2. CASE RebuildRow(j)
  <2>1. j \in Rowless /\ turn.at = "open"
    BY <1>2 DEF RebuildRow
  <2>2. Len(rows) < MaxRows
    BY <2>1 DEF IInv, RoomInv
  <2>3. /\ AddRow(j) /\ CustodyKept /\ launched' = launched /\ turn' = turn
        /\ active' = active /\ closing' = closing
    BY <1>2, <2>2 DEF RebuildRow, CustodyKept
  <2> QED BY <2>1, <2>3, AddRowStep
<1> QED BY <1>1, <1>2

-----------------------------------------------------------------------------
(* Starts and ends of the process *)

LEMMA DaemonStep ==
    ASSUME IInv,
           UNCHANGED <<binding, state, events, boundary, handed, openJobs>>,
           UNCHANGED <<rows, status, compiler, worker, disposition, delivery, launched>>,
           daemon' \in {"down", "opened", "ready"},
           turn' \in Turns,
           active' \in Jobs \cup {NoJob},
           daemon' = "ready" => turn'.at = "open",
           daemon' # "ready" => turn' = Idle /\ active' = NoJob
    PROVE  IInv'
<1>1. \A i \in Jobs : Untouched(i)
  BY DEF Untouched
<1>2. \A i \in Jobs : Decided(i)' /\ Recorded(i)'
  BY <1>1, JobFrame
<1>3. Typed'
  BY DEF IInv, Typed, Turns
<1>4. TurnInv' /\ WorkInv'
  BY AtTyped DEF TurnInv, WorkInv
<1>5. RoomInv'
  BY DEF IInv, RoomInv, Rowless, Admitted
<1>6. BooksInv'
  BY DEF IInv, BooksInv, Admitted, Counted
<1> QED BY <1>2, <1>3, <1>4, <1>5, <1>6 DEF IInv

LEMMA Reconciles == IInv => JobsReconcile /\ JobCapacityReconciles
BY DEF IInv, BooksInv, Decided, JobsReconcile, JobCapacityReconciles, Admitted

LEMMA ProcessSteps ==
    ASSUME IInv, OpenStore \/ RecoverHost \/ CloseDone \/ Crash
    PROVE  IInv'
<1> USE DEF durableVars, hostVars
<1>1. CASE OpenStore
  <2>1. daemon = "down" /\ daemon' = "opened" /\ turn' = turn /\ active' = active
    BY <1>1 DEF OpenStore, Open
  <2>2. turn = Idle /\ active = NoJob
    BY <2>1 DEF IInv, TurnInv
  <2>3. /\ UNCHANGED <<binding, state, events, boundary, handed, openJobs>>
        /\ UNCHANGED <<rows, status, compiler, worker, disposition, delivery, launched>>
    BY <1>1 DEF OpenStore, Open
  <2> QED BY <2>1, <2>2, <2>3, AtTyped, DaemonStep
<1>2. CASE RecoverHost
  <2>1. RecoverCustody /\ turn' = At("open", NoJob)
    BY <1>2, Reconciles DEF RecoverHost
  <2>2. daemon = "opened" /\ daemon' = "ready" /\ active' = active
    BY <1>2, <2>1 DEF RecoverHost, RecoverCustody
  <2>3. active = NoJob
    BY <2>2 DEF IInv, TurnInv
  <2>4. /\ UNCHANGED <<binding, state, events, boundary, handed, openJobs>>
        /\ UNCHANGED <<rows, status, compiler, worker, disposition, delivery, launched>>
    BY <1>2, <2>1 DEF RecoverHost, RecoverCustody
  <2> QED BY <2>1, <2>2, <2>3, <2>4, AtTyped, DaemonStep
<1>3. CASE CloseDone \/ Crash
  <2>1. /\ daemon' = "down" /\ turn' = Idle /\ active' = NoJob
        /\ UNCHANGED <<binding, state, events, boundary, handed, openJobs>>
        /\ UNCHANGED <<rows, status, compiler, worker, disposition, delivery, launched>>
    BY <1>3 DEF CloseDone, Crash, Stop, HostForgets
  <2> QED BY <2>1, AtTyped, DaemonStep
<1> QED BY <1>1, <1>2, <1>3

-----------------------------------------------------------------------------
(* The invariant *)

LEMMA ReturnSteps ==
    ASSUME IInv, NEW j \in Jobs, ChildReturns(j)
    PROVE  IInv'
<1>1. status \in [Jobs -> Statuses \cup {"none"}]
  BY DEF IInv, Typed
<1>2. CASE CompilerReturns(j)
  <2>1. CASE Move(j, "COMPILER_CAPTURED")
    <3>1. status'[j] = "COMPILER_CAPTURED"
      BY <1>1, <2>1 DEF Move
    <3> QED BY <1>2, <3>1, EvidenceSteps
  <2>2. CASE RunFinishes(j, "remanded")
    BY <1>2, <2>2, VerdictSteps
  <2> QED BY <1>2, <2>1, <2>2 DEF CompilerReturns
<1>3. CASE WorkerReturns(j)
  <2>1. CASE Move(j, "RAW_CAPTURED")
    <3>1. status'[j] = "RAW_CAPTURED"
      BY <1>1, <2>1 DEF Move
    <3> QED BY <1>3, <3>1, EvidenceSteps
  <2>2. CASE RunFinishes(j, "remanded")
    BY <1>3, <2>2, VerdictSteps
  <2> QED BY <1>3, <2>1, <2>2 DEF WorkerReturns
<1> QED BY <1>2, <1>3 DEF ChildReturns

LEMMA TurnSteps ==
    ASSUME IInv, NEW j \in Jobs, TurnStep(j)
    PROVE  IInv'
<1>1. CASE MaterializePage(j)
  <2>1. CASE RunFinishes(j, "remanded")
    BY <1>1, <2>1, VerdictSteps
  <2>2. CASE /\ Move(j, "PAGE_MATERIALIZED")
             /\ UNCHANGED <<rows, compiler, worker, disposition, delivery, hostVars>>
    BY <1>1, <2>2, MaterializeStep
  <2> QED BY <1>1, <2>1, <2>2 DEF MaterializePage
<1>2. CASE QueueSubmitted(j)
  BY <1>2, RowSteps
<1>3. CASE AcquireForHandoff(j)
  BY <1>3, AcquireStep
<1>4. CASE CommitHandoff(j)
  BY <1>4, CommitHandoffStep
<1>5. CASE ReleaseAfterHandoff(j)
  BY <1>5, ReleaseStep
<1>6. CASE StartCompiler(j)
  BY <1>6, StartCompilerStep
<1>7. CASE StartWorker(j)
  BY <1>7, StartWorkerStep
<1>8. CASE \/ FinishCancelled(j) \/ DispatchRefused(j)
           \/ StopBeforeWorker(j) \/ Adjudicate(j)
  BY <1>8, VerdictSteps
<1> QED BY <1>1, <1>2, <1>3, <1>4, <1>5, <1>6, <1>7, <1>8 DEF TurnStep

LEMMA ClientSteps ==
    ASSUME IInv, NEW j \in Jobs, ClientCall(j)
    PROVE  IInv'
<1>1. ASSUME NEW k \in Keys, SubmitJob(k, j)
      PROVE  IInv'
  BY <1>1, SubmitStep
<1>2. CASE CancelJob(j)
  BY <1>2, CancelStep
<1>3. CASE Offer(j) \/ Acknowledge(j)
  BY <1>3, DeliverySteps
<1> QED BY <1>1, <1>2, <1>3 DEF ClientCall

LEMMA StartSteps ==
    ASSUME IInv, StartStep
    PROVE  IInv'
<1>1. CASE OpenStore \/ RecoverHost
  BY <1>1, ProcessSteps
<1>2. ASSUME NEW j \in Jobs, RebuildRow(j)
      PROVE  IInv'
  BY <1>2, RowSteps
<1>3. ASSUME NEW j \in Jobs, FinishInterrupted(j)
      PROVE  IInv'
  BY <1>3, VerdictSteps
<1>4. CASE OpenDone
  BY <1>4, OpenDoneStep
<1> QED BY <1>1, <1>2, <1>3, <1>4 DEF StartStep

LEMMA InitInv == Init => IInv
<1> SUFFICES ASSUME Init PROVE IInv
  OBVIOUS
<1> USE DEF Init, CustodyInit
<1>1. Admitted = {} /\ Counted = {} /\ Rowless = {} /\ Unfinished = {}
  BY DEF Admitted, Counted, Rowless, Unfinished
<1>2. Typed
  BY AtTyped DEF Typed, Turns, JobStates, Boundaries
<1>3. \A j \in Jobs : Decided(j)
  BY DEF Decided, Has
<1>4. \A j \in Jobs : Recorded(j)
  BY DEF Recorded
<1>5. TurnInv /\ WorkInv /\ RoomInv
  BY <1>1, AtTyped DEF TurnInv, WorkInv, RoomInv
<1>6. BooksInv
  BY <1>1, FS_EmptySet DEF BooksInv
<1> QED BY <1>2, <1>3, <1>4, <1>5, <1>6 DEF IInv

LEMMA NextInv == IInv /\ [Next]_vars => IInv'
<1> SUFFICES ASSUME IInv, [Next]_vars PROVE IInv'
  OBVIOUS
<1>1. ASSUME NEW j \in Jobs, ClientCall(j) PROVE IInv'
  BY <1>1, ClientSteps
<1>2. ASSUME NEW j \in Jobs, TurnStep(j) PROVE IInv'
  BY <1>2, TurnSteps
<1>3. ASSUME NEW j \in Jobs, ChildReturns(j) PROVE IInv'
  BY <1>3, ReturnSteps
<1>4. ASSUME NEW j \in Jobs, LeaseLate(j) PROVE IInv'
  BY <1>4, QuietSteps
<1>5. CASE Drain
  BY <1>5, DrainStep
<1>6. CASE StartStep
  BY <1>6, StartSteps
<1>7. CASE Revoke \/ Close \/ UNCHANGED vars
  BY <1>7, QuietSteps
<1>8. CASE CloseDone \/ Crash
  BY <1>8, ProcessSteps
<1> QED BY <1>1, <1>2, <1>3, <1>4, <1>5, <1>6, <1>7, <1>8 DEF Next

LEMMA Invariance == Spec => []IInv
BY InitInv, NextInv, PTL DEF Spec

-----------------------------------------------------------------------------
(* Theorems *)

\* No silent rerun: whatever crashes between which commits, each child of a
\* job is launched at most once over all generations
\* (commissioning-coordinator.js open, handoff, runJob).
THEOREM NoSilentRerun == Spec => []LaunchedOnce
<1>1. IInv => LaunchedOnce
  BY DEF IInv, Recorded, LaunchedOnce
<1> QED BY <1>1, Invariance, PTL

\* A decided cancellation holds: no hand-off and no child, ever
\* (cancellation.js decide, commissioning-coordinator.js handoff).
THEOREM CancellationHolds == Spec => []CancelledNeverRuns
<1>1. IInv => CancelledNeverRuns
  <2> SUFFICES ASSUME IInv, NEW j \in Jobs, Has(j, "job_cancelled_before_dispatch")
               PROVE  /\ handed[j] = NoHandoff
                      /\ launched[j] = [compiler |-> 0, worker |-> 0]
    BY DEF CancelledNeverRuns
  <2>1. Decided(j) /\ Recorded(j)
    BY DEF IInv
  <2>2. state[j] = "CANCELLED_BEFORE_DISPATCH"
    BY <2>1 DEF Decided
  <2>3. handed[j] = NoHandoff
    BY <2>1, <2>2 DEF Decided
  <2>4. launched[j] \in [compiler : Nat, worker : Nat]
    BY DEF IInv, Typed
  <2>5. launched[j].compiler = 0 /\ launched[j].worker = 0
    BY <2>1, <2>2, <2>4 DEF Recorded
  <2> QED BY <2>3, <2>4, <2>5
<1> QED BY <1>1, Invariance, PTL

\* The commissioning host always comes back: recovery never meets records it
\* refuses and an owed row always fits (recovery.js recover,
\* commissioning-coordinator.js open, ensureJob).
THEOREM HostReopens == Spec => []AlwaysReopens
<1>1. IInv => AlwaysReopens
  BY DEF IInv, AlwaysReopens
<1> QED BY <1>1, Invariance, PTL

\* A job ends adjudicated exactly when its worker's output is durable
\* (commissioning-coordinator.js finish, runJob).
THEOREM DurableEvidenceDecides == Spec => []EvidenceDecides
<1>1. IInv => EvidenceDecides
  BY DEF IInv, Recorded, EvidenceDecides
<1> QED BY <1>1, Invariance, PTL

\* No job is forgotten: a free, open host with an unfinished row has a drain
\* scheduled or a job running (commissioning-coordinator.js schedule, drain).
THEOREM NoJobForgotten == Spec => []WorkIsScheduled
<1>1. IInv => WorkIsScheduled
  BY AtTyped DEF IInv, WorkInv, WorkIsScheduled, Free, Serving
<1> QED BY <1>1, Invariance, PTL

-----------------------------------------------------------------------------
(* Outcomes are sealed *)

Sealed(j) ==
    /\ Fixed(compiler[j], compiler'[j])
    /\ Fixed(worker[j], worker'[j])
    /\ Fixed(disposition[j], disposition'[j])
    /\ delivery[j] = "ACKNOWLEDGED" => delivery'[j] = "ACKNOWLEDGED"
    /\ delivery[j] # "none" => delivery'[j] # "none"
    /\ status[j] = "TERMINAL" => status'[j] = "TERMINAL"

\* Nothing of a row changes but the way a step of its own may change it.
LEMMA SealFrame ==
    ASSUME IInv, NEW j \in Jobs, NEW next \in Statuses,
           Move(j, next), status[j] # "TERMINAL", delivery' = delivery,
           \A i \in Jobs : /\ Fixed(compiler[i], compiler'[i])
                           /\ Fixed(worker[i], worker'[i])
                           /\ Fixed(disposition[i], disposition'[i])
    PROVE  \A i \in Jobs : Sealed(i)
BY DEF Move, IInv, Typed, Sealed

LEMMA SealKept ==
    ASSUME UNCHANGED <<compiler, worker, disposition, delivery, status>>
    PROVE  \A i \in Jobs : Sealed(i)
BY DEF Sealed, Fixed

LEMMA SealFinish ==
    ASSUME IInv, NEW j \in Jobs, NEW verdict \in Dispositions,
           Finish(j, verdict), status[j] # "TERMINAL"
    PROVE  \A i \in Jobs : Sealed(i)
<1>1. /\ Move(j, "TERMINAL") /\ delivery' = delivery
      /\ compiler' = compiler /\ worker' = worker
      /\ disposition' = [disposition EXCEPT ![j] = verdict]
  BY DEF Finish
<1>2. disposition[j] = "none"
  BY DEF IInv, Recorded
<1>3. \A i \in Jobs : /\ Fixed(compiler[i], compiler'[i])
                      /\ Fixed(worker[i], worker'[i])
                      /\ Fixed(disposition[i], disposition'[i])
  BY <1>1, <1>2 DEF Fixed, IInv, Typed
<1>4. "TERMINAL" \in Statuses
  BY DEF Statuses
<1> QED BY <1>1, <1>3, <1>4, SealFrame

\* A step forward of the row, with its rows and verdicts as they were.
LEMMA SealMove ==
    ASSUME IInv, NEW j \in Jobs, NEW next \in Statuses,
           Move(j, next), status[j] # "TERMINAL",
           UNCHANGED <<compiler, worker, disposition, delivery>>
    PROVE  \A i \in Jobs : Sealed(i)
<1>1. \A i \in Jobs : /\ Fixed(compiler[i], compiler'[i])
                      /\ Fixed(worker[i], worker'[i])
                      /\ Fixed(disposition[i], disposition'[i])
  BY DEF Fixed
<1> QED BY <1>1, SealFrame

LEMMA SealReturns ==
    ASSUME IInv, NEW j \in Jobs, ChildReturns(j)
    PROVE  \A i \in Jobs : Sealed(i)
<1>1. Recorded(j)
  BY DEF IInv
<1>2. "remanded" \in Dispositions
  BY DEF Dispositions
<1>3. status[j] \in {"COMPILER_STARTED", "WORKER_STARTED"}
  BY DEF ChildReturns, CompilerReturns, WorkerReturns, Awaiting
<1>4. CASE RunFinishes(j, "remanded")
  BY <1>2, <1>3, <1>4, SealFinish DEF RunFinishes
<1>5. ASSUME NEW seen \in Observations, status[j] = "COMPILER_STARTED",
             Move(j, "COMPILER_CAPTURED"), compiler' = [compiler EXCEPT ![j] = seen],
             UNCHANGED <<worker, disposition, delivery>>
      PROVE  \A i \in Jobs : Sealed(i)
  <2>1. compiler[j] = "none"
    BY <1>1, <1>5 DEF Recorded
  <2>2. \A i \in Jobs : /\ Fixed(compiler[i], compiler'[i])
                        /\ Fixed(worker[i], worker'[i])
                        /\ Fixed(disposition[i], disposition'[i])
    BY <1>5, <2>1 DEF Fixed, IInv, Typed
  <2> QED BY <1>3, <1>5, <2>2, SealFrame DEF Statuses
<1>6. ASSUME NEW seen \in Observations, status[j] = "WORKER_STARTED",
             Move(j, "RAW_CAPTURED"), worker' = [worker EXCEPT ![j] = seen],
             UNCHANGED <<compiler, disposition, delivery>>
      PROVE  \A i \in Jobs : Sealed(i)
  <2>1. worker[j] = "none"
    BY <1>1, <1>6 DEF Recorded
  <2>2. \A i \in Jobs : /\ Fixed(compiler[i], compiler'[i])
                        /\ Fixed(worker[i], worker'[i])
                        /\ Fixed(disposition[i], disposition'[i])
    BY <1>6, <2>1 DEF Fixed, IInv, Typed
  <2> QED BY <1>3, <1>6, <2>2, SealFrame DEF Statuses
<1>7. CASE CompilerReturns(j)
  BY <1>4, <1>5, <1>7 DEF CompilerReturns, Awaiting
<1>8. CASE WorkerReturns(j)
  BY <1>4, <1>6, <1>8 DEF WorkerReturns, Awaiting
<1> QED BY <1>7, <1>8 DEF ChildReturns

LEMMA SealTurn ==
    ASSUME IInv, NEW j \in Jobs, TurnStep(j)
    PROVE  \A i \in Jobs : Sealed(i)
<1>1. "remanded" \in Dispositions /\ "adjudicated" \in Dispositions
  BY DEF Dispositions
<1>2. CASE QueueSubmitted(j)
  <2>1. turn.at = "ensure" /\ turn.job = j
    BY <1>2, AtTyped DEF QueueSubmitted
  <2>2. status[j] = "none"
    BY <2>1 DEF IInv, TurnInv
  <2>3. /\ Move(j, "QUEUED") /\ "QUEUED" \in Statuses
        /\ UNCHANGED <<compiler, worker, disposition, delivery>>
    BY <1>2 DEF QueueSubmitted, AddRow, Move, Statuses
  <2> QED BY <2>2, <2>3, SealMove
<1>3. CASE FinishCancelled(j)
  <2>1. turn.at = "cancel" /\ turn.job = j
    BY <1>3, AtTyped DEF FinishCancelled
  <2>2. status[j] = "QUEUED"
    BY <2>1 DEF IInv, TurnInv
  <2> QED BY <1>1, <1>3, <2>2, SealFinish DEF FinishCancelled
<1>4. CASE DispatchRefused(j) \/ StopBeforeWorker(j)
  <2>1. status[j] # "TERMINAL" /\ Finish(j, "remanded")
    BY <1>4 DEF DispatchRefused, StopBeforeWorker, Running, RunFinishes
  <2> QED BY <1>1, <2>1, SealFinish
<1>5. CASE Adjudicate(j)
  <2>1. PICK verdict \in Dispositions : Finish(j, verdict) /\ status[j] = "RAW_CAPTURED"
    BY <1>1, <1>5 DEF Adjudicate, Running, RunFinishes
  <2> QED BY <2>1, SealFinish
<1>6. CASE AcquireForHandoff(j) \/ CommitHandoff(j)
  BY <1>6, SealKept DEF AcquireForHandoff, CommitHandoff, durableVars
<1>7. CASE ReleaseAfterHandoff(j)
  <2>1. CASE UNCHANGED durableVars
    BY <2>1, SealKept DEF durableVars
  <2>2. CASE turn = At("refused", j) /\ RunFinishes(j, "remanded")
    <3>1. turn.at = "refused" /\ turn.job = j
      BY <2>2, AtTyped
    <3>2. status[j] = "QUEUED"
      BY <3>1 DEF IInv, TurnInv
    <3> QED BY <1>1, <2>2, <3>2, SealFinish DEF RunFinishes
  <2> QED BY <1>7, <2>1, <2>2 DEF ReleaseAfterHandoff, durableVars
<1>8. CASE StartCompiler(j)
  <2>1. status[j] = "QUEUED"
    <3>1. CASE turn = At("released", j)
      BY <3>1, AtTyped DEF IInv, TurnInv
    <3>2. CASE Running(j, "QUEUED")
      BY <3>2 DEF Running
    <3> QED BY <1>8, <3>1, <3>2 DEF StartCompiler
  <2> QED BY <1>8, <2>1, SealMove DEF StartCompiler, Statuses
<1>9. CASE StartWorker(j)
  BY <1>9, SealMove DEF StartWorker, Running, Statuses
<1>10. CASE MaterializePage(j)
  <2>1. status[j] = "COMPILER_CAPTURED"
    BY <1>10 DEF MaterializePage, Running
  <2>2. CASE RunFinishes(j, "remanded")
    BY <1>1, <2>1, <2>2, SealFinish DEF RunFinishes
  <2>3. CASE /\ Move(j, "PAGE_MATERIALIZED")
             /\ UNCHANGED <<rows, compiler, worker, disposition, delivery, hostVars>>
    BY <2>1, <2>3, SealMove DEF Statuses
  <2> QED BY <1>10, <2>2, <2>3 DEF MaterializePage
<1> QED BY <1>2, <1>3, <1>4, <1>5, <1>6, <1>7, <1>8, <1>9, <1>10 DEF TurnStep

LEMMA SealDelivery ==
    ASSUME IInv, NEW j \in Jobs, Offer(j) \/ Acknowledge(j)
    PROVE  \A i \in Jobs : Sealed(i)
<1>1. UNCHANGED <<compiler, worker, disposition, status>>
  BY DEF Offer, Acknowledge
<1>2. \A i \in Jobs :
        /\ delivery[i] = "ACKNOWLEDGED" => delivery'[i] = "ACKNOWLEDGED"
        /\ delivery[i] # "none" => delivery'[i] # "none"
  BY DEF Offer, Acknowledge, IInv, Typed
<1> QED BY <1>1, <1>2 DEF Sealed, Fixed

LEMMA SealStarts ==
    ASSUME IInv, StartStep
    PROVE  \A i \in Jobs : Sealed(i)
<1>1. CASE OpenStore \/ RecoverHost \/ OpenDone
  BY <1>1, SealKept DEF OpenStore, RecoverHost, OpenDone, durableVars
<1>2. ASSUME NEW j \in Jobs, RebuildRow(j)
      PROVE  \A i \in Jobs : Sealed(i)
  <2>1. CASE UNCHANGED durableVars
    BY <2>1, SealKept DEF durableVars
  <2>2. CASE AddRow(j)
    <3>1. status[j] = "none" /\ Move(j, "QUEUED") /\ "QUEUED" \in Statuses
      BY <1>2, <2>2 DEF RebuildRow, Rowless, AddRow, Move, Statuses
    <3> QED BY <2>2, <3>1, SealMove DEF AddRow
  <2> QED BY <1>2, <2>1, <2>2 DEF RebuildRow
<1>3. ASSUME NEW j \in Jobs, FinishInterrupted(j)
      PROVE  \A i \in Jobs : Sealed(i)
  <2>1. status[j] # "TERMINAL" /\ Finish(j, "remanded") /\ "remanded" \in Dispositions
    BY <1>3 DEF FinishInterrupted, Started, Dispositions
  <2> QED BY <2>1, SealFinish
<1> QED BY <1>1, <1>2, <1>3 DEF StartStep

\* A durable observation, a disposition and an acknowledgment are never
\* replaced, and a finished job is never taken up again, restart or not
\* (commissioning-store.js, commissioning-coordinator.js open, finish).
THEOREM OutcomesAreSealed == Spec => OutcomeSealed
<1>1. ASSUME IInv, [Next]_vars
      PROVE  \A j \in Jobs : Sealed(j)
  <2>1. ASSUME NEW j \in Jobs, ClientCall(j) PROVE \A i \in Jobs : Sealed(i)
    <3>1. CASE (\E k \in Keys : SubmitJob(k, j)) \/ CancelJob(j)
      BY <3>1, SealKept DEF SubmitJob, CancelJob, durableVars
    <3>2. CASE Offer(j) \/ Acknowledge(j)
      BY <1>1, <3>2, SealDelivery
    <3> QED BY <2>1, <3>1, <3>2 DEF ClientCall
  <2>2. ASSUME NEW j \in Jobs, TurnStep(j) PROVE \A i \in Jobs : Sealed(i)
    BY <1>1, <2>2, SealTurn
  <2>3. ASSUME NEW j \in Jobs, ChildReturns(j) PROVE \A i \in Jobs : Sealed(i)
    BY <1>1, <2>3, SealReturns
  <2>4. CASE StartStep
    BY <1>1, <2>4, SealStarts
  <2>5. CASE \/ Drain \/ Revoke \/ Close \/ CloseDone \/ Crash \/ UNCHANGED vars
             \/ \E j \in Jobs : LeaseLate(j)
    BY <2>5, SealKept DEF Drain, Revoke, Close, CloseDone, Crash, LeaseLate,
                          vars, durableVars
  <2> QED BY <1>1, <2>1, <2>2, <2>3, <2>4, <2>5 DEF Next
<1>2. IInv /\ [Next]_vars => [\A j \in Jobs :
         /\ Fixed(compiler[j], compiler'[j])
         /\ Fixed(worker[j], worker'[j])
         /\ Fixed(disposition[j], disposition'[j])
         /\ delivery[j] = "ACKNOWLEDGED" => delivery'[j] = "ACKNOWLEDGED"
         /\ delivery[j] # "none" => delivery'[j] # "none"
         /\ status[j] = "TERMINAL" => status'[j] = "TERMINAL"]_vars
  BY <1>1 DEF Sealed
<1> QED BY <1>2, Invariance, PTL DEF Spec, OutcomeSealed

-----------------------------------------------------------------------------
(* The rest of the types: leases, limits and flags *)

LeasesTyped == leases \in [Jobs -> Seq(Lease)]

Counts ==
    /\ generation \in Nat
    /\ jobLimit \in JobLimits \cup {0}
    /\ objects \in Nat

Flags ==
    /\ revoked \in BOOLEAN
    /\ scheduled \in BOOLEAN
    /\ closing \in BOOLEAN

Numbers ==
    /\ Counts
    /\ Flags
    /\ handed \in [Jobs -> [generation : Nat, token : Nat] \cup {NoHandoff}]

LEMMA RowTyped ==
    ASSUME LeasesTyped, NEW j \in Jobs
    PROVE  /\ leases[j] \in Seq(Lease) /\ Len(leases[j]) \in Nat
           /\ DOMAIN leases[j] = 1 .. Len(leases[j])
           /\ \A i \in DOMAIN leases[j] :
                /\ leases[j][i] \in Lease /\ leases[j][i].token \in Nat
                /\ Ended(leases[j][i]) \in Lease
<1>1. leases[j] \in Seq(Lease)
  BY DEF LeasesTyped
<1>2. \A i \in DOMAIN leases[j] : leases[j][i] \in Lease
  BY <1>1, ElementOfSeq, LenProperties
<1> QED BY <1>1, <1>2, LenProperties DEF Lease, Ended

\* A row ends, or turns late.
LEMMA OneRowTyped ==
    ASSUME LeasesTyped, NEW j \in Jobs, NEW i \in DOMAIN leases[j],
           \/ leases' = [leases EXCEPT ![j][i] = Ended(@)]
           \/ leases' = [leases EXCEPT ![j][i].late = TRUE]
    PROVE  LeasesTyped'
<1>1. PICK row \in Lease : leases' = [leases EXCEPT ![j] = [leases[j] EXCEPT ![i] = row]]
  <2>1. CASE leases' = [leases EXCEPT ![j][i] = Ended(@)]
    BY <2>1, RowTyped DEF LeasesTyped
  <2>2. CASE leases' = [leases EXCEPT ![j][i].late = TRUE]
    <3>1. leases[j][i] \in Lease
      BY RowTyped
    <3>2. leases' = [leases EXCEPT ![j] = [leases[j] EXCEPT ![i] =
                                             [leases[j][i] EXCEPT !.late = TRUE]]]
      BY <2>2 DEF LeasesTyped
    <3>3. [leases[j][i] EXCEPT !.late = TRUE] \in Lease
      BY <3>1 DEF Lease
    <3> QED BY <3>2, <3>3
  <2> QED BY <2>1, <2>2
<1>2. [leases[j] EXCEPT ![i] = row] \in Seq(Lease)
  BY RowTyped, ExceptSeq
<1> QED BY <1>1, <1>2 DEF LeasesTyped

LEMMA AcquireTyped ==
    ASSUME LeasesTyped, Numbers, NEW j \in Jobs, Acquire(j)
    PROVE  LeasesTyped'
<1> DEFINE held == leases[j]
           ended == [i \in DOMAIN held |-> IF IsCurrentRow(j, i) THEN Ended(held[i])
                                                                 ELSE held[i]]
<1>1. ended \in Seq(Lease)
  <2>1. ended \in [1 .. Len(held) -> Lease] /\ Len(held) \in Nat
    BY RowTyped
  <2> QED BY <2>1, SeqDef
<1>2. PICK top \in 0 .. (MaxFence - 1) :
        leases' = [leases EXCEPT ![j] =
                     Append(ended, [generation |-> generation, token |-> top + 1,
                                    active |-> TRUE, late |-> FALSE])]
  BY DEF Acquire, LeasesTyped
<1>3. [generation |-> generation, token |-> top + 1,
       active |-> TRUE, late |-> FALSE] \in Lease
  BY <1>2, CustodyAssumption DEF Numbers, Counts, Lease
<1> HIDE DEF ended
<1>4. Append(ended, [generation |-> generation, token |-> top + 1,
                     active |-> TRUE, late |-> FALSE]) \in Seq(Lease)
  BY <1>1, <1>3, AppendProperties
<1> QED BY <1>2, <1>4 DEF LeasesTyped

LEMMA RecoverTyped ==
    ASSUME LeasesTyped, RecoverCustody
    PROVE  LeasesTyped'
<1>1. ASSUME NEW j \in Jobs PROVE Abandoned(leases[j]) \in Seq(Lease)
  <2>1. Abandoned(leases[j]) \in [1 .. Len(leases[j]) -> Lease] /\ Len(leases[j]) \in Nat
    BY RowTyped DEF Abandoned
  <2> QED BY <2>1, SeqDef
<1> QED BY <1>1 DEF RecoverCustody, LeasesTyped

LEMMA LeaseTypes ==
    ASSUME LeasesTyped, Numbers, Next
    PROVE  LeasesTyped'
<1>1. ASSUME NEW j \in Jobs, AcquireForHandoff(j) PROVE LeasesTyped'
  BY <1>1, AcquireTyped DEF AcquireForHandoff
<1>2. ASSUME NEW j \in Jobs, ReleaseAfterHandoff(j) PROVE LeasesTyped'
  BY <1>2, OneRowTyped DEF ReleaseAfterHandoff, Release, ActiveRows
<1>3. ASSUME NEW j \in Jobs, LeaseLate(j) PROVE LeasesTyped'
  BY <1>3, OneRowTyped DEF LeaseLate, LeaseElapses
<1>4. CASE RecoverHost
  BY <1>4, RecoverTyped DEF RecoverHost, BlockCustody, LeasesTyped
<1>5. ASSUME leases' = leases PROVE LeasesTyped'
  BY <1>5 DEF LeasesTyped
<1>6. ASSUME NEW j \in Jobs, ClientCall(j) PROVE leases' = leases
  BY <1>6 DEF ClientCall, SubmitJob, Submit, CancelJob, Cancel, Offer, Acknowledge, custodyVars
<1>7. ASSUME NEW j \in Jobs, ChildReturns(j) PROVE leases' = leases
  BY <1>7 DEF ChildReturns, CompilerReturns, WorkerReturns, custodyVars
<1>8. ASSUME NEW j \in Jobs, TurnStep(j), ~AcquireForHandoff(j), ~ReleaseAfterHandoff(j)
      PROVE  leases' = leases
  BY <1>8 DEF TurnStep, QueueSubmitted, FinishCancelled, DispatchRefused, CommitHandoff,
              HandOff, StartCompiler, MaterializePage, StartWorker, StopBeforeWorker,
              Adjudicate, custodyVars
<1>9. ASSUME StartStep, ~RecoverHost PROVE leases' = leases
  BY <1>9 DEF StartStep, OpenStore, Open, RebuildRow, FinishInterrupted, OpenDone, custodyVars
<1>10. ASSUME Drain \/ Revoke \/ Close \/ CloseDone \/ Crash PROVE leases' = leases
  BY <1>10 DEF Drain, Revoke, Close, CloseDone, Crash, Stop, custodyVars
<1> QED BY <1>1, <1>2, <1>3, <1>4, <1>5, <1>6, <1>7, <1>8, <1>9, <1>10 DEF Next

\* The handed-off token is a number: the lease that is held has one.
LEMMA NumberTypes ==
    ASSUME LeasesTyped, Numbers, Next
    PROVE  Numbers'
<1>1. handed' \in [Jobs -> [generation : Nat, token : Nat] \cup {NoHandoff}]
  <2>1. ASSUME NEW j \in Jobs, CommitHandoff(j)
        PROVE  handed' \in [Jobs -> [generation : Nat, token : Nat] \cup {NoHandoff}]
    <3>1. CASE UNCHANGED custodyVars
      BY <3>1 DEF custodyVars, Numbers
    <3>2. ASSUME NEW i \in ActiveRows(j), HandOff(j, i, leases[j][i].token)
          PROVE  handed' \in [Jobs -> [generation : Nat, token : Nat] \cup {NoHandoff}]
      <4>1. leases[j][i].token \in Nat
        BY RowTyped DEF ActiveRows
      <4> QED BY <3>2, <4>1 DEF HandOff, Numbers, Counts
    <3> QED BY <2>1, <3>1, <3>2 DEF CommitHandoff
  <2>2. ASSUME NEW j \in Jobs, ClientCall(j) \/ ChildReturns(j) PROVE handed' = handed
    BY <2>2 DEF ClientCall, SubmitJob, Submit, CancelJob, Cancel, Offer, Acknowledge,
                ChildReturns, CompilerReturns, WorkerReturns, custodyVars
  <2>3. ASSUME NEW j \in Jobs, TurnStep(j), ~CommitHandoff(j) PROVE handed' = handed
    BY <2>3 DEF TurnStep, QueueSubmitted, FinishCancelled, DispatchRefused,
                AcquireForHandoff, Acquire, ReleaseAfterHandoff, Release, StartCompiler,
                MaterializePage, StartWorker, StopBeforeWorker, Adjudicate, custodyVars
  <2>4. ASSUME StartStep PROVE handed' = handed
    BY <2>4 DEF StartStep, OpenStore, Open, RecoverHost, RecoverCustody, BlockCustody,
                RebuildRow, FinishInterrupted, OpenDone, custodyVars
  <2>5. ASSUME \/ Drain \/ Revoke \/ Close \/ CloseDone \/ Crash
               \/ \E j \in Jobs : LeaseLate(j)
        PROVE  handed' = handed
    BY <2>5 DEF Drain, Revoke, Close, CloseDone, Crash, Stop, LeaseLate, LeaseElapses,
                custodyVars
  <2> QED BY <2>1, <2>2, <2>3, <2>4, <2>5 DEF Next, Numbers
<1>2. Counts'
  <2>1. ASSUME NEW j \in Jobs, ClientCall(j) PROVE Counts'
    BY <2>1 DEF Numbers, Counts, ClientCall, SubmitJob, Submit, CancelJob, Cancel, Offer,
                Acknowledge, custodyVars, durableVars
  <2>2. ASSUME NEW j \in Jobs, ChildReturns(j) PROVE Counts'
    BY <2>2 DEF Numbers, Counts, ChildReturns, CompilerReturns, WorkerReturns,
                RunFinishes, Finish, custodyVars
  <2>3. ASSUME NEW j \in Jobs, TurnStep(j) PROVE Counts'
    <3>1. CASE QueueSubmitted(j) \/ FinishCancelled(j) \/ DispatchRefused(j) \/ Adjudicate(j)
      BY <3>1 DEF Numbers, Counts, QueueSubmitted, AddRow, FinishCancelled, DispatchRefused,
                  Adjudicate, RunFinishes, Finish, custodyVars
    <3>2. CASE AcquireForHandoff(j) \/ CommitHandoff(j) \/ StartCompiler(j) \/ StartWorker(j)
      BY <3>2 DEF Numbers, Counts, AcquireForHandoff, Acquire, CommitHandoff, HandOff,
                  StartCompiler, StartWorker, custodyVars, durableVars
    <3>3. CASE ReleaseAfterHandoff(j) \/ MaterializePage(j) \/ StopBeforeWorker(j)
      BY <3>3 DEF Numbers, Counts, ReleaseAfterHandoff, Release, MaterializePage,
                  StopBeforeWorker, RunFinishes, Finish, custodyVars, durableVars
    <3> QED BY <2>3, <3>1, <3>2, <3>3 DEF TurnStep
  <2>4. ASSUME StartStep PROVE Counts'
    <3>1. CASE OpenStore \/ RecoverHost \/ OpenDone
      BY <3>1 DEF Numbers, Counts, OpenStore, Open, RecoverHost, RecoverCustody,
                  BlockCustody, OpenDone, custodyVars, durableVars
    <3>2. ASSUME NEW j \in Jobs, RebuildRow(j) \/ FinishInterrupted(j) PROVE Counts'
      BY <3>2 DEF Numbers, Counts, RebuildRow, AddRow, FinishInterrupted, Finish,
                  custodyVars, durableVars
    <3> QED BY <2>4, <3>1, <3>2 DEF StartStep
  <2>5. ASSUME \/ Drain \/ Revoke \/ Close \/ CloseDone \/ Crash
               \/ \E j \in Jobs : LeaseLate(j)
        PROVE  Counts'
    BY <2>5 DEF Numbers, Counts, Drain, Revoke, Close, CloseDone, Crash, Stop, LeaseLate,
                LeaseElapses, custodyVars, durableVars
  <2> QED BY <2>1, <2>2, <2>3, <2>4, <2>5 DEF Next
<1>3. Flags'
  <2>1. ASSUME NEW j \in Jobs, ClientCall(j) PROVE Flags'
    BY <2>1 DEF Numbers, Flags, ClientCall, SubmitJob, CancelJob, Offer, Acknowledge, hostVars
  <2>2. ASSUME RunEnds, revoked' = revoked PROVE Flags'
    BY <2>2 DEF Numbers, Flags, RunEnds
  <2>3. ASSUME UNCHANGED <<revoked, scheduled, closing>> PROVE Flags'
    BY <2>3 DEF Numbers, Flags
  <2>4. ASSUME NEW j \in Jobs, ChildReturns(j) PROVE Flags'
    BY <2>2, <2>3, <2>4 DEF ChildReturns, CompilerReturns, WorkerReturns, RunFinishes
  <2>5. ASSUME NEW j \in Jobs, TurnStep(j), ~QueueSubmitted(j) PROVE Flags'
    BY <2>2, <2>3, <2>5 DEF TurnStep, FinishCancelled, DispatchRefused, AcquireForHandoff,
                            CommitHandoff, ReleaseAfterHandoff, StartCompiler,
                            MaterializePage, StartWorker, StopBeforeWorker, Adjudicate,
                            RunFinishes, hostVars
  <2>6. ASSUME NEW j \in Jobs, QueueSubmitted(j) PROVE Flags'
    BY <2>6 DEF Numbers, Flags, QueueSubmitted, Scheduled
  <2>7. ASSUME NEW j \in Jobs, RebuildRow(j) \/ FinishInterrupted(j) \/ LeaseLate(j)
        PROVE  Flags'
    BY <2>3, <2>7 DEF RebuildRow, FinishInterrupted, LeaseLate, hostVars
  <2>8. ASSUME OpenStore \/ RecoverHost PROVE Flags'
    BY <2>3, <2>8 DEF OpenStore, RecoverHost, hostVars
  <2>9. ASSUME OpenDone \/ Drain \/ Revoke \/ Close PROVE Flags'
    BY <2>9 DEF Numbers, Flags, OpenDone, Drain, Revoke, Close, hostVars
  <2>10. ASSUME CloseDone \/ Crash PROVE Flags'
    BY <2>10 DEF Numbers, Flags, CloseDone, Crash, HostForgets
  <2> QED BY <2>1, <2>4, <2>5, <2>6, <2>7, <2>8, <2>9, <2>10 DEF Next, StartStep
<1> QED BY <1>1, <1>2, <1>3 DEF Numbers

\* Every reachable state of the host is well typed, leases included, for any
\* jobs, keys and bounds (commissioning-store.js, commissioning-daemon.js).
THEOREM TypeCorrect == Spec => []TypeOK
<1>1. Init => LeasesTyped /\ Numbers
  <2>1. Init => LeasesTyped
    BY EmptySeq DEF Init, CustodyInit, LeasesTyped
  <2>2. Init => Counts
    BY DEF Init, CustodyInit, Counts
  <2>3. Init => Flags
    BY DEF Init, Flags
  <2>4. Init => handed \in [Jobs -> [generation : Nat, token : Nat] \cup {NoHandoff}]
    BY DEF Init, CustodyInit
  <2> QED BY <2>1, <2>2, <2>3, <2>4 DEF Numbers
<1>2. LeasesTyped /\ Numbers /\ [Next]_vars => LeasesTyped' /\ Numbers'
  <2>1. LeasesTyped /\ Numbers /\ UNCHANGED vars => LeasesTyped' /\ Numbers'
    BY DEF vars, custodyVars, durableVars, hostVars, LeasesTyped, Numbers, Counts, Flags
  <2> QED BY <2>1, LeaseTypes, NumberTypes
<1>3. IInv /\ LeasesTyped /\ Numbers => TypeOK
  BY DEF IInv, Typed, LeasesTyped, Numbers, Counts, Flags, TypeOK, CustodyTypeOK
<1> QED BY <1>1, <1>2, <1>3, Invariance, PTL DEF Spec
-----------------------------------------------------------------------------
(* The job contract *)

\* What the contract needs and no status alone shows: a worker is started on
\* what the compiler returned, and a started child belongs to the job that is
\* running, unless its host was lost.
PageInv(j) ==
    status[j] \in {"PAGE_MATERIALIZED", "WORKER_STARTED", "RAW_CAPTURED"} =>
        compiler[j] = "captured"

StartedInv == \A j \in Started : active = j \/ turn.at = "open" \/ daemon # "ready"

ChildInv == (\A j \in Jobs : PageInv(j)) /\ StartedInv

\* A step on the row of a job that leaves it unstarted and, unless the page
\* stands on a captured observation, before its page.
LEMMA ChildFrame ==
    ASSUME IInv, ChildInv, NEW j \in Jobs, PageInv(j)',
           \A i \in Jobs \ {j} : status'[i] = status[i] /\ compiler'[i] = compiler[i],
           j \in Started' => active' = j,
           \/ daemon' # "ready" \/ turn'.at = "open"
           \/ /\ daemon = "ready" /\ turn.at # "open"
              /\ active' = active \/ active \in {j, NoJob}
    PROVE  ChildInv'
<1>1. \A i \in Jobs : PageInv(i)'
  BY DEF ChildInv, PageInv
<1>2. StartedInv'
  <2> SUFFICES ASSUME NEW i \in Started', daemon' = "ready", turn'.at # "open"
               PROVE  active' = i
    BY DEF StartedInv
  <2>1. CASE i = j
    BY <2>1
  <2>2. CASE i # j
    <3>1. i \in Started /\ i \in Jobs
      BY <2>2 DEF Started
    <3>2. active = i /\ i # NoJob
      BY <3>1, CustodyAssumption DEF ChildInv, StartedInv
    <3> QED BY <2>2, <3>2
  <2> QED BY <2>1, <2>2
<1> QED BY <1>1, <1>2 DEF ChildInv

\* A verdict leaves nothing started.
LEMMA ChildFinish ==
    ASSUME IInv, ChildInv, NEW j \in Jobs, NEW verdict \in Dispositions,
           Finish(j, verdict), daemon' = daemon,
           \/ turn.at \in {"run", "refused"} /\ active = j /\ RunEnds
           \/ turn = Idle /\ active = j /\ RunEnds
           \/ turn.at = "cancel" /\ turn' = Idle /\ active' = active
           \/ turn.at = "open" /\ UNCHANGED <<turn, active>>
    PROVE  ChildInv'
<1>1. /\ status' = [status EXCEPT ![j] = "TERMINAL"] /\ compiler' = compiler
      /\ status'[j] = "TERMINAL"
      /\ \A i \in Jobs \ {j} : status'[i] = status[i] /\ compiler'[i] = compiler[i]
  BY DEF Finish, Move, IInv, Typed
<1>2. PageInv(j)' /\ j \notin Started'
  BY <1>1 DEF PageInv, Started
<1>3. Idle.at = "idle"
  BY AtTyped
<1>4. daemon = "ready" \/ active = NoJob
  BY DEF IInv, TurnInv
<1>5. daemon = "ready" \/ turn.at = "idle"
  BY <1>3 DEF IInv, TurnInv
<1> QED BY <1>1, <1>2, <1>3, <1>4, <1>5, CustodyAssumption, ChildFrame DEF RunEnds

\* Steps that touch no row.
LEMMA ChildQuiet ==
    ASSUME IInv, ChildInv, UNCHANGED <<status, compiler>>,
           \/ daemon' # "ready" \/ turn'.at = "open"
           \/ daemon = "ready" /\ turn.at # "open" /\ active' = active
           \/ daemon = "ready" /\ turn.at # "open" /\ active = NoJob
           \/ Started = {}
    PROVE  ChildInv'
<1>1. \A i \in Jobs : PageInv(i)'
  BY DEF ChildInv, PageInv
<1>2. StartedInv'
  <2> SUFFICES ASSUME NEW i \in Started', daemon' = "ready", turn'.at # "open"
               PROVE  active' = i
    BY DEF StartedInv
  <2>1. i \in Started /\ i \in Jobs /\ i # NoJob
    BY CustodyAssumption DEF Started
  <2> QED BY <2>1 DEF ChildInv, StartedInv
<1> QED BY <1>1, <1>2 DEF ChildInv
LEMMA ChildTurn ==
    ASSUME IInv, ChildInv, NEW j \in Jobs, TurnStep(j)
    PROVE  ChildInv'
<1> USE DEF custodyVars, durableVars, hostVars
<1>1. /\ "remanded" \in Dispositions /\ "adjudicated" \in Dispositions
      /\ Idle.at = "idle"
      /\ \A what \in {"ensure", "cancel", "run", "acquired", "handed", "refused", "released"} :
            turn = At(what, j) => turn.at = what /\ turn.job = j
  BY AtTyped DEF Dispositions
<1>2. /\ turn.at \in {"run", "acquired", "handed", "refused", "released"} => active = turn.job
      /\ turn.at # "idle" => daemon = "ready"
  BY <1>1 DEF IInv, TurnInv
<1>3. \A next \in Statuses : Move(j, next) =>
        /\ status'[j] = next
        /\ \A i \in Jobs \ {j} : status'[i] = status[i]
  BY DEF Move, IInv, Typed
<1>4. PageInv(j)
  BY DEF ChildInv
<1>5. CASE QueueSubmitted(j)
  <2>1. /\ turn.at = "ensure" /\ daemon = "ready" /\ active' = active
        /\ Move(j, "QUEUED") /\ compiler' = compiler
    BY <1>1, <1>2, <1>5 DEF QueueSubmitted, AddRow, Move
  <2>2. status'[j] = "QUEUED" /\ \A i \in Jobs \ {j} : status'[i] = status[i]
    BY <1>3, <2>1 DEF Statuses
  <2> QED BY <2>1, <2>2, ChildFrame DEF PageInv, Started
<1>6. CASE FinishCancelled(j)
  BY <1>1, <1>6, ChildFinish DEF FinishCancelled
<1>7. CASE DispatchRefused(j) \/ StopBeforeWorker(j)
  <2>1. Finish(j, "remanded") /\ RunEnds /\ turn = At("run", j) /\ daemon' = daemon
    BY <1>7 DEF DispatchRefused, StopBeforeWorker, Running, RunFinishes
  <2> QED BY <1>1, <1>2, <2>1, ChildFinish
<1>8. CASE Adjudicate(j)
  <2>1. PICK verdict \in Dispositions :
          Finish(j, verdict) /\ RunEnds /\ turn = At("run", j) /\ daemon' = daemon
    BY <1>1, <1>8 DEF Adjudicate, Running, RunFinishes
  <2> QED BY <1>1, <1>2, <2>1, ChildFinish
<1>9. CASE AcquireForHandoff(j) \/ CommitHandoff(j)
  <2>1. /\ UNCHANGED <<status, compiler, active>>
        /\ turn = At("run", j) \/ turn = At("acquired", j)
    BY <1>9 DEF AcquireForHandoff, CommitHandoff, Running
  <2> QED BY <1>1, <1>2, <2>1, ChildQuiet
<1>10. CASE ReleaseAfterHandoff(j)
  <2>1. CASE turn = At("handed", j) /\ UNCHANGED <<durableVars, active>>
    BY <1>1, <1>2, <2>1, ChildQuiet
  <2>2. CASE turn = At("refused", j) /\ RunFinishes(j, "remanded")
    <3>1. daemon' = daemon
      BY <1>10 DEF ReleaseAfterHandoff, Release
    <3> QED BY <1>1, <1>2, <2>2, <3>1, ChildFinish DEF RunFinishes
  <2> QED BY <1>10, <2>1, <2>2 DEF ReleaseAfterHandoff
<1>11. CASE StartCompiler(j)
  <2>1. /\ turn = At("released", j) \/ turn = At("run", j)
        /\ Move(j, "COMPILER_STARTED") /\ UNCHANGED <<compiler, active>>
    BY <1>11 DEF StartCompiler, Running
  <2>2. status'[j] = "COMPILER_STARTED" /\ \A i \in Jobs \ {j} : status'[i] = status[i]
    BY <1>3, <2>1 DEF Statuses
  <2> QED BY <1>1, <1>2, <2>1, <2>2, ChildFrame DEF PageInv
<1>12. CASE StartWorker(j)
  <2>1. /\ turn = At("run", j) /\ status[j] = "PAGE_MATERIALIZED"
        /\ Move(j, "WORKER_STARTED") /\ UNCHANGED <<compiler, active>>
    BY <1>12 DEF StartWorker, Running
  <2>2. status'[j] = "WORKER_STARTED" /\ \A i \in Jobs \ {j} : status'[i] = status[i]
    BY <1>3, <2>1 DEF Statuses
  <2> QED BY <1>1, <1>2, <1>4, <2>1, <2>2, ChildFrame DEF PageInv
<1>13. CASE MaterializePage(j)
  <2>1. turn = At("run", j) /\ daemon' = daemon
    BY <1>13 DEF MaterializePage, Running
  <2>2. CASE RunFinishes(j, "remanded")
    BY <1>1, <1>2, <2>1, <2>2, ChildFinish DEF RunFinishes
  <2>3. CASE /\ compiler[j] = "captured" /\ Move(j, "PAGE_MATERIALIZED")
             /\ UNCHANGED <<compiler, active>>
    <3>1. status'[j] = "PAGE_MATERIALIZED" /\ \A i \in Jobs \ {j} : status'[i] = status[i]
      BY <1>3, <2>3 DEF Statuses
    <3> QED BY <1>1, <1>2, <2>1, <2>3, <3>1, ChildFrame DEF PageInv, Started
  <2> QED BY <1>13, <2>2, <2>3 DEF MaterializePage
<1> QED BY <1>5, <1>6, <1>7, <1>8, <1>9, <1>10, <1>11, <1>12, <1>13 DEF TurnStep

LEMMA ChildReturned ==
    ASSUME IInv, ChildInv, NEW j \in Jobs, ChildReturns(j)
    PROVE  ChildInv'
<1>1. /\ turn = Idle /\ daemon = "ready" /\ active = j /\ daemon' = daemon
      /\ "remanded" \in Dispositions /\ Idle.at = "idle"
  BY AtTyped DEF ChildReturns, CompilerReturns, WorkerReturns, Awaiting, Free, Serving,
                 custodyVars, Dispositions
<1>2. CASE RunFinishes(j, "remanded")
  BY <1>1, <1>2, ChildFinish DEF RunFinishes
<1>3. ASSUME NEW seen \in Observations, Move(j, "COMPILER_CAPTURED"),
             compiler' = [compiler EXCEPT ![j] = seen], active' = active
      PROVE  ChildInv'
  <2>1. /\ status'[j] = "COMPILER_CAPTURED"
        /\ \A i \in Jobs \ {j} : status'[i] = status[i] /\ compiler'[i] = compiler[i]
    BY <1>3 DEF Move, IInv, Typed
  <2> QED BY <1>1, <1>3, <2>1, ChildFrame DEF PageInv, Started
<1>4. ASSUME status[j] = "WORKER_STARTED", Move(j, "RAW_CAPTURED"),
             UNCHANGED <<compiler, active>>
      PROVE  ChildInv'
  <2>1. /\ status'[j] = "RAW_CAPTURED" /\ compiler[j] = "captured"
        /\ \A i \in Jobs \ {j} : status'[i] = status[i]
    BY <1>4 DEF Move, IInv, Typed, ChildInv, PageInv
  <2> QED BY <1>1, <1>4, <2>1, ChildFrame DEF PageInv, Started
<1>5. CASE CompilerReturns(j)
  BY <1>2, <1>3, <1>5 DEF CompilerReturns
<1>6. CASE WorkerReturns(j)
  BY <1>2, <1>4, <1>6 DEF WorkerReturns, Awaiting
<1> QED BY <1>5, <1>6 DEF ChildReturns

LEMMA ChildStarts ==
    ASSUME IInv, ChildInv, StartStep
    PROVE  ChildInv'
<1> USE DEF custodyVars, durableVars, hostVars
<1>1. CASE OpenStore
  BY <1>1, ChildQuiet DEF OpenStore, Open
<1>2. CASE RecoverHost
  BY <1>2, AtTyped, ChildQuiet DEF RecoverHost, RecoverCustody, BlockCustody
<1>3. CASE OpenDone
  BY <1>3, ChildQuiet DEF OpenDone
<1>4. ASSUME NEW j \in Jobs, RebuildRow(j) PROVE ChildInv'
  <2>1. CASE daemon' = "blocked" /\ UNCHANGED durableVars
    BY <2>1, ChildQuiet
  <2>2. CASE AddRow(j) /\ UNCHANGED <<daemon, turn>>
    <3>1. /\ status'[j] = "QUEUED" /\ compiler' = compiler
          /\ \A i \in Jobs \ {j} : status'[i] = status[i]
      BY <2>2 DEF AddRow, IInv, Typed
    <3> QED BY <1>4, <2>2, <3>1, ChildFrame DEF PageInv, Started, RebuildRow
  <2> QED BY <1>4, <2>1, <2>2 DEF RebuildRow
<1>5. ASSUME NEW j \in Jobs, FinishInterrupted(j) PROVE ChildInv'
  BY <1>5, ChildFinish DEF FinishInterrupted, Dispositions
<1> QED BY <1>1, <1>2, <1>3, <1>4, <1>5 DEF StartStep

LEMMA ChildNext == IInv /\ ChildInv /\ [Next]_vars => ChildInv'
<1> SUFFICES ASSUME IInv, ChildInv, [Next]_vars PROVE ChildInv'
  OBVIOUS
<1>1. Idle.at = "idle" /\ (daemon = "ready" \/ (turn.at = "idle" /\ active = NoJob))
  BY AtTyped DEF IInv, TurnInv
<1>2. ASSUME NEW j \in Jobs, ClientCall(j) PROVE ChildInv'
  <2>1. UNCHANGED <<status, compiler, active>> /\ daemon = "ready" /\ turn = Idle
    BY <1>2 DEF ClientCall, SubmitJob, CancelJob, Offer, Acknowledge, durableVars, hostVars,
               Free, Serving
  <2> QED BY <1>1, <2>1, ChildQuiet
<1>3. ASSUME NEW j \in Jobs, TurnStep(j) PROVE ChildInv'
  BY <1>3, ChildTurn
<1>4. ASSUME NEW j \in Jobs, ChildReturns(j) PROVE ChildInv'
  BY <1>4, ChildReturned
<1>5. CASE UNCHANGED vars \/ \E j \in Jobs : LeaseLate(j)
  <2>1. UNCHANGED <<status, compiler, active, turn, daemon>>
    BY <1>5 DEF LeaseLate, LeaseElapses, vars, custodyVars, durableVars, hostVars
  <2> QED BY <2>1 DEF ChildInv, PageInv, StartedInv, Started
<1>6. CASE Drain \/ Revoke \/ Close
  BY <1>1, <1>6, ChildQuiet DEF Drain, Revoke, Close, Free, Serving, durableVars, hostVars
<1>7. CASE StartStep
  BY <1>7, ChildStarts
<1>8. CASE CloseDone \/ Crash
  BY <1>8, ChildQuiet DEF CloseDone, Crash, Stop, durableVars
<1> QED BY <1>2, <1>3, <1>4, <1>5, <1>6, <1>7, <1>8 DEF Next

LEMMA ChildrenWatched == Spec => []ChildInv
<1>1. Init => ChildInv
  BY DEF Init, CustodyInit, ChildInv, PageInv, StartedInv, Started
<1> QED BY <1>1, ChildNext, Invariance, PTL DEF Spec
\* What the view of a job is made of.
ViewKept(i) ==
    /\ state'[i] = state[i] /\ launched'[i] = launched[i]
    /\ compiler'[i] = compiler[i] /\ worker'[i] = worker[i]
    /\ disposition'[i] = disposition[i] /\ delivery'[i] = delivery[i]
    /\ ChildOf(i)' = ChildOf(i)

LEMMA SameView ==
    ASSUME NEW i \in Jobs, ViewKept(i)
    PROVE  JobView(i)' = JobView(i)
BY DEF ViewKept, JobView, FateOf, Begun, Found

\* The view of one job moves.
LEMMA ViewMoves ==
    ASSUME NEW j \in Jobs, NEW as, JobView(j)' = as,
           \A i \in Jobs \ {j} : ViewKept(i)
    PROVE  Contract!Become(j, as)
<1>1. \A i \in Jobs \ {j} : JobView(i)' = JobView(i)
  BY SameView
<1> QED BY <1>1 DEF Contract!Become

LEMMA ViewStands ==
    ASSUME \A i \in Jobs : ViewKept(i)
    PROVE  UNCHANGED Contract!vars
<1>1. \A i \in Jobs : JobView(i)' = JobView(i)
  BY SameView
<1> QED BY <1>1 DEF Contract!vars

\* A job's row is not touched and the coordinator stays with its job.
LEMMA RowsStand ==
    ASSUME UNCHANGED <<state, launched, compiler, worker, disposition, delivery>>,
           UNCHANGED <<status, active>>
    PROVE  \A i \in Jobs : ViewKept(i)
BY DEF ViewKept, ChildOf

\* The fields of a view.
LEMMA Fields ==
    ASSUME NEW j \in Jobs
    PROVE  /\ JobView(j).fate = FateOf(j)
           /\ JobView(j).begun = Begun(j)
           /\ JobView(j).running = ChildOf(j)
           /\ JobView(j).found["compiler"] = compiler[j]
           /\ JobView(j).found["worker"] = worker[j]
           /\ JobView(j).verdict = disposition[j]
           /\ JobView(j).told = delivery[j]
BY DEF JobView, Found

\* Two fields of a view at once.
LEMMA VerdictField ==
    ASSUME NEW j \in Jobs, NEW x, NEW y
    PROVE  [JobView(j) EXCEPT !.verdict = x, !.running = y] =
               [fate |-> FateOf(j), begun |-> Begun(j), running |-> y,
                found |-> Found(j), verdict |-> x, told |-> delivery[j]]
<1>1. PICK one : one = [JobView(j) EXCEPT !.verdict = x]
  OBVIOUS
<1>2. one = [fate |-> FateOf(j), begun |-> Begun(j), running |-> ChildOf(j),
             found |-> Found(j), verdict |-> x, told |-> delivery[j]]
  BY <1>1 DEF JobView
<1>3. [one EXCEPT !.running = y] =
          [fate |-> FateOf(j), begun |-> Begun(j), running |-> y,
           found |-> Found(j), verdict |-> x, told |-> delivery[j]]
  BY <1>2
<1> QED BY <1>1, <1>3

LEMMA BegunField ==
    ASSUME NEW j \in Jobs, NEW x, NEW y
    PROVE  [JobView(j) EXCEPT !.begun = x, !.running = y] =
               [fate |-> FateOf(j), begun |-> x, running |-> y,
                found |-> Found(j), verdict |-> disposition[j], told |-> delivery[j]]
<1>1. PICK one : one = [JobView(j) EXCEPT !.begun = x]
  OBVIOUS
<1>2. one = [fate |-> FateOf(j), begun |-> x, running |-> ChildOf(j),
             found |-> Found(j), verdict |-> disposition[j], told |-> delivery[j]]
  BY <1>1 DEF JobView
<1>3. [one EXCEPT !.running = y] =
          [fate |-> FateOf(j), begun |-> x, running |-> y,
           found |-> Found(j), verdict |-> disposition[j], told |-> delivery[j]]
  BY <1>2
<1> QED BY <1>1, <1>3

LEMMA FoundField ==
    ASSUME NEW j \in Jobs, NEW x, NEW y
    PROVE  [JobView(j) EXCEPT !.running = y, !.found = x] =
               [fate |-> FateOf(j), begun |-> Begun(j), running |-> y,
                found |-> x, verdict |-> disposition[j], told |-> delivery[j]]
<1>1. PICK one : one = [JobView(j) EXCEPT !.running = y]
  OBVIOUS
<1>2. one = [fate |-> FateOf(j), begun |-> Begun(j), running |-> y,
             found |-> Found(j), verdict |-> disposition[j], told |-> delivery[j]]
  BY <1>1 DEF JobView
<1>3. [one EXCEPT !.found = x] =
          [fate |-> FateOf(j), begun |-> Begun(j), running |-> y,
           found |-> x, verdict |-> disposition[j], told |-> delivery[j]]
  BY <1>2
<1> QED BY <1>1, <1>3

\* Custody's decision about a job is its fate.
LEMMA FateMoves ==
    ASSUME IInv, NEW j \in Jobs, NEW s \in JobStates, NEW fate,
           state' = [state EXCEPT ![j] = s], FateOf(j)' = fate,
           UNCHANGED <<launched, compiler, worker, disposition, delivery, status, active>>
    PROVE  Contract!Become(j, [JobView(j) EXCEPT !.fate = fate])
<1>1. \A i \in Jobs \ {j} : ViewKept(i)
  BY DEF ViewKept, ChildOf, IInv, Typed
<1>2. JobView(j)' = [JobView(j) EXCEPT !.fate = fate]
  <2>1. ChildOf(j)' = ChildOf(j) /\ Begun(j)' = Begun(j) /\ Found(j)' = Found(j)
    BY DEF ChildOf, Begun, Found
  <2> QED BY <2>1 DEF JobView
<1> QED BY <1>1, <1>2, ViewMoves

LEMMA CustodyViews ==
    ASSUME IInv, NEW j \in Jobs,
           \/ \E k \in Keys : SubmitJob(k, j)
           \/ CancelJob(j)
           \/ CommitHandoff(j)
    PROVE  Contract!Step(j) \/ UNCHANGED Contract!vars
<1> USE DEF durableVars, custodyVars
<1>1. Decided(j) /\ Recorded(j) /\ state[j] \in JobStates
  BY DEF IInv, Typed
<1>2. ASSUME NEW k \in Keys, SubmitJob(k, j) PROVE Contract!Step(j)
  <2>1. /\ state[j] = "UNSEEN" /\ state' = [state EXCEPT ![j] = "ADMITTED"]
        /\ UNCHANGED <<launched, compiler, worker, disposition, delivery, status, active>>
    BY <1>2 DEF SubmitJob, Submit
  <2>2. FateOf(j) = "unknown" /\ FateOf(j)' = "open"
    BY <2>1 DEF FateOf, IInv, Typed
  <2>3. Contract!Become(j, [JobView(j) EXCEPT !.fate = "open"])
    BY <2>1, <2>2, FateMoves DEF JobStates
  <2> QED BY <2>2, <2>3, Fields DEF Contract!Step, Contract!Admit
<1>3. CASE CancelJob(j)
  <2>1. /\ state[j] = "ADMITTED" /\ state' = [state EXCEPT ![j] = "CANCELLED_BEFORE_DISPATCH"]
        /\ UNCHANGED <<launched, compiler, worker, disposition, delivery, status, active>>
    BY <1>1, <1>3 DEF CancelJob, Cancel, Decided, JobStates
  <2>2. FateOf(j) = "open" /\ FateOf(j)' = "withdrawn"
    BY <2>1 DEF FateOf, IInv, Typed
  <2>3. Contract!Become(j, [JobView(j) EXCEPT !.fate = "withdrawn"])
    BY <2>1, <2>2, FateMoves DEF JobStates
  <2> QED BY <2>2, <2>3, Fields DEF Contract!Step, Contract!Withdraw
<1>4. CASE CommitHandoff(j)
  <2>1. turn.at = "acquired" /\ turn.job = j
    BY <1>4, AtTyped DEF CommitHandoff
  <2>2. state[j] = "ADMITTED" /\ status[j] = "QUEUED"
    BY <2>1 DEF IInv, TurnInv
  <2>3. UNCHANGED <<launched, compiler, worker, disposition, delivery, status, active>>
    BY <1>4 DEF CommitHandoff
  <2>4. CASE UNCHANGED custodyVars
    BY <2>3, <2>4, RowsStand, ViewStands
  <2>5. CASE state' = [state EXCEPT ![j] = "HANDOFF_COMMITTED"]
    <3>1. FateOf(j) = "open" /\ FateOf(j)' = "dispatched"
      BY <2>2, <2>5 DEF FateOf, IInv, Typed
    <3>2. Contract!Become(j, [JobView(j) EXCEPT !.fate = "dispatched"])
      BY <2>3, <2>5, <3>1, FateMoves DEF JobStates
    <3>3. disposition[j] = "none"
      BY <1>1, <2>2 DEF Recorded, IInv, Typed
    <3> QED BY <3>1, <3>2, <3>3, Fields DEF Contract!Step, Contract!Dispatch
  <2> QED BY <1>4, <2>4, <2>5 DEF CommitHandoff, HandOff
<1> QED BY <1>2, <1>3, <1>4

LEMMA DeliveryViews ==
    ASSUME IInv, NEW j \in Jobs, Offer(j) \/ Acknowledge(j)
    PROVE  Contract!Step(j)
<1>1. UNCHANGED <<state, launched, compiler, worker, disposition, status, active>>
  BY DEF Offer, Acknowledge, custodyVars, hostVars
<1>2. ChildOf(j)' = ChildOf(j) /\ Begun(j)' = Begun(j) /\ Found(j)' = Found(j)
      /\ FateOf(j)' = FateOf(j)
  BY <1>1 DEF ChildOf, Begun, Found, FateOf
<1>3. JobView(j)' = [JobView(j) EXCEPT !.told = delivery'[j]]
  BY <1>1, <1>2 DEF JobView
<1>4. \A i \in Jobs \ {j} : ViewKept(i)
  BY <1>1 DEF ViewKept, ChildOf, Offer, Acknowledge, IInv, Typed
<1>5. CASE Offer(j)
  <2>1. delivery'[j] = "OFFERED" /\ delivery[j] = "none" /\ status[j] = "TERMINAL"
    BY <1>5 DEF Offer, IInv, Typed
  <2>2. disposition[j] # "none"
    BY <2>1 DEF IInv, Recorded
  <2>3. Contract!Become(j, [JobView(j) EXCEPT !.told = "OFFERED"])
    BY <1>3, <1>4, <2>1, ViewMoves
  <2> QED BY <2>1, <2>2, <2>3, Fields DEF Contract!Step, Contract!Offer
<1>6. CASE Acknowledge(j)
  <2>1. delivery'[j] = "ACKNOWLEDGED" /\ delivery[j] = "OFFERED"
    BY <1>6 DEF Acknowledge, IInv, Typed
  <2>2. Contract!Become(j, [JobView(j) EXCEPT !.told = "ACKNOWLEDGED"])
    BY <1>3, <1>4, <2>1, ViewMoves
  <2> QED BY <2>1, <2>2, Fields DEF Contract!Step, Contract!Acknowledge
<1> QED BY <1>5, <1>6

\* A verdict is the contract's conclusion; the coordinator may leave the job.
LEMMA FinishViews ==
    ASSUME IInv, NEW j \in Jobs, NEW verdict \in Dispositions,
           Finish(j, verdict), UNCHANGED <<state, launched>>,
           status[j] \notin {"none", "TERMINAL"},
           verdict = "adjudicated" <=> worker[j] = "captured",
           active' = active \/ (active = j /\ active' = NoJob)
    PROVE  Contract!Step(j)
<1>1. Recorded(j)
  BY DEF IInv
<1>2. /\ UNCHANGED <<compiler, worker, delivery>>
      /\ status'[j] = "TERMINAL" /\ disposition'[j] = verdict
      /\ \A i \in Jobs \ {j} : status'[i] = status[i] /\ disposition'[i] = disposition[i]
  BY DEF Finish, Move, IInv, Typed
<1>3. \A i \in Jobs \ {j} : ViewKept(i)
  BY <1>2, CustodyAssumption DEF ViewKept, ChildOf
<1>4. ChildOf(j)' = "none" /\ Begun(j)' = Begun(j) /\ Found(j)' = Found(j)
      /\ FateOf(j)' = FateOf(j)
  BY <1>2 DEF ChildOf, Begun, Found, FateOf
<1>5. JobView(j)' = [JobView(j) EXCEPT !.verdict = verdict, !.running = "none"]
  <2>1. JobView(j)' = [fate |-> FateOf(j), begun |-> Begun(j), running |-> "none",
                       found |-> Found(j), verdict |-> verdict, told |-> delivery[j]]
    BY <1>2, <1>4 DEF JobView
  <2> QED BY <2>1, VerdictField
<1>6. disposition[j] = "none" /\ FateOf(j) # "unknown"
  BY <1>1 DEF Recorded, FateOf, IInv, Typed, JobStates
<1>7. verdict = IF worker[j] = "captured" THEN "adjudicated" ELSE "remanded"
  BY DEF Dispositions
<1>8. Contract!Become(j, [JobView(j) EXCEPT
         !.verdict = IF worker[j] = "captured" THEN "adjudicated" ELSE "remanded",
         !.running = "none"])
  BY <1>3, <1>5, <1>7, ViewMoves
<1> QED BY <1>6, <1>8, Fields DEF Contract!Step, Contract!Conclude

\* A child is begun: the coordinator is with its job, so no other runs.
LEMMA BeginViews ==
    ASSUME IInv, ChildInv, NEW j \in Jobs, StartCompiler(j) \/ StartWorker(j)
    PROVE  Contract!Step(j)
<1>1. Decided(j) /\ Recorded(j) /\ PageInv(j)
  BY DEF IInv, ChildInv
<1>2. /\ UNCHANGED <<state, compiler, worker, disposition, delivery, active>>
      /\ \A what \in {"released", "run"} : turn = At(what, j) => turn.at = what /\ turn.job = j
  BY AtTyped DEF StartCompiler, StartWorker, custodyVars
<1>3. active = j /\ (\E what \in {"released", "run"} : turn = At(what, j))
  BY <1>2 DEF StartCompiler, StartWorker, Running, IInv, TurnInv
<1>4. Found(j)' = Found(j) /\ FateOf(j)' = FateOf(j)
  BY <1>2 DEF Found, FateOf
<1>5. launched \in [Jobs -> [compiler : Nat, worker : Nat]]
  BY DEF IInv, Typed
<1>6. \A i \in Jobs \ {j} : ChildOf(i) = "none" /\ ChildOf(i)' = "none"
  BY <1>2, <1>3 DEF ChildOf
<1>7. ASSUME NEW c \in {"compiler", "worker"}, NEW next \in Statuses,
             Move(j, next), ChildOf(j)' = c, status[j] \in {"QUEUED", "PAGE_MATERIALIZED"},
             Begun(j)' = Begun(j) \cup {c}, c \notin Begun(j),
             \A i \in Jobs \ {j} : launched'[i] = launched[i],
             state[j] = "HANDOFF_COMMITTED",
             c = "worker" => compiler[j] = "captured"
      PROVE  Contract!Step(j)
  <2>1. \A i \in Jobs \ {j} : ViewKept(i)
    BY <1>2, <1>6, <1>7 DEF ViewKept
  <2>2. JobView(j)' = [JobView(j) EXCEPT !.begun = @ \cup {c}, !.running = c]
    <3>1. JobView(j)' = [fate |-> FateOf(j), begun |-> Begun(j) \cup {c}, running |-> c,
                         found |-> Found(j), verdict |-> disposition[j],
                         told |-> delivery[j]]
      BY <1>2, <1>4, <1>7 DEF JobView
    <3>2. [JobView(j) EXCEPT !.begun = @ \cup {c}, !.running = c] =
              [JobView(j) EXCEPT !.begun = Begun(j) \cup {c}, !.running = c]
      BY Fields
    <3>3. [JobView(j) EXCEPT !.begun = Begun(j) \cup {c}, !.running = c] =
              [fate |-> FateOf(j), begun |-> Begun(j) \cup {c}, running |-> c,
               found |-> Found(j), verdict |-> disposition[j], told |-> delivery[j]]
      BY BegunField
    <3> QED BY <3>1, <3>2, <3>3
  <2>3. Contract!Become(j, [JobView(j) EXCEPT !.begun = @ \cup {c}, !.running = c])
    BY <2>1, <2>2, ViewMoves
  <2>4. \A i \in Jobs : ChildOf(i) = "none"
    BY <1>6, <1>7 DEF ChildOf
  <2>5. FateOf(j) = "dispatched" /\ disposition[j] = "none"
    BY <1>1, <1>7 DEF FateOf, Recorded
  <2>6. Contract!Begin(j, c)
    BY <1>7, <2>3, <2>4, <2>5, Fields DEF Contract!Begin
  <2> QED BY <2>6 DEF Contract!Step, Contract!Children
<1>8. CASE StartCompiler(j)
  <2>1. status[j] = "QUEUED" /\ state[j] = "HANDOFF_COMMITTED"
    <3>1. CASE turn = At("released", j)
      BY <1>2, <3>1 DEF IInv, TurnInv
    <3>2. CASE Running(j, "QUEUED") /\ boundary[j] = "HANDOFF_COMMITTED"
      BY <1>1, <3>2 DEF Running, Decided
    <3> QED BY <1>8, <3>1, <3>2 DEF StartCompiler
  <2>2. launched[j].compiler = 0 /\ launched' = [launched EXCEPT ![j].compiler = @ + 1]
        /\ Move(j, "COMPILER_STARTED")
    BY <1>1, <1>5, <1>8, <2>1 DEF StartCompiler, Recorded
  <2>3. /\ Begun(j)' = Begun(j) \cup {"compiler"} /\ "compiler" \notin Begun(j)
        /\ \A i \in Jobs \ {j} : launched'[i] = launched[i]
    BY <1>5, <2>2 DEF Begun
  <2>4. ChildOf(j)' = "compiler"
    BY <1>2, <1>3, <2>2 DEF ChildOf, Move, IInv, Typed
  <2> QED BY <1>7, <2>1, <2>2, <2>3, <2>4 DEF Statuses
<1>9. CASE StartWorker(j)
  <2>1. status[j] = "PAGE_MATERIALIZED"
    BY <1>9 DEF StartWorker, Running
  <2>2. state[j] = "HANDOFF_COMMITTED" /\ compiler[j] = "captured"
    BY <1>1, <2>1 DEF Recorded, PageInv
  <2>3. launched[j].worker = 0 /\ launched' = [launched EXCEPT ![j].worker = @ + 1]
        /\ Move(j, "WORKER_STARTED")
    BY <1>1, <1>5, <1>9, <2>1 DEF StartWorker, Recorded
  <2>4. /\ Begun(j)' = Begun(j) \cup {"worker"} /\ "worker" \notin Begun(j)
        /\ \A i \in Jobs \ {j} : launched'[i] = launched[i]
    BY <1>5, <2>3 DEF Begun
  <2>5. ChildOf(j)' = "worker"
    BY <1>2, <1>3, <2>3 DEF ChildOf, Move, IInv, Typed
  <2> QED BY <1>7, <2>1, <2>2, <2>3, <2>4, <2>5 DEF Statuses
<1> QED BY <1>8, <1>9

\* A child returns, with an observation or with the job's end.
LEMMA ReturnViews ==
    ASSUME IInv, NEW j \in Jobs, ChildReturns(j)
    PROVE  Contract!Step(j)
<1>1. Recorded(j) /\ "remanded" \in Dispositions
  BY DEF IInv, Dispositions
<1>2. /\ active = j /\ UNCHANGED <<state, launched>>
      /\ status[j] \in {"COMPILER_STARTED", "WORKER_STARTED"}
  BY DEF ChildReturns, CompilerReturns, WorkerReturns, Awaiting, custodyVars
<1>3. CASE RunFinishes(j, "remanded")
  <2>1. worker[j] # "captured"
    BY <1>1, <1>2 DEF Recorded
  <2> QED BY <1>1, <1>2, <1>3, <2>1, FinishViews DEF RunFinishes, RunEnds
<1>4. ASSUME NEW c \in {"compiler", "worker"}, NEW seen \in Observations,
             NEW next \in {"COMPILER_CAPTURED", "RAW_CAPTURED"},
             Move(j, next), ChildOf(j) = c,
             UNCHANGED <<disposition, delivery, active>>,
             Found(j)' = [Found(j) EXCEPT ![c] = seen],
             \A i \in Jobs \ {j} : compiler'[i] = compiler[i] /\ worker'[i] = worker[i]
      PROVE  Contract!Step(j)
  <2>1. /\ status'[j] = next
        /\ \A i \in Jobs \ {j} : status'[i] = status[i]
    BY <1>4 DEF Move, IInv, Typed
  <2>2. \A i \in Jobs \ {j} : ViewKept(i)
    BY <1>2, <1>4, <2>1 DEF ViewKept, ChildOf
  <2>3. ChildOf(j)' = "none" /\ FateOf(j)' = FateOf(j) /\ Begun(j)' = Begun(j)
    BY <1>2, <2>1 DEF ChildOf, FateOf, Begun
  <2>4. JobView(j)' = [JobView(j) EXCEPT !.running = "none", !.found[c] = seen]
    <3>1. JobView(j)' = [fate |-> FateOf(j), begun |-> Begun(j), running |-> "none",
                         found |-> [Found(j) EXCEPT ![c] = seen],
                         verdict |-> disposition[j], told |-> delivery[j]]
      BY <1>4, <2>3 DEF JobView
    <3>2. JobView(j).found = Found(j)
      BY DEF JobView
    <3>3. [JobView(j) EXCEPT !.running = "none", !.found[c] = seen] =
              [JobView(j) EXCEPT !.running = "none", !.found = [Found(j) EXCEPT ![c] = seen]]
      BY <3>2
    <3> QED BY <3>1, <3>3, FoundField
  <2>5. Contract!Become(j, [JobView(j) EXCEPT !.running = "none", !.found[c] = seen])
    BY <2>2, <2>4, ViewMoves
  <2>6. Contract!Return(j, c, seen)
    BY <1>4, <2>5, Fields DEF Contract!Return
  <2> QED BY <2>6 DEF Contract!Step, Contract!Children, Contract!Observations, Observations
<1>5. CASE CompilerReturns(j)
  <2>1. ASSUME NEW seen \in Observations, Move(j, "COMPILER_CAPTURED"),
               compiler' = [compiler EXCEPT ![j] = seen],
               UNCHANGED <<worker, disposition, delivery, active>>
        PROVE  Contract!Step(j)
    <3>1. ChildOf(j) = "compiler"
      BY <1>2, <1>5 DEF ChildOf, CompilerReturns, Awaiting
    <3>2. /\ Found(j)' = [Found(j) EXCEPT !["compiler"] = seen]
          /\ \A i \in Jobs \ {j} : compiler'[i] = compiler[i] /\ worker'[i] = worker[i]
      BY <2>1 DEF Found, IInv, Typed
    <3> QED BY <1>4, <2>1, <3>1, <3>2
  <2> QED BY <1>3, <1>5, <2>1 DEF CompilerReturns
<1>6. CASE WorkerReturns(j)
  <2>1. ASSUME NEW seen \in Observations, Move(j, "RAW_CAPTURED"),
               worker' = [worker EXCEPT ![j] = seen],
               UNCHANGED <<compiler, disposition, delivery, active>>
        PROVE  Contract!Step(j)
    <3>1. ChildOf(j) = "worker"
      BY <1>2, <1>6 DEF ChildOf, WorkerReturns, Awaiting
    <3>2. /\ Found(j)' = [Found(j) EXCEPT !["worker"] = seen]
          /\ \A i \in Jobs \ {j} : compiler'[i] = compiler[i] /\ worker'[i] = worker[i]
      BY <2>1 DEF Found, IInv, Typed
    <3> QED BY <1>4, <2>1, <3>1, <3>2
  <2> QED BY <1>3, <1>6, <2>1 DEF WorkerReturns
<1> QED BY <1>5, <1>6 DEF ChildReturns

LEMMA TurnViews ==
    ASSUME IInv, ChildInv, NEW j \in Jobs, TurnStep(j)
    PROVE  Contract!Step(j) \/ UNCHANGED Contract!vars
<1> USE DEF custodyVars, durableVars, hostVars
<1>1. /\ "remanded" \in Dispositions /\ "adjudicated" \in Dispositions
      /\ \A what \in {"ensure", "cancel", "run", "acquired", "handed", "refused", "released"} :
            turn = At(what, j) => turn.at = what /\ turn.job = j
  BY AtTyped DEF Dispositions
<1>2. turn.at \in {"run", "acquired", "handed", "refused", "released"} => active = turn.job
  BY DEF IInv, TurnInv
<1>3. Recorded(j)
  BY DEF IInv
<1>4. CASE QueueSubmitted(j)
  <2>1. status[j] = "none"
    BY <1>1, <1>4 DEF QueueSubmitted, IInv, TurnInv
  <2>2. /\ status' = [status EXCEPT ![j] = "QUEUED"] /\ active' = active
        /\ UNCHANGED <<state, launched, compiler, worker, disposition, delivery>>
    BY <1>4 DEF QueueSubmitted, AddRow
  <2>3. \A i \in Jobs : ViewKept(i)
    BY <2>1, <2>2 DEF ViewKept, ChildOf, IInv, Typed
  <2> QED BY <2>3, ViewStands
<1>5. CASE FinishCancelled(j)
  <2>1. turn.at = "cancel" /\ turn.job = j
    BY <1>1, <1>5 DEF FinishCancelled
  <2>2. status[j] = "QUEUED"
    BY <2>1 DEF IInv, TurnInv
  <2>3. worker[j] # "captured"
    BY <1>3, <2>2 DEF Recorded
  <2> QED BY <1>1, <1>5, <2>2, <2>3, FinishViews DEF FinishCancelled
<1>6. ASSUME Running(j, status[j]), RunFinishes(j, "remanded"), UNCHANGED <<state, launched>>,
             status[j] \in {"QUEUED", "COMPILER_CAPTURED", "PAGE_MATERIALIZED"}
      PROVE  Contract!Step(j)
  <2>1. active = j
    BY <1>1, <1>2, <1>6 DEF Running
  <2>2. worker[j] # "captured"
    BY <1>3, <1>6 DEF Recorded
  <2> QED BY <1>1, <1>6, <2>1, <2>2, FinishViews DEF RunFinishes, RunEnds
<1>7. CASE DispatchRefused(j) \/ StopBeforeWorker(j)
  BY <1>6, <1>7 DEF DispatchRefused, StopBeforeWorker, Running
<1>8. CASE Adjudicate(j)
  <2>1. active = j /\ status[j] = "RAW_CAPTURED"
    BY <1>1, <1>2, <1>8 DEF Adjudicate, Running
  <2>2. PICK verdict \in Dispositions :
          /\ Finish(j, verdict) /\ RunEnds
          /\ verdict = "adjudicated" <=> worker[j] = "captured"
    BY <1>1, <1>8 DEF Adjudicate, RunFinishes
  <2> QED BY <1>8, <2>1, <2>2, FinishViews DEF Adjudicate, RunEnds
<1>9. CASE AcquireForHandoff(j)
  BY <1>9, RowsStand, ViewStands DEF AcquireForHandoff, Acquire
<1>10. CASE CommitHandoff(j)
  BY <1>10, CustodyViews
<1>11. CASE ReleaseAfterHandoff(j)
  <2>1. UNCHANGED <<state, launched>>
    BY <1>11 DEF ReleaseAfterHandoff, Release
  <2>2. CASE UNCHANGED <<durableVars, active>>
    BY <2>1, <2>2, RowsStand, ViewStands
  <2>3. CASE turn = At("refused", j) /\ RunFinishes(j, "remanded")
    <3>1. active = j /\ status[j] = "QUEUED"
      BY <1>1, <2>3 DEF IInv, TurnInv
    <3>2. worker[j] # "captured"
      BY <1>3, <3>1 DEF Recorded
    <3> QED BY <1>1, <2>1, <2>3, <3>1, <3>2, FinishViews DEF RunFinishes, RunEnds
  <2> QED BY <1>11, <2>2, <2>3 DEF ReleaseAfterHandoff
<1>12. CASE StartCompiler(j) \/ StartWorker(j)
  BY <1>12, BeginViews
<1>13. CASE MaterializePage(j)
  <2>1. status[j] = "COMPILER_CAPTURED" /\ UNCHANGED <<state, launched>>
    BY <1>13 DEF MaterializePage, Running
  <2>2. CASE RunFinishes(j, "remanded")
    BY <1>6, <1>13, <2>1, <2>2 DEF MaterializePage
  <2>3. CASE /\ Move(j, "PAGE_MATERIALIZED")
             /\ UNCHANGED <<rows, compiler, worker, disposition, delivery, hostVars>>
    <3>1. \A i \in Jobs : ViewKept(i)
      BY <2>1, <2>3 DEF ViewKept, ChildOf, Move, IInv, Typed
    <3> QED BY <3>1, ViewStands
  <2> QED BY <1>13, <2>2, <2>3 DEF MaterializePage
<1> QED BY <1>4, <1>5, <1>7, <1>8, <1>9, <1>10, <1>11, <1>12, <1>13 DEF TurnStep

LEMMA StartViews ==
    ASSUME IInv, StartStep
    PROVE  (\E j \in Jobs : Contract!Step(j)) \/ UNCHANGED Contract!vars
<1> USE DEF custodyVars, durableVars, hostVars
<1>1. CASE OpenStore \/ RecoverHost \/ OpenDone
  <2>1. UNCHANGED <<state, launched, compiler, worker, disposition, delivery, status, active>>
    BY <1>1 DEF OpenStore, Open, RecoverHost, RecoverCustody, BlockCustody, OpenDone
  <2> QED BY <2>1, RowsStand, ViewStands
<1>2. ASSUME NEW j \in Jobs, RebuildRow(j) PROVE UNCHANGED Contract!vars
  <2>1. /\ UNCHANGED <<state, launched, compiler, worker, disposition, delivery, active>>
        /\ status' = status \/ (status[j] = "none" /\ status' = [status EXCEPT ![j] = "QUEUED"])
    BY <1>2 DEF RebuildRow, AddRow, Rowless
  <2>2. \A i \in Jobs : ViewKept(i)
    BY <2>1 DEF ViewKept, ChildOf, IInv, Typed
  <2> QED BY <2>2, ViewStands
<1>3. ASSUME NEW j \in Jobs, FinishInterrupted(j) PROVE Contract!Step(j)
  <2>1. /\ status[j] \in {"COMPILER_STARTED", "WORKER_STARTED"} /\ Finish(j, "remanded")
        /\ UNCHANGED <<state, launched, active>>
    BY <1>3 DEF FinishInterrupted, Started
  <2>2. worker[j] # "captured" /\ "remanded" \in Dispositions
    BY <2>1 DEF IInv, Recorded, Dispositions
  <2> QED BY <2>1, <2>2, FinishViews
<1> QED BY <1>1, <1>2, <1>3 DEF StartStep

\* The host ends, and with it the child it waits for.
LEMMA EndViews ==
    ASSUME IInv, CloseDone \/ Crash
    PROVE  (\E j \in Jobs : Contract!Step(j)) \/ UNCHANGED Contract!vars
<1>1. /\ UNCHANGED <<state, launched, compiler, worker, disposition, delivery, status>>
      /\ active' = NoJob /\ NoJob \notin Jobs /\ active \in Jobs \cup {NoJob}
  BY CustodyAssumption DEF CloseDone, Crash, Stop, HostForgets, durableVars, IInv, Typed
<1>2. \A i \in Jobs : ChildOf(i)' = "none" /\ (i # active => ChildOf(i) = "none")
  BY <1>1 DEF ChildOf
<1>3. CASE \A i \in Jobs : ChildOf(i) = "none"
  <2>1. \A i \in Jobs : ViewKept(i)
    BY <1>1, <1>2, <1>3 DEF ViewKept
  <2> QED BY <2>1, ViewStands
<1>4. CASE active \in Jobs /\ ChildOf(active) # "none"
  <2>1. PICK j \in Jobs : j = active
    BY <1>4
  <2>2. \A i \in Jobs \ {j} : ViewKept(i)
    BY <1>1, <1>2, <2>1 DEF ViewKept
  <2>3. FateOf(j)' = FateOf(j) /\ Begun(j)' = Begun(j) /\ Found(j)' = Found(j)
    BY <1>1 DEF FateOf, Begun, Found
  <2>4. JobView(j)' = [JobView(j) EXCEPT !.running = "none"]
    BY <1>1, <1>2, <2>3 DEF JobView
  <2>5. Contract!Become(j, [JobView(j) EXCEPT !.running = "none"])
    BY <2>2, <2>4, ViewMoves
  <2>6. Contract!Lose(j)
    BY <1>4, <2>1, <2>5, Fields DEF Contract!Lose
  <2> QED BY <2>6 DEF Contract!Step
<1> QED BY <1>1, <1>2, <1>3, <1>4

\* A drain picks a job that has not been started: its children are dead.
LEMMA DrainViews ==
    ASSUME IInv, ChildInv, Drain
    PROVE  UNCHANGED Contract!vars
<1>1. /\ UNCHANGED <<state, launched, compiler, worker, disposition, delivery, status>>
      /\ active = NoJob /\ turn = Idle /\ daemon = "ready"
  BY DEF Drain, Free, Serving, custodyVars, durableVars
<1>2. Started = {}
  BY <1>1, AtTyped, CustodyAssumption DEF ChildInv, StartedInv, Started
<1>3. \A i \in Jobs : ChildOf(i) = "none" /\ ChildOf(i)' = "none"
  BY <1>1, <1>2 DEF ChildOf, Started
<1>4. \A i \in Jobs : ViewKept(i)
  BY <1>1, <1>3 DEF ViewKept
<1> QED BY <1>4, ViewStands

LEMMA ContractStep ==
    IInv /\ ChildInv /\ [Next]_vars => [Contract!Next]_(Contract!vars)
<1> SUFFICES ASSUME IInv, ChildInv, [Next]_vars
             PROVE  (\E j \in Jobs : Contract!Step(j)) \/ UNCHANGED Contract!vars
  BY DEF Contract!Next
<1>1. ASSUME NEW j \in Jobs, ClientCall(j)
      PROVE  Contract!Step(j) \/ UNCHANGED Contract!vars
  BY <1>1, CustodyViews, DeliveryViews DEF ClientCall
<1>2. ASSUME NEW j \in Jobs, TurnStep(j)
      PROVE  Contract!Step(j) \/ UNCHANGED Contract!vars
  BY <1>2, TurnViews
<1>3. ASSUME NEW j \in Jobs, ChildReturns(j) PROVE Contract!Step(j)
  BY <1>3, ReturnViews
<1>4. CASE Drain
  BY <1>4, DrainViews
<1>5. CASE StartStep
  BY <1>5, StartViews
<1>6. CASE CloseDone \/ Crash
  BY <1>6, EndViews
<1>7. CASE Revoke \/ Close \/ UNCHANGED vars \/ \E j \in Jobs : LeaseLate(j)
  <2>1. UNCHANGED <<state, launched, compiler, worker, disposition, delivery, status, active>>
    BY <1>7 DEF Revoke, Close, LeaseLate, LeaseElapses, vars, custodyVars, durableVars, hostVars
  <2> QED BY <2>1, RowsStand, ViewStands
<1> QED BY <1>1, <1>2, <1>3, <1>4, <1>5, <1>6, <1>7 DEF Next

LEMMA ContractInit == Init => Contract!Init
<1> SUFFICES ASSUME Init PROVE Contract!Init
  OBVIOUS
<1>1. ASSUME NEW j \in Jobs PROVE JobView(j) = Contract!Fresh
  <2>1. FateOf(j) = "unknown" /\ Begun(j) = {} /\ ChildOf(j) = "none"
    BY DEF Init, CustodyInit, FateOf, Begun, ChildOf
  <2>2. Found(j) = [c \in {"compiler", "worker"} |-> "none"]
    BY DEF Init, Found
  <2>3. disposition[j] = "none" /\ delivery[j] = "none"
    BY DEF Init
  <2> QED BY <2>1, <2>2, <2>3 DEF JobView, Contract!Fresh, Contract!Children
<1> QED BY <1>1 DEF Contract!Init

\* The host keeps the job contract: each child is begun at most once and the
\* worker only on a captured page, one child runs at a time, a lost child has
\* returned nothing, and what the worker returned decides, whatever crashes
\* between which commits (commissioning-coordinator.js open, handoff, runJob,
\* finish; commissioning-daemon.js cancel).
THEOREM HostKeepsContract == Spec => KeepsJobContract
BY ContractInit, ContractStep, ChildrenWatched, Invariance, PTL
   DEF Spec, KeepsJobContract, Contract!Spec

-----------------------------------------------------------------------------
(* What follows from the contract's steps alone *)

Views == [fate    : {"unknown", "open", "withdrawn", "dispatched"},
          begun   : SUBSET {"compiler", "worker"},
          running : {"compiler", "worker", "none"},
          found   : [{"compiler", "worker"} -> Observations \cup {"none"}],
          verdict : {"none", "adjudicated", "remanded"},
          told    : {"none", "OFFERED", "ACKNOWLEDGED"}]

SoundView(v) ==
    /\ v.begun # {} => v.fate = "dispatched"
    /\ v.running # "none" => /\ v.running \in v.begun
                             /\ v.found[v.running] = "none"
                             /\ v.verdict = "none"
    /\ \A c \in {"compiler", "worker"} : v.found[c] # "none" => c \in v.begun
    /\ "worker" \in v.begun => v.found["compiler"] = "captured"
    /\ v.verdict # "none" => (v.verdict = "adjudicated" <=> v.found["worker"] = "captured")
    /\ v.told # "none" => v.verdict # "none"

\* What a step leaves of what was decided before it.
Stands(v, w) ==
    /\ v.fate \in {"withdrawn", "dispatched"} => w.fate = v.fate
    /\ \A c \in {"compiler", "worker"} : v.found[c] # "none" => w.found[c] = v.found[c]
    /\ v.begun \subseteq w.begun
    /\ v.verdict # "none" => w.verdict = v.verdict
    /\ v.told = "ACKNOWLEDGED" => w.told = "ACKNOWLEDGED"

\* One disjunct per action of the contract.
ViewStep(v, w) ==
    \/ v.fate = "unknown" /\ w = [v EXCEPT !.fate = "open"]
    \/ v.fate = "open" /\ w = [v EXCEPT !.fate = "withdrawn"]
    \/ v.fate = "open" /\ w = [v EXCEPT !.fate = "dispatched"]
    \/ \E c \in {"compiler", "worker"} :
         \/ /\ v.fate = "dispatched" /\ v.verdict = "none" /\ c \notin v.begun
            /\ c = "worker" => v.found["compiler"] = "captured"
            /\ w = [v EXCEPT !.begun = @ \cup {c}, !.running = c]
         \/ \E seen \in Observations :
              /\ v.running = c
              /\ w = [v EXCEPT !.running = "none", !.found[c] = seen]
    \/ w = [v EXCEPT !.running = "none"]
    \/ /\ v.verdict = "none"
       /\ w = [v EXCEPT !.verdict = IF v.found["worker"] = "captured"
                                    THEN "adjudicated" ELSE "remanded",
                        !.running = "none"]
    \/ v.verdict # "none" /\ v.told = "none" /\ w = [v EXCEPT !.told = "OFFERED"]
    \/ v.told = "OFFERED" /\ w = [v EXCEPT !.told = "ACKNOWLEDGED"]

LEMMA SoundStep ==
    ASSUME NEW v \in Views, SoundView(v), NEW w, ViewStep(v, w)
    PROVE  SoundView(w) /\ Stands(v, w)
<1> USE DEF Views, Observations
<1>1. CASE \/ v.fate = "unknown" /\ w = [v EXCEPT !.fate = "open"]
           \/ v.fate = "open" /\ w = [v EXCEPT !.fate = "withdrawn"]
           \/ v.fate = "open" /\ w = [v EXCEPT !.fate = "dispatched"]
  BY <1>1 DEF SoundView, Stands
<1>2. ASSUME NEW c \in {"compiler", "worker"},
             v.fate = "dispatched", v.verdict = "none", c \notin v.begun,
             c = "worker" => v.found["compiler"] = "captured",
             w = [v EXCEPT !.begun = @ \cup {c}, !.running = c]
      PROVE  SoundView(w) /\ Stands(v, w)
  BY <1>2 DEF SoundView, Stands
<1>3. ASSUME NEW c \in {"compiler", "worker"}, NEW seen \in Observations, v.running = c,
             w = [v EXCEPT !.running = "none", !.found[c] = seen]
      PROVE  SoundView(w) /\ Stands(v, w)
  BY <1>3 DEF SoundView, Stands
<1>4. CASE w = [v EXCEPT !.running = "none"]
  BY <1>4 DEF SoundView, Stands
<1>5. CASE /\ v.verdict = "none"
           /\ w = [v EXCEPT !.verdict = IF v.found["worker"] = "captured"
                                        THEN "adjudicated" ELSE "remanded",
                            !.running = "none"]
  BY <1>5 DEF SoundView, Stands
<1>6. CASE \/ v.verdict # "none" /\ v.told = "none" /\ w = [v EXCEPT !.told = "OFFERED"]
           \/ v.told = "OFFERED" /\ w = [v EXCEPT !.told = "ACKNOWLEDGED"]
  BY <1>6 DEF SoundView, Stands
<1> QED BY <1>1, <1>2, <1>3, <1>4, <1>5, <1>6 DEF ViewStep

LEMMA ViewTyped ==
    ASSUME IInv, NEW j \in Jobs
    PROVE  JobView(j) \in Views
<1>1. FateOf(j) \in {"unknown", "open", "withdrawn", "dispatched"}
  BY DEF IInv, Typed, FateOf, JobStates
<1>2. Begun(j) \in SUBSET {"compiler", "worker"} /\ ChildOf(j) \in {"compiler", "worker", "none"}
  BY DEF Begun, ChildOf
<1>3. Found(j) \in [{"compiler", "worker"} -> Observations \cup {"none"}]
  BY DEF IInv, Typed, Found
<1>4. /\ disposition[j] \in {"none", "adjudicated", "remanded"}
      /\ delivery[j] \in {"none", "OFFERED", "ACKNOWLEDGED"}
  BY DEF IInv, Typed, Dispositions
<1> QED BY <1>1, <1>2, <1>3, <1>4 DEF JobView, Views

\* A step of the contract moves one view, and a child is begun only while no
\* other runs.
LEMMA StepOfView ==
    ASSUME IInv, NEW j \in Jobs, Contract!Step(j)
    PROVE  /\ \A i \in Jobs \ {j} : JobView(i)' = JobView(i)
           /\ ViewStep(JobView(j), JobView(j)')
           /\ \/ \A i \in Jobs : JobView(i).running = "none"
              \/ JobView(j)'.running \in {JobView(j).running, "none"}
<1>1. ASSUME NEW as, Contract!Become(j, as)
      PROVE  (\A i \in Jobs \ {j} : JobView(i)' = JobView(i)) /\ JobView(j)' = as
  BY <1>1, Zenon DEF Contract!Become
<1> DEFINE v == JobView(j)
           w == JobView(j)'
           NoneRuns == \A i \in Jobs : JobView(i).running = "none"
           Moved == \A i \in Jobs \ {j} : JobView(i)' = JobView(i)
<1>v. v \in Views
  BY ViewTyped
<1> HIDE DEF v, w, NoneRuns, Moved
<1>s. SUFFICES Moved /\ ViewStep(v, w) /\ (NoneRuns \/ w.running \in {v.running, "none"})
  BY Zenon DEF v, w, NoneRuns, Moved
<1>b. ASSUME NEW as, Contract!Become(j, as)
      PROVE  Moved /\ w = as
  BY <1>1, <1>b, Zenon DEF w, Moved
<1>2. CASE Contract!Admit(j)
  <2>1. v.fate = "unknown" /\ Contract!Become(j, [v EXCEPT !.fate = "open"])
    BY <1>2, Zenon DEF Contract!Admit, v
  <2>2. Moved /\ w = [v EXCEPT !.fate = "open"]
    BY <2>1, <1>b, Zenon
  <2>3. w.running = v.running
    BY <2>2, <1>v DEF Views
  <2>4. ViewStep(v, w)
    BY <2>1, <2>2, Zenon DEF ViewStep
  <2> QED BY <2>2, <2>3, <2>4
<1>3. CASE Contract!Withdraw(j)
  <2>1. v.fate = "open" /\ Contract!Become(j, [v EXCEPT !.fate = "withdrawn"])
    BY <1>3, Zenon DEF Contract!Withdraw, v
  <2>2. Moved /\ w = [v EXCEPT !.fate = "withdrawn"]
    BY <2>1, <1>b, Zenon
  <2>3. w.running = v.running
    BY <2>2, <1>v DEF Views
  <2>4. ViewStep(v, w)
    BY <2>1, <2>2, Zenon DEF ViewStep
  <2> QED BY <2>2, <2>3, <2>4
<1>4. CASE Contract!Dispatch(j)
  <2>1. v.fate = "open" /\ Contract!Become(j, [v EXCEPT !.fate = "dispatched"])
    BY <1>4, Zenon DEF Contract!Dispatch, v
  <2>2. Moved /\ w = [v EXCEPT !.fate = "dispatched"]
    BY <2>1, <1>b, Zenon
  <2>3. w.running = v.running
    BY <2>2, <1>v DEF Views
  <2>4. ViewStep(v, w)
    BY <2>1, <2>2, Zenon DEF ViewStep
  <2> QED BY <2>2, <2>3, <2>4
<1>5. ASSUME NEW c \in {"compiler", "worker"}, Contract!Begin(j, c)
      PROVE  Moved /\ ViewStep(v, w) /\ (NoneRuns \/ w.running \in {v.running, "none"})
  <2>1. /\ v.fate = "dispatched" /\ v.verdict = "none" /\ c \notin v.begun
        /\ c = "worker" => v.found["compiler"] = "captured"
        /\ NoneRuns
        /\ Contract!Become(j, [v EXCEPT !.begun = @ \cup {c}, !.running = c])
    BY <1>5, Zenon DEF Contract!Begin, v, NoneRuns
  <2> QED BY <2>1, <1>b, <1>v, Zenon DEF ViewStep
<1>6. ASSUME NEW c \in {"compiler", "worker"}, NEW seen \in Observations,
             Contract!Return(j, c, seen)
      PROVE  Moved /\ ViewStep(v, w) /\ (NoneRuns \/ w.running \in {v.running, "none"})
  <2>1. /\ v.running = c
        /\ Contract!Become(j, [v EXCEPT !.running = "none", !.found[c] = seen])
    BY <1>6, Zenon DEF Contract!Return, v
  <2>2. Moved /\ w = [v EXCEPT !.running = "none", !.found[c] = seen]
    BY <2>1, <1>b, Zenon
  <2>3. w.running = "none"
    BY <2>2, <1>v DEF Views
  <2>4. ViewStep(v, w)
    BY <2>1, <2>2, Zenon DEF ViewStep
  <2> QED BY <2>2, <2>3, <2>4
<1>7. CASE Contract!Lose(j)
  <2>1. Contract!Become(j, [v EXCEPT !.running = "none"])
    BY <1>7, Zenon DEF Contract!Lose, v
  <2>2. Moved /\ w = [v EXCEPT !.running = "none"]
    BY <2>1, <1>b, Zenon
  <2>3. w.running = "none"
    BY <2>2, <1>v DEF Views
  <2>4. ViewStep(v, w)
    BY <2>1, <2>2, Zenon DEF ViewStep
  <2> QED BY <2>2, <2>3, <2>4
<1>8. CASE Contract!Conclude(j)
  <2>1. PICK as : /\ v.verdict = "none"
                  /\ as = [v EXCEPT !.verdict = IF v.found["worker"] = "captured"
                                                THEN "adjudicated" ELSE "remanded",
                                    !.running = "none"]
                  /\ Contract!Become(j, as)
    BY <1>8, Zenon DEF Contract!Conclude, v
  <2>0. Contract!Become(j, as)
    BY <2>1, Zenon
  <2>2. Moved /\ w = as
    BY <2>0, <1>b, Zenon
  <2>3. w.running = "none"
    BY <2>1, <2>2, <1>v DEF Views
  <2>4. ViewStep(v, w)
    BY <2>1, <2>2, Zenon DEF ViewStep
  <2> QED BY <2>2, <2>3, <2>4
<1>9. CASE Contract!Offer(j)
  <2>1. /\ v.verdict # "none" /\ v.told = "none"
        /\ Contract!Become(j, [v EXCEPT !.told = "OFFERED"])
    BY <1>9, Zenon DEF Contract!Offer, v
  <2>2. Moved /\ w = [v EXCEPT !.told = "OFFERED"]
    BY <2>1, <1>b, Zenon
  <2>3. w.running = v.running
    BY <2>2, <1>v DEF Views
  <2>4. ViewStep(v, w)
    BY <2>1, <2>2, Zenon DEF ViewStep
  <2> QED BY <2>2, <2>3, <2>4
<1>10. CASE Contract!Acknowledge(j)
  <2>1. v.told = "OFFERED" /\ Contract!Become(j, [v EXCEPT !.told = "ACKNOWLEDGED"])
    BY <1>10, Zenon DEF Contract!Acknowledge, v
  <2>2. Moved /\ w = [v EXCEPT !.told = "ACKNOWLEDGED"]
    BY <2>1, <1>b, Zenon
  <2>3. w.running = v.running
    BY <2>2, <1>v DEF Views
  <2>4. ViewStep(v, w)
    BY <2>1, <2>2, Zenon DEF ViewStep
  <2> QED BY <2>2, <2>3, <2>4
<1> QED
  BY <1>2, <1>3, <1>4, <1>5, <1>6, <1>7, <1>8, <1>9, <1>10, Zenon
  DEF Contract!Step, Contract!Children, Contract!Observations, Observations

\* The contract's soundness, view by view.
SoundViews ==
    /\ \A j \in Jobs : SoundView(JobView(j))
    /\ \A i, j \in Jobs :
          JobView(i).running # "none" /\ JobView(j).running # "none" => i = j

LEMMA SoundIsByView == Contract!Sound <=> SoundViews
BY Zenon DEF Contract!Sound, Contract!JobIsSound, Contract!Children, SoundViews, SoundView

LEMMA SoundInitially == Contract!Init => SoundViews
BY DEF Contract!Init, Contract!Fresh, Contract!Children, SoundViews, SoundView

\* After a step of the contract every view is sound and one child runs.
LEMMA SoundAfterStep ==
    ASSUME IInv, SoundViews, [Contract!Next]_(Contract!vars)
    PROVE  SoundViews' /\ \A j \in Jobs : Stands(JobView(j), JobView(j)')
<1>1. CASE Contract!Next
  <2>1. PICK j \in Jobs : Contract!Step(j)
    BY <1>1, Zenon DEF Contract!Next
  <2>2. /\ \A i \in Jobs \ {j} : JobView(i)' = JobView(i)
        /\ ViewStep(JobView(j), JobView(j)')
        /\ \/ \A i \in Jobs : JobView(i).running = "none"
           \/ JobView(j)'.running \in {JobView(j).running, "none"}
    BY <2>1, StepOfView
  <2>3. SoundView(JobView(j)') /\ Stands(JobView(j), JobView(j)')
    BY <2>2, SoundStep, ViewTyped, Zenon DEF SoundViews
  <2>4. \A i \in Jobs : SoundView(JobView(i)')
    BY <2>2, <2>3, Zenon DEF SoundViews
  <2>5. \A i \in Jobs : Stands(JobView(i), JobView(i)')
    BY <2>2, <2>3 DEF Stands
  <2>6. \A i, k \in Jobs :
           JobView(i)'.running # "none" /\ JobView(k)'.running # "none" => i = k
    BY <2>2 DEF SoundViews
  <2> QED BY <2>4, <2>5, <2>6, Zenon DEF SoundViews
<1>2. CASE UNCHANGED Contract!vars
  <2>1. \A j \in Jobs : JobView(j)' = JobView(j)
    BY <1>2, Zenon DEF Contract!vars
  <2>2. \A i \in Jobs : Stands(JobView(i), JobView(i)')
    BY <2>1 DEF Stands
  <2> QED BY <2>1, <2>2, Zenon DEF SoundViews
<1> QED BY <1>1, <1>2

-----------------------------------------------------------------------------
(* What a client of the commissioning host may rely on *)

\* Whatever crashes between which commits: nothing is begun for a job that was
\* not dispatched, the worker only on what the compiler returned, one child
\* runs at a time, a kept observation is of a child that was begun, a job is
\* adjudicated exactly when its worker's work was kept, and only a concluded
\* job is told (commissioning-coordinator.js runJob, finish, publish).
THEOREM JobsStaySound == Spec => []Contract!Sound
<1>1. Spec => []IInv /\ Contract!Spec
  BY HostKeepsContract, Invariance DEF KeepsJobContract
<1>2. Contract!Init => SoundViews
  BY SoundInitially
<1>3. IInv /\ SoundViews /\ [Contract!Next]_(Contract!vars) => SoundViews'
  BY SoundAfterStep
<1> QED BY <1>1, <1>2, <1>3, SoundIsByView, PTL DEF Contract!Spec

\* A withdrawn or dispatched job stays so, what a child returned and what was
\* begun stay on record, a verdict is final and an acknowledged outcome stays
\* acknowledged, across restarts too (commissioning-coordinator.js open, drive,
\* finish; commissioning-daemon.js acknowledge).
THEOREM DecisionsHold == Spec => Contract!DecisionsStand
<1> DEFINE Stand == \A j \in Jobs : Stands(JobView(j), JobView(j)')
<1>1. Spec => []IInv /\ Contract!Spec
  BY HostKeepsContract, Invariance DEF KeepsJobContract
<1>2. Contract!Init => SoundViews
  BY SoundInitially
<1>3. IInv /\ SoundViews /\ [Contract!Next]_(Contract!vars) => SoundViews' /\ Stand
  BY SoundAfterStep
<1>4. Spec => [][Stand]_(Contract!vars)
  <2> HIDE DEF Stand
  <2> QED BY <1>1, <1>2, <1>3, PTL DEF Contract!Spec
<1>5. Stand => Contract!AllStand
  BY Zenon DEF Stands, Contract!AllStand, Contract!Stands, Contract!Children
<1> QED BY <1>4, <1>5, PTL DEF Contract!DecisionsStand
=============================================================================
