--------------------------- MODULE JobStore_proofs --------------------------
(***************************************************************************)
(* What JobStore promises for every set of callers, results and requests,  *)
(* and for each backend.                                                   *)
(*                                                                         *)
(* TypeOK holds whatever is called.  The rest holds as long as every write *)
(* is conditional: restart() and update() write what they read without     *)
(* looking again, and the run worker_overtaken shows a committed result    *)
(* lost to one of them.                                                    *)
(***************************************************************************)
EXTENDS JobStore, TLAPS

ConditionalOnly == \A req \in Issued : req.op \notin BlindOps

-----------------------------------------------------------------------------
(* Requests.                                                               *)

Ops == {"startPhase", "restart", "finishFailed", "remove", "reportProgress", "finish", "update"}

LEMMA RequestFields ==
    ASSUME NEW req \in Request
    PROVE  /\ req.op \in Ops
           /\ req.op = "startPhase" => req.phase \in Phases
           /\ req.op = "reportProgress" => req.phase \in Phases /\ req.current \in Progress
           /\ req.op = "finish" => req.result \in Results
           /\ req.op = "update" => req.patch \in {"audioReleased", "audioKept", "attemptNoted"}
BY DEF Request, Ops

LEMMA NoRequestApart == NoRequest \notin Request
<1>1. SUFFICES ASSUME NoRequest \in Request PROVE FALSE
  OBVIOUS
<1>2. NoRequest.op \in Ops
  BY <1>1, RequestFields
<1> QED
  BY <1>2 DEF NoRequest, Ops

(* Every operation makes a record of a record, newer by one, and keeps its *)
(* type.                                                                   *)
LEMMA NextVersion == ASSUME NEW j \in Job PROVE j.version \in Nat /\ j.version + 1 \in Nat
BY DEF Job

LEMMA PhaseStartedRecord ==
    ASSUME NEW j \in Job, NEW p \in Phases
    PROVE  /\ PhaseStarted(j, p) \in Job
           /\ PhaseStarted(j, p).version = j.version + 1
           /\ PhaseStarted(j, p).type = j.type
<1>1. PhaseStarted(j, p) \in Job
  <2>1. ASSUME NEW s \in Statuses, NEW q \in Phases \cup {NoPhase},
               NEW n \in Progress \cup {NoProgress}, NEW v \in Nat
        PROVE  [j EXCEPT !.status = s, !.phase = q, !.progress = n, !.version = v] \in Job
    BY DEF Job
  <2>2. /\ "processing" \in Statuses /\ p \in Phases \cup {NoPhase}
        /\ NoProgress \in Progress \cup {NoProgress} /\ j.version + 1 \in Nat
    BY NextVersion DEF Statuses
  <2>3. [j EXCEPT !.status = "processing", !.phase = p, !.progress = NoProgress,
                  !.version = j.version + 1] \in Job
    BY <2>1, <2>2
  <2> QED
    BY <2>3 DEF PhaseStarted
<1>2. PhaseStarted(j, p).version = j.version + 1 /\ PhaseStarted(j, p).type = j.type
  BY DEF PhaseStarted, Job
<1> QED
  BY <1>1, <1>2

LEMMA FinishedRecord ==
    ASSUME NEW j \in Job, NEW s \in TERMINAL, NEW r \in Results \cup {NoResult}
    PROVE  /\ Finished(j, s, r) \in Job
           /\ Finished(j, s, r).version = j.version + 1
           /\ Finished(j, s, r).type = j.type
<1> DEFINE kept == IF s = "completed" THEN r ELSE j.result
<1>1. Finished(j, s, r) \in Job
  <2>1. ASSUME NEW q \in Phases \cup {NoPhase}, NEW n \in Progress \cup {NoProgress},
               NEW t \in Statuses, NEW u \in Results \cup {NoResult}, NEW v \in Nat
        PROVE  [j EXCEPT !.status = t, !.phase = q, !.progress = n, !.result = u, !.version = v] \in Job
    BY DEF Job
  <2>2. /\ s \in Statuses /\ kept \in Results \cup {NoResult} /\ NoPhase \in Phases \cup {NoPhase}
        /\ NoProgress \in Progress \cup {NoProgress} /\ j.version + 1 \in Nat
    BY NextVersion DEF Statuses, TERMINAL, Job
  <2>3. Finished(j, s, r) =
          [j EXCEPT !.status = s, !.phase = NoPhase, !.progress = NoProgress, !.result = kept,
                    !.version = j.version + 1]
    BY DEF Finished
  <2> HIDE DEF kept
  <2>4. [j EXCEPT !.status = s, !.phase = NoPhase, !.progress = NoProgress, !.result = kept,
                  !.version = j.version + 1] \in Job
    BY <2>1, <2>2
  <2> QED
    BY <2>3, <2>4
<1>2. Finished(j, s, r).version = j.version + 1 /\ Finished(j, s, r).type = j.type
  BY DEF Finished, Job
<1> QED
  BY <1>1, <1>2

LEMMA UpdatedRecord ==
    ASSUME NEW j \in Job, NEW k \in {AudioReleased(j), AudioKept(j), AttemptNoted(j)}
    PROVE  k \in Job /\ k.version = j.version + 1 /\ k.type = j.type
<1>1. AudioReleased(j) \in Job /\ AudioKept(j) \in Job /\ AttemptNoted(j) \in Job
  <2>1. j.version + 1 \in Nat
    BY NextVersion
  <2>2. /\ [j EXCEPT !.audioKey = FALSE, !.cleanup = FALSE, !.version = j.version + 1] \in Job
        /\ [j EXCEPT !.audioKey = TRUE, !.cleanup = TRUE, !.version = j.version + 1] \in Job
        /\ [j EXCEPT !.version = j.version + 1] \in Job
    BY <2>1 DEF Job
  <2> QED
    BY <2>2 DEF AudioReleased, AudioKept, AttemptNoted
<1>2. k.version = j.version + 1 /\ k.type = j.type
  BY DEF AudioReleased, AudioKept, AttemptNoted, Job
<1> QED
  BY <1>1, <1>2

LEMMA FinishArguments ==
    ASSUME NEW req \in Request, req.op \in {"finish", "finishFailed"}
    PROVE  finishStatus(req) \in TERMINAL /\ finishResult(req) \in Results \cup {NoResult}
BY RequestFields DEF finishStatus, finishResult, TERMINAL

LEMMA PatchedRecord ==
    ASSUME NEW j \in Job, NEW req \in Request, req.op \notin {"reportProgress", "remove"}
    PROVE  /\ Patched(j, req) \in Job
           /\ Patched(j, req).version = j.version + 1
           /\ Patched(j, req).type = j.type
<1>1. CASE req.op = "startPhase"
  <2>1. Patched(j, req) = PhaseStarted(j, req.phase)
    BY <1>1 DEF Patched
  <2> QED
    BY <1>1, <2>1, PhaseStartedRecord, RequestFields
<1>2. CASE req.op = "restart"
  <2>1. Patched(j, req) = PhaseStarted(j, "validating")
    BY <1>2 DEF Patched, Restarted
  <2> QED
    BY <2>1, PhaseStartedRecord DEF Phases
<1>3. CASE req.op \in {"finish", "finishFailed"}
  <2>1. Patched(j, req) = Finished(j, finishStatus(req), finishResult(req))
    BY <1>3 DEF Patched
  <2> QED
    BY <1>3, <2>1, FinishedRecord, FinishArguments
<1>4. CASE req.op = "update"
  <2>1. Patched(j, req) \in {AudioReleased(j), AudioKept(j), AttemptNoted(j)}
    BY <1>4 DEF Patched
  <2> QED
    BY <2>1, UpdatedRecord
<1> QED
  BY <1>1, <1>2, <1>3, <1>4, RequestFields DEF Ops

LEMMA RefusalReplies ==
    ASSUME NEW j \in Job, NEW req \in Request
    PROVE  Seen(req, Refusal(j, req)) \in Replies
<1>1. /\ restartRefusal(j) \in Replies
      /\ \A p : startPhaseRefusal(j, p) \in Replies
      /\ \A s, r : finishRefusal(j, s, r) \in Replies
  BY DEF startPhaseRefusal, restartRefusal, finishRefusal, assertConsistentJobRecord, Replies
<1>2. Refusal(j, req) \in Replies
  BY <1>1 DEF Refusal, Replies
<1> QED
  BY <1>2 DEF Seen, Replies

LEMMA IdempotentReplies ==
    ASSUME NEW j \in Job, NEW s, NEW r
    PROVE  idempotentiskasAtsakymas(j, s, r) \in Replies \cup {"undefined"}
BY DEF idempotentiskasAtsakymas, Replies

LEMMA ProgressedRecord ==
    ASSUME NEW j \in Job, NEW req \in Request, req.op = "reportProgress"
    PROVE  /\ Progressed(j, req) \in Job
           /\ Progressed(j, req).version = j.version + 1
<1>1. req.current \in Progress \cup {NoProgress}
  <2>1. req.op = "reportProgress" => req.current \in Progress
    BY RequestFields
  <2> QED
    BY <2>1
<1>2. Progressed(j, req) \in Job
  <2>1. ASSUME NEW n \in Progress \cup {NoProgress}, NEW v \in Nat
        PROVE  [j EXCEPT !.progress = n, !.version = v] \in Job
    BY DEF Job
  <2> QED
    BY <1>1, <2>1, NextVersion DEF Progressed
<1>3. Progressed(j, req).version = j.version + 1
  BY DEF Progressed, Job
<1> QED
  BY <1>2, <1>3

LEMMA NewRecord == newJob(JobType) \in Job
<1>1. JobType \in JobTypes /\ NoProgress \in Progress \cup {NoProgress} /\ NoPhase \in Phases \cup {NoPhase}
  BY CallersAssumption
<1> QED
  BY <1>1 DEF newJob, Job, Statuses

-----------------------------------------------------------------------------
(* TypeOK is inductive together with the shape of a call: which step can   *)
(* be next for which operation, and that a write built on a read has one.  *)

FinishOps == {"finish", "finishFailed"}

Call0 == [at : Steps, req : Request \cup {NoRequest}, snap : Job \cup {NoJob},
          tries : 0 .. 2, reply : Replies]

Conditional(req) == req.op = "startPhase" \/ (req.op \in FinishOps /\ Backend = "redis")

Shape(call) ==
    /\ call.at \in {"barrier", "read", "reread", "write", "reclassify"} => call.req \in Request
    /\ call.at = "barrier" => call.req.op # "remove"
    /\ call.at = "read" => call.req.op \in {"startPhase", "restart", "reportProgress"} \cup FinishOps
    /\ call.at = "reread" => call.req.op \in BlindOps
    /\ call.at = "reclassify" => call.req.op \in FinishOps
    /\ (call.at = "write" /\ (Conditional(call.req) \/ (call.req.op \in BlindOps /\ Backend # "memory")))
         => call.snap \in Job

TypeInv == TypeOK /\ \A c \in Callers : Shape(calls[c])

(* One step of one call replaces that call; the rest of the state keeps    *)
(* its type.                                                               *)
LEMMA CallStep ==
    ASSUME TypeInv, NEW c \in Callers, NEW call \in Call0, Shape(call),
           calls' = [calls EXCEPT ![c] = call],
           job' \in Job \cup {NoJob}, marked' \in BOOLEAN, acked' \subseteq Results
    PROVE  TypeInv'
<1>1. calls \in [Callers -> Call0]
  BY DEF TypeInv, TypeOK, Call0
<1>2. calls' \in [Callers -> Call0]
  BY <1>1
<1>3. \A d \in Callers : Shape(calls'[d])
  BY <1>1 DEF TypeInv
<1>4. TypeOK'
  BY <1>2 DEF TypeOK, Call0
<1> QED
  BY <1>3, <1>4 DEF TypeInv, Shape, Conditional

(* The ways to move a call along.                                          *)
LEMMA GotoMove ==
    ASSUME TypeInv, NEW c \in Callers, NEW step \in Steps, Goto(c, step)
    PROVE  \E call \in Call0 :
              /\ calls' = [calls EXCEPT ![c] = call]
              /\ call.at = step /\ call.req = calls[c].req /\ call.snap = calls[c].snap
<1> DEFINE call == [calls[c] EXCEPT !.at = step]
<1>1. calls \in [Callers -> Call0]
  BY DEF TypeInv, TypeOK, Call0
<1>2. call \in Call0 /\ call.at = step /\ call.req = calls[c].req /\ call.snap = calls[c].snap
  BY <1>1 DEF Call0
<1>3. calls' = [calls EXCEPT ![c] = call]
  BY <1>1 DEF Goto
<1> QED
  BY <1>2, <1>3

LEMMA AnswerMove ==
    ASSUME TypeInv, NEW c \in Callers, NEW reply \in Replies, Answer(c, reply)
    PROVE  \E call \in Call0 :
              /\ calls' = [calls EXCEPT ![c] = call]
              /\ call.at = "done" /\ call.req = calls[c].req /\ call.snap = calls[c].snap
<1> DEFINE call == [calls[c] EXCEPT !.at = "done", !.reply = reply]
<1>1. calls \in [Callers -> Call0]
  BY DEF TypeInv, TypeOK, Call0
<1>2. call \in Call0 /\ call.at = "done" /\ call.req = calls[c].req /\ call.snap = calls[c].snap
  BY <1>1 DEF Call0, Steps
<1>3. calls' = [calls EXCEPT ![c] = call]
  BY <1>1 DEF Answer
<1> QED
  BY <1>2, <1>3

LEMMA SnapshotMove ==
    ASSUME TypeInv, NEW c \in Callers, NEW step \in Steps, Snapshot(c, step)
    PROVE  \E call \in Call0 :
              /\ calls' = [calls EXCEPT ![c] = call]
              /\ call.at = step /\ call.req = calls[c].req /\ call.snap = job
<1> DEFINE call == [calls[c] EXCEPT !.at = step, !.snap = job]
<1>1. calls \in [Callers -> Call0] /\ job \in Job \cup {NoJob}
  BY DEF TypeInv, TypeOK, Call0
<1>2. call \in Call0 /\ call.at = step /\ call.req = calls[c].req /\ call.snap = job
  BY <1>1 DEF Call0
<1>3. calls' = [calls EXCEPT ![c] = call]
  BY <1>1 DEF Snapshot
<1> QED
  BY <1>2, <1>3

(* An answer ends the call, whatever it is.                                *)
LEMMA AnswerTypeInv ==
    ASSUME TypeInv, NEW c \in Callers, NEW reply \in Replies, Answer(c, reply),
           job' \in Job \cup {NoJob}, marked' = marked, acked' \subseteq Results
    PROVE  TypeInv'
<1>1. PICK call \in Call0 : calls' = [calls EXCEPT ![c] = call] /\ call.at = "done"
  BY AnswerMove
<1>2. Shape(call)
  BY <1>1 DEF Shape
<1>3. marked' \in BOOLEAN
  BY DEF TypeInv, TypeOK
<1> QED
  BY <1>1, <1>2, <1>3, CallStep

LEMMA AckType ==
    ASSUME TypeInv, NEW c \in Callers, calls[c].req \in Request, Ack(c)
    PROVE  acked' \subseteq Results
<1>1. calls[c].req.op = "finish" => calls[c].req.result \in Results
  BY RequestFields
<1> QED
  BY <1>1 DEF Ack, TypeInv, TypeOK

LEMMA RecordInView ==
    ASSUME TypeInv, job # NoJob
    PROVE  job \in Job
BY DEF TypeInv, TypeOK

LEMMA ReadTypeInv ==
    ASSUME TypeInv, NEW c \in Callers, Read(c)
    PROVE  TypeInv'
<1> DEFINE req == calls[c].req
           answer == idempotentiskasAtsakymas(job, "completed", req.result)
           after == IF req.op = "restart" /\ Backend # "memory" THEN "reread" ELSE "write"
<1>1. req \in Request /\ req.op \in {"startPhase", "restart", "reportProgress"} \cup FinishOps
  BY DEF Read, TypeInv, Shape
<1>2. job' \in Job \cup {NoJob} /\ marked' = marked /\ acked \subseteq Results
  BY DEF Read, TypeInv, TypeOK
<1>3. acked' \subseteq Results
  BY <1>1, <1>2, AckType DEF Read
<1>4. CASE \E reply \in Replies : Answer(c, reply)
  BY <1>2, <1>3, <1>4, AnswerTypeInv
<1>5. CASE job # NoJob /\ Snapshot(c, after)
  <2>1. PICK call \in Call0 : /\ calls' = [calls EXCEPT ![c] = call]
                              /\ call.at = after /\ call.req = req /\ call.snap = job
    BY <1>5, SnapshotMove DEF Steps
  <2>2. Shape(call)
    BY <1>1, <1>5, <2>1, RecordInView DEF Shape, Conditional, BlindOps, FinishOps
  <2>3. marked' \in BOOLEAN
    BY <1>2 DEF TypeInv, TypeOK
  <2> QED
    BY <1>2, <1>3, <2>1, <2>2, <2>3, CallStep
<1>6. CASE req.op = "reportProgress" /\ job # NoJob
  <2>1. Snapshot(c, "write") \/ Answer(c, "ok")
    BY <1>6 DEF Read
  <2> QED
    BY <1>4, <1>5, <1>6, <2>1 DEF Replies
<1>7. CASE req.op # "reportProgress" /\ job # NoJob
  <2>1. CASE req.op = "finish" /\ answer # "undefined"
    <3>1. Answer(c, answer)
      BY <1>7, <2>1 DEF Read
    <3> QED
      BY <1>4, <1>7, <2>1, <3>1, IdempotentReplies, RecordInView
  <2>2. CASE ~ (req.op = "finish" /\ answer # "undefined")
    <3>1. Answer(c, Seen(req, Refusal(job, req))) \/ Snapshot(c, after)
      BY <1>7, <2>2 DEF Read
    <3> QED
      BY <1>1, <1>4, <1>5, <1>7, <3>1, RefusalReplies, RecordInView
  <2> QED
    BY <2>1, <2>2
<1>8. CASE job = NoJob
  <2>1. Answer(c, "null")
    BY <1>8 DEF Read
  <2> QED
    BY <1>4, <2>1 DEF Replies
<1> QED
  BY <1>6, <1>7, <1>8

(* A step that leaves the record of every other call alone and moves this  *)
(* one without touching its request.                                       *)
LEMMA GotoTypeInv ==
    ASSUME TypeInv, NEW c \in Callers, NEW step \in Steps, Goto(c, step),
           UNCHANGED <<job, marked, acked>>,
           \A call \in Call0 : (/\ call.at = step
                                /\ call.req = calls[c].req
                                /\ call.snap = calls[c].snap) => Shape(call)
    PROVE  TypeInv'
<1>1. PICK call \in Call0 : /\ calls' = [calls EXCEPT ![c] = call]
                            /\ call.at = step /\ call.req = calls[c].req
                            /\ call.snap = calls[c].snap
  BY GotoMove
<1>2. Shape(call)
  BY <1>1
<1>3. job' \in Job \cup {NoJob} /\ marked' \in BOOLEAN /\ acked' \subseteq Results
  BY DEF TypeInv, TypeOK
<1> QED
  BY <1>1, <1>2, <1>3, CallStep

LEMMA BarrierTypeInv ==
    ASSUME TypeInv, NEW c \in Callers, Barrier(c)
    PROVE  TypeInv'
<1> DEFINE req == calls[c].req
           next == CASE req.op \in {"startPhase", "restart", "reportProgress"} -> "read"
                     [] req.op \in {"finish", "finishFailed"} ->
                           IF Backend = "redis" THEN "read" ELSE "write"
                     [] req.op = "update" ->
                           IF Backend = "memory" THEN "write" ELSE "reread"
<1>1. req \in Request /\ req.op \in Ops /\ req.op # "remove"
  BY RequestFields DEF Barrier, TypeInv, Shape
<1>2. CASE marked
  <2>1. Answer(c, "null") /\ UNCHANGED <<job, marked, acked>>
    BY <1>2 DEF Barrier
  <2>2. job' \in Job \cup {NoJob} /\ acked' \subseteq Results
    BY <2>1 DEF TypeInv, TypeOK
  <2> QED
    BY <2>1, <2>2, AnswerTypeInv DEF Replies
<1>3. CASE ~marked
  <2>1. Goto(c, next) /\ UNCHANGED <<job, marked, acked>>
    BY <1>3 DEF Barrier
  <2>2. /\ next \in {"read", "reread", "write"}
        /\ next = "read" => req.op \in {"startPhase", "restart", "reportProgress"} \cup FinishOps
        /\ next = "reread" => req.op \in BlindOps
        /\ next = "write" => \/ req.op \in FinishOps /\ Backend # "redis"
                             \/ req.op = "update" /\ Backend = "memory"
    BY <1>1 DEF Ops, FinishOps, BlindOps
  <2>3. next \in Steps
    BY <2>2 DEF Steps
  <2>4. ASSUME NEW call \in Call0, call.at = next, call.req = req
        PROVE  Shape(call)
    BY <1>1, <2>2, <2>4 DEF Shape, Conditional, FinishOps, BlindOps
  <2> HIDE DEF next
  <2> QED
    BY <2>1, <2>3, <2>4, GotoTypeInv
<1> QED
  BY <1>2, <1>3

LEMMA RereadTypeInv ==
    ASSUME TypeInv, NEW c \in Callers, Reread(c)
    PROVE  TypeInv'
<1>1. /\ calls[c].req \in Request
      /\ job' \in Job \cup {NoJob} /\ marked' = marked /\ marked' \in BOOLEAN /\ acked' \subseteq Results
  BY DEF Reread, TypeInv, TypeOK, Shape
<1>2. CASE job = NoJob
  <2>1. Answer(c, "null")
    BY <1>2 DEF Reread
  <2> QED
    BY <1>1, <2>1, AnswerTypeInv DEF Replies
<1>3. CASE job # NoJob
  <2>1. Snapshot(c, "write")
    BY <1>3 DEF Reread
  <2>2. PICK call \in Call0 : /\ calls' = [calls EXCEPT ![c] = call]
                              /\ call.at = "write" /\ call.req = calls[c].req /\ call.snap = job
    BY <2>1, SnapshotMove DEF Steps
  <2>3. Shape(call)
    BY <1>1, <1>3, <2>2, RecordInView DEF Shape
  <2> QED
    BY <1>1, <2>2, <2>3, CallStep
<1> QED
  BY <1>2, <1>3

LEMMA WriteCasTypeInv ==
    ASSUME TypeInv, NEW c \in Callers, WriteCas(c)
    PROVE  TypeInv'
<1> DEFINE req == calls[c].req
<1>1. /\ req \in Request /\ Conditional(req) /\ calls[c].snap \in Job
      /\ req.op \notin {"reportProgress", "remove"}
      /\ marked' = marked /\ job \in Job \cup {NoJob} /\ acked \subseteq Results
  BY DEF WriteCas, TypeInv, TypeOK, Shape, Conditional, FinishOps
<1>2. job' \in Job \cup {NoJob} /\ acked' \subseteq Results
  BY <1>1, PatchedRecord, AckType DEF WriteCas
<1>3. CASE \E reply \in Replies : Answer(c, reply)
  BY <1>1, <1>2, <1>3, AnswerTypeInv
<1>4. CASE Goto(c, "reclassify") /\ req.op # "startPhase" /\ UNCHANGED <<job, acked>>
  <2>1. ASSUME NEW call \in Call0, call.at = "reclassify", call.req = req
        PROVE  Shape(call)
    BY <1>1, <1>4, <2>1 DEF Shape, Conditional
  <2> QED
    BY <1>1, <1>4, <2>1, GotoTypeInv DEF Steps
<1> QED
  BY <1>3, <1>4 DEF WriteCas, Replies

LEMMA ReclassifyTypeInv ==
    ASSUME TypeInv, NEW c \in Callers, Reclassify(c)
    PROVE  TypeInv'
<1> DEFINE req == calls[c].req
           answer == idempotentiskasAtsakymas(job, "completed", req.result)
           again == [calls[c] EXCEPT !.at = "read", !.tries = calls[c].tries + 1]
<1>1. /\ req \in Request /\ req.op \in FinishOps
      /\ job' \in Job \cup {NoJob} /\ marked' = marked /\ marked' \in BOOLEAN /\ acked \subseteq Results
      /\ calls \in [Callers -> Call0]
  BY DEF Reclassify, TypeInv, TypeOK, Shape, Call0
<1>2. acked' \subseteq Results
  BY <1>1, AckType DEF Reclassify
<1>3. CASE \E reply \in Replies : Answer(c, reply)
  BY <1>1, <1>2, <1>3, AnswerTypeInv
<1>4. CASE calls' = [calls EXCEPT ![c].at = "read", ![c].tries = @ + 1] /\ ~LastTry(c)
  <2>1. calls[c].tries \in 0 .. 1
    BY <1>1, <1>4 DEF Call0, LastTry
  <2>2. again \in Call0 /\ again.at = "read" /\ again.req = req
    <3>1. ASSUME NEW n \in 0 .. 2, NEW step \in Steps
          PROVE  [calls[c] EXCEPT !.at = step, !.tries = n] \in Call0
      BY <1>1 DEF Call0
    <3>2. calls[c].tries + 1 \in 0 .. 2 /\ "read" \in Steps
      BY <2>1 DEF Steps
    <3>3. again \in Call0
      BY <3>1, <3>2
    <3>4. again.at = "read" /\ again.req = req
      BY <1>1 DEF Call0
    <3> QED
      BY <3>3, <3>4
  <2>3. calls' = [calls EXCEPT ![c] = again]
    BY <1>1, <1>4
  <2>4. Shape(again)
    BY <1>1, <2>2 DEF Shape, FinishOps
  <2> QED
    BY <1>1, <1>2, <2>2, <2>3, <2>4, CallStep
<1>5. CASE job # NoJob /\ req.op = "finish"
  <2>1. Answer(c, IF answer = "undefined" THEN "CONCURRENCY_CONFLICT" ELSE answer)
    BY <1>5 DEF Reclassify
  <2>2. answer \in Replies \cup {"undefined"}
    BY <1>5, IdempotentReplies, RecordInView
  <2> QED
    BY <1>3, <2>1, <2>2 DEF Replies
<1>6. CASE job # NoJob /\ req.op # "finish"
  BY <1>3, <1>4, <1>6 DEF Reclassify, Replies
<1>7. CASE job = NoJob
  BY <1>3, <1>7 DEF Reclassify, Replies
<1> QED
  BY <1>5, <1>6, <1>7

LEMMA WriteFinishTypeInv ==
    ASSUME TypeInv, NEW c \in Callers, WriteFinish(c)
    PROVE  TypeInv'
<1> DEFINE req == calls[c].req
           answer == idempotentiskasAtsakymas(job, finishStatus(req), finishResult(req))
<1>1. /\ req \in Request /\ req.op \in FinishOps /\ req.op \notin {"reportProgress", "remove"}
      /\ marked' = marked /\ job \in Job \cup {NoJob} /\ acked \subseteq Results
  BY DEF WriteFinish, TypeInv, TypeOK, Shape, FinishOps
<1>2. job' \in Job \cup {NoJob} /\ acked' \subseteq Results
  BY <1>1, PatchedRecord, AckType DEF WriteFinish
<1>3. ASSUME job \in Job PROVE answer \in Replies \cup {"undefined"} /\ Seen(req, Refusal(job, req)) \in Replies
  BY <1>1, <1>3, IdempotentReplies, RefusalReplies
<1>4. \E reply \in Replies : Answer(c, reply)
  <2>1. CASE job = NoJob
    BY <2>1 DEF WriteFinish, Replies
  <2>2. CASE job # NoJob /\ answer # "undefined"
    BY <1>3, <2>2, RecordInView DEF WriteFinish
  <2>3. CASE job # NoJob /\ answer = "undefined"
    BY <1>3, <2>3, RecordInView DEF WriteFinish, Replies
  <2> QED
    BY <2>1, <2>2, <2>3
<1> QED
  BY <1>1, <1>2, <1>4, AnswerTypeInv

LEMMA BlindRecord ==
    ASSUME TypeInv, NEW snap, NEW req \in Request, req.op \in BlindOps,
           Backend # "memory" => snap \in Job
    PROVE  BlindOutcome(snap, req) \in Job \cup {NoJob}
<1>1. req.op \notin {"reportProgress", "remove"}
  BY DEF BlindOps
<1>2. job \in Job \cup {NoJob}
  BY DEF TypeInv, TypeOK
<1>3. CASE Backend = "memory"
  BY <1>1, <1>2, <1>3, PatchedRecord DEF BlindOutcome
<1>4. CASE Backend # "memory"
  <2> DEFINE new == Patched(snap, req)
  <2>1. new \in Job
    BY <1>1, <1>4, PatchedRecord
  <2>2. job # NoJob => job.version + 1 \in Nat /\ job.result \in Results \cup {NoResult}
    BY <1>2, NextVersion DEF Job
  <2> HIDE DEF new
  <2>3. ASSUME NEW v \in Nat PROVE [new EXCEPT !.version = v] \in Job
    BY <2>1 DEF Job
  <2>5. ASSUME NEW v \in Nat, NEW r \in Results \cup {NoResult}
        PROVE  [new EXCEPT !.version = v, !.result = r] \in Job
    BY <2>1 DEF Job
  <2>4. BlindOutcome(snap, req) \in
          {NoJob} \cup {[new EXCEPT !.version = 1]}
                  \cup (IF job = NoJob THEN {}
                        ELSE {[new EXCEPT !.version = job.version + 1],
                              [new EXCEPT !.version = job.version + 1, !.result = job.result]})
    BY <1>4, CallersAssumption DEF BlindOutcome, new
  <2>6. CASE job = NoJob
    <3>1. [new EXCEPT !.version = 1] \in Job
      BY <2>3
    <3> QED
      BY <2>4, <2>6, <3>1
  <2>7. CASE job # NoJob
    <3>1. /\ [new EXCEPT !.version = 1] \in Job
          /\ [new EXCEPT !.version = job.version + 1] \in Job
          /\ [new EXCEPT !.version = job.version + 1, !.result = job.result] \in Job
      BY <2>2, <2>3, <2>5, <2>7
    <3> QED
      BY <2>4, <2>7, <3>1
  <2> QED
    BY <2>6, <2>7
<1> QED
  BY <1>3, <1>4

LEMMA WriteBlindTypeInv ==
    ASSUME TypeInv, NEW c \in Callers, WriteBlind(c)
    PROVE  TypeInv'
<1>1. /\ calls[c].req \in Request /\ calls[c].req.op \in BlindOps
      /\ Backend # "memory" => calls[c].snap \in Job
      /\ marked' = marked /\ acked' \subseteq Results
  BY DEF WriteBlind, TypeInv, TypeOK, Shape
<1>2. job' \in Job \cup {NoJob}
  BY <1>1, BlindRecord DEF WriteBlind
<1>3. \E reply \in Replies : Answer(c, reply)
  BY DEF WriteBlind, Replies
<1> QED
  BY <1>1, <1>2, <1>3, AnswerTypeInv

LEMMA WriteProgressTypeInv ==
    ASSUME TypeInv, NEW c \in Callers, WriteProgress(c)
    PROVE  TypeInv'
<1>1. /\ calls[c].req \in Request /\ calls[c].req.op = "reportProgress"
      /\ marked' = marked /\ acked' \subseteq Results /\ job \in Job \cup {NoJob}
  BY DEF WriteProgress, TypeInv, TypeOK, Shape
<1>2. job' \in Job \cup {NoJob}
  BY <1>1, ProgressedRecord DEF WriteProgress
<1>3. \E reply \in Replies : Answer(c, reply)
  BY DEF WriteProgress, Replies
<1> QED
  BY <1>1, <1>2, <1>3, AnswerTypeInv

LEMMA IdleTypeInv ==
    ASSUME TypeInv, NEW c \in Callers, NEW call \in {Idle} \cup {Call(req) : req \in Request},
           calls' = [calls EXCEPT ![c] = call], UNCHANGED <<job, marked, acked>>
    PROVE  TypeInv'
<1>1. job' \in Job \cup {NoJob} /\ marked' \in BOOLEAN /\ acked' \subseteq Results
  BY DEF TypeInv, TypeOK
<1>2. CASE call = Idle
  <2>1. Idle \in Call0 /\ Shape(Idle)
    BY DEF Idle, Call0, Shape, Steps, Replies
  <2> QED
    BY <1>1, <1>2, <2>1, CallStep
<1>3. ASSUME NEW req \in Request, call = Call(req) PROVE TypeInv'
  <2> DEFINE at0 == IF req.op = "remove" THEN "write" ELSE "barrier"
  <2>1. call = [at |-> at0, req |-> req, snap |-> NoJob, tries |-> 1, reply |-> "none"]
    BY <1>3 DEF Call, Idle
  <2>2. at0 \in Steps /\ "none" \in Replies /\ 1 \in 0 .. 2
    BY DEF Steps, Replies
  <2>3. call \in Call0
    BY <2>1, <2>2 DEF Call0
  <2>4. Shape(call)
    BY <2>1 DEF Shape, Conditional, FinishOps, BlindOps
  <2> QED
    BY <1>1, <1>3, <2>3, <2>4, CallStep
<1> QED
  BY <1>2, <1>3

LEMMA TypeInvInductive == TypeInv /\ [Next]_vars => TypeInv'
<1> SUFFICES ASSUME TypeInv, [Next]_vars PROVE TypeInv'
  OBVIOUS
<1>1. ASSUME NEW c \in Callers, Step(c) PROVE TypeInv'
  <2>1. CASE Remove(c)
    <3>1. job' \in Job \cup {NoJob} /\ marked' = marked /\ acked' \subseteq Results
      BY <2>1 DEF Remove, TypeInv, TypeOK
    <3>2. \E reply \in Replies : Answer(c, reply)
      BY <2>1 DEF Remove, Replies
    <3> QED
      BY <3>1, <3>2, AnswerTypeInv
  <2> QED
    BY <1>1, <2>1, BarrierTypeInv, ReadTypeInv, RereadTypeInv, WriteCasTypeInv, ReclassifyTypeInv,
       WriteFinishTypeInv, WriteBlindTypeInv, WriteProgressTypeInv DEF Step
<1>2. ASSUME NEW c \in Callers, Collect(c) PROVE TypeInv'
  BY <1>2, IdleTypeInv DEF Collect
<1>3. ASSUME NEW c \in Callers, NEW req \in Issued, Invoke(c, req) PROVE TypeInv'
  <2>1. Call(req) \in {Call(r) : r \in Request}
    BY IssuedAssumption
  <2> QED
    BY <1>3, <2>1, IdleTypeInv DEF Invoke
<1>4. CASE MarkDeleted
  BY <1>4 DEF MarkDeleted, TypeInv, TypeOK, Shape
<1>5. CASE UNCHANGED vars
  BY <1>5 DEF vars, TypeInv, TypeOK, Shape
<1> QED
  BY <1>1, <1>2, <1>3, <1>4, <1>5 DEF Next

(* Every call, whatever it asks for and wherever it stands, and the record *)
(* keep their types: in particular no write is ever built from a read that *)
(* found nothing.                                                          *)
THEOREM TypeCorrect == Spec => []TypeOK
<1>1. Init => TypeInv
  <2> SUFFICES ASSUME Init PROVE TypeInv
    OBVIOUS
  <2>1. Idle \in Call0 /\ Shape(Idle)
    BY DEF Idle, Call0, Shape, Steps, Replies
  <2>2. calls \in [Callers -> Call0] /\ \A c \in Callers : Shape(calls[c])
    BY <2>1 DEF Init
  <2>3. job \in Job /\ marked \in BOOLEAN /\ acked \subseteq Results
    BY NewRecord DEF Init
  <2> QED
    BY <2>2, <2>3 DEF TypeInv, TypeOK, Call0
<1>2. TypeInv => TypeOK
  BY DEF TypeInv
<1> QED
  BY <1>1, <1>2, TypeInvInductive, PTL DEF Spec

-----------------------------------------------------------------------------
(* Conditional writes only.  The invariant: a record that was read and     *)
(* still has the version of the stored one IS the stored one, so that a    *)
(* decision made on the read is a decision on what the write replaces.     *)

Fresh(snap, j) ==
    j # NoJob => /\ snap.version <= j.version
                 /\ snap.version = j.version => snap = j

Decided(call) ==
    (call.at = "write" /\ Conditional(call.req)) => Refusal(call.snap, call.req) = "none"

SafeInv ==
    /\ TypeInv
    /\ \A c \in Callers : calls[c].req \in Issued \cup {NoRequest}
    /\ \A c \in Callers : calls[c].snap # NoJob => Fresh(calls[c].snap, job)
    /\ \A c \in Callers : Decided(calls[c])
    /\ AckedResultKept
    /\ RecordConsistent

(* What a step may do to the record ...                                    *)
RecordStep ==
    \/ job' = job
    \/ job' = NoJob
    \/ /\ job \in Job
       /\ \E req \in Request :
            \/ /\ req.op \in {"startPhase"} \cup FinishOps
               /\ Refusal(job, req) = "none"
               /\ job' = Patched(job, req)
            \/ /\ req.op = "reportProgress"
               /\ progressAccepted(job, req)
               /\ job' = Progressed(job, req)

(* ... to the promises ...                                                 *)
AckStep ==
    \/ acked' = acked
    \/ \E r \in Results : /\ acked' = acked \cup {r}
                          /\ job' # NoJob /\ job'.status = "completed" /\ job'.result = r

(* ... and to the call that takes it.                                      *)
CallMove(c) ==
    \E call \in Call0 :
        /\ calls' = [calls EXCEPT ![c] = call]
        /\ call.req \in Issued \cup {NoRequest}
        /\ Decided(call)
        /\ call.snap \in {calls[c].snap, NoJob} \/ (call.snap = job /\ job' = job)

LEMMA NotBlind ==
    ASSUME ConditionalOnly, SafeInv, NEW c \in Callers, calls[c].req \in Request
    PROVE  calls[c].req \in Issued /\ calls[c].req.op \notin BlindOps
BY NoRequestApart DEF SafeInv, ConditionalOnly

LEMMA AnswerCallMove ==
    ASSUME SafeInv, NEW c \in Callers, NEW reply \in Replies, Answer(c, reply)
    PROVE  CallMove(c)
<1>1. PICK call \in Call0 : /\ calls' = [calls EXCEPT ![c] = call]
                            /\ call.at = "done" /\ call.req = calls[c].req /\ call.snap = calls[c].snap
  BY AnswerMove DEF SafeInv
<1> QED
  BY <1>1 DEF CallMove, SafeInv, Decided

LEMMA FinishedFields ==
    ASSUME NEW j \in Job, NEW s, NEW r
    PROVE  /\ Finished(j, s, r).status = s /\ Finished(j, s, r).phase = NoPhase
           /\ Finished(j, s, r).progress = NoProgress
           /\ Finished(j, s, r).result = IF s = "completed" THEN r ELSE j.result
BY DEF Finished, Job

(* A finish(COMPLETED) that is committed leaves its result.                *)
LEMMA CommittedResult ==
    ASSUME NEW j \in Job, NEW req \in Request, req.op = "finish"
    PROVE  /\ Patched(j, req).status = "completed"
           /\ Patched(j, req).result = req.result /\ req.result \in Results
<1>1. Patched(j, req) = Finished(j, "completed", req.result)
  BY DEF Patched, finishStatus, finishResult
<1>2. req.op = "finish" => req.result \in Results
  BY RequestFields
<1> QED
  BY <1>1, <1>2, FinishedFields

LEMMA ReadSafe ==
    ASSUME ConditionalOnly, SafeInv, NEW c \in Callers, Read(c)
    PROVE  CallMove(c) /\ RecordStep /\ AckStep
<1> DEFINE req == calls[c].req
           answer == idempotentiskasAtsakymas(job, "completed", req.result)
<1>1. req \in Request /\ req.op \notin BlindOps
      /\ req.op \in {"startPhase", "restart", "reportProgress"} \cup FinishOps
  BY NotBlind DEF Read, SafeInv, TypeInv, Shape
<1>2. job' = job
  BY DEF Read
<1>3. CASE \E reply \in Replies : Answer(c, reply)
  <2>1. CallMove(c)
    BY <1>3, AnswerCallMove
  <2>2. AckStep
    <3>1. CASE job # NoJob /\ req.op = "finish" /\ answer # "undefined" /\ job.result = req.result
      <4>1. job.status = "completed"
        BY <3>1 DEF idempotentiskasAtsakymas
      <4>2. req.op = "finish" => req.result \in Results
        BY <1>1, RequestFields
      <4>3. acked' = acked \cup {req.result}
        BY <3>1 DEF Read, Ack
      <4> QED
        BY <1>2, <3>1, <4>1, <4>2, <4>3 DEF AckStep
    <3>2. CASE ~ (job # NoJob /\ req.op = "finish" /\ answer # "undefined" /\ job.result = req.result)
      BY <3>2 DEF Read, AckStep
    <3> QED
      BY <3>1, <3>2
  <2> QED
    BY <1>2, <2>1, <2>2 DEF RecordStep
<1>4. CASE /\ job # NoJob /\ Snapshot(c, "write") /\ acked' = acked
           /\ Conditional(req) => Refusal(job, req) = "none"
  <2>1. PICK call \in Call0 : /\ calls' = [calls EXCEPT ![c] = call]
                              /\ call.at = "write" /\ call.req = req /\ call.snap = job
    BY <1>4, SnapshotMove DEF Steps, SafeInv
  <2>2. Decided(call)
    BY <1>4, <2>1 DEF Decided
  <2>3. CallMove(c)
    BY <1>2, <2>1, <2>2 DEF CallMove, SafeInv
  <2> QED
    BY <1>2, <1>4, <2>3 DEF RecordStep, AckStep
<1>5. CASE job = NoJob
  BY <1>3, <1>5 DEF Read, Replies
<1>6. CASE job # NoJob /\ req.op = "reportProgress"
  <2>1. ~Conditional(req)
    BY <1>6 DEF Conditional, FinishOps
  <2> QED
    BY <1>3, <1>4, <1>6, <2>1 DEF Read, Replies
<1>7. CASE job # NoJob /\ req.op = "finish" /\ answer # "undefined"
  <2>1. answer \in Replies
    BY <1>7, IdempotentReplies, RecordInView DEF SafeInv
  <2> QED
    BY <1>3, <1>7, <2>1 DEF Read
<1>8. CASE job # NoJob /\ req.op # "reportProgress" /\ ~ (req.op = "finish" /\ answer # "undefined")
  <2>1. Seen(req, Refusal(job, req)) \in Replies
    BY <1>1, <1>8, RefusalReplies, RecordInView DEF SafeInv
  <2>2. \/ Answer(c, Seen(req, Refusal(job, req)))
        \/ Refusal(job, req) = "none" /\ Snapshot(c, "write") /\ acked' = acked
    BY <1>1, <1>8 DEF Read, BlindOps
  <2> QED
    BY <1>3, <1>4, <1>8, <2>1, <2>2
<1> QED
  BY <1>5, <1>6, <1>7, <1>8

LEMMA GotoCallMove ==
    ASSUME SafeInv, NEW c \in Callers, NEW step \in Steps, Goto(c, step),
           step # "write" \/ ~Conditional(calls[c].req)
    PROVE  CallMove(c)
<1>1. PICK call \in Call0 : /\ calls' = [calls EXCEPT ![c] = call]
                            /\ call.at = step /\ call.req = calls[c].req /\ call.snap = calls[c].snap
  BY GotoMove DEF SafeInv
<1> QED
  BY <1>1 DEF CallMove, SafeInv, Decided

LEMMA BarrierSafe ==
    ASSUME SafeInv, NEW c \in Callers, Barrier(c)
    PROVE  CallMove(c) /\ RecordStep /\ AckStep
<1> DEFINE req == calls[c].req
<1>1. req \in Request /\ req.op \in Ops /\ req.op # "remove"
  BY RequestFields DEF Barrier, SafeInv, TypeInv, Shape
<1>2. RecordStep /\ AckStep
  BY DEF Barrier, RecordStep, AckStep
<1>3. CASE marked
  BY <1>2, <1>3, AnswerCallMove DEF Barrier, Replies
<1>4. CASE ~marked
  <2>1. \/ Goto(c, "read") \/ Goto(c, "reread")
        \/ Goto(c, "write") /\ req.op \in FinishOps /\ Backend # "redis"
        \/ Goto(c, "write") /\ req.op = "update"
    BY <1>1, <1>4 DEF Barrier, Ops, FinishOps
  <2> QED
    BY <1>2, <2>1, GotoCallMove DEF Steps, Conditional, FinishOps
<1> QED
  BY <1>3, <1>4

LEMMA WriteCasSafe ==
    ASSUME SafeInv, NEW c \in Callers, WriteCas(c)
    PROVE  CallMove(c) /\ RecordStep /\ AckStep
<1> DEFINE req == calls[c].req
<1>1. /\ req \in Request /\ Conditional(req) /\ calls[c].snap \in Job
      /\ req.op \in {"startPhase"} \cup FinishOps
      /\ Refusal(calls[c].snap, req) = "none"
  BY DEF WriteCas, SafeInv, TypeInv, Shape, Conditional, FinishOps, Decided
<1>2. CASE \E reply \in Replies : Answer(c, reply)
  <2>1. CallMove(c)
    BY <1>2, AnswerCallMove
  <2>2. CASE job' = job /\ acked' = acked
    BY <2>1, <2>2 DEF RecordStep, AckStep
  <2>3. CASE job # NoJob /\ VersionHolds(c) /\ job' = Patched(calls[c].snap, req) /\ Ack(c)
    <3>1. calls[c].snap = job /\ job \in Job
      BY <1>1, <2>3, NoJobAssumption, RecordInView DEF VersionHolds, SafeInv, Fresh
    <3>2. RecordStep
      BY <1>1, <2>3, <3>1 DEF RecordStep
    <3>3. AckStep
      <4>1. CASE req.op = "finish"
        <5>1. job' \in Job /\ job'.status = "completed" /\ job'.result = req.result /\ req.result \in Results
          BY <1>1, <2>3, <3>1, <4>1, CommittedResult, PatchedRecord
        <5> QED
          BY <2>3, <4>1, <5>1, NoJobAssumption DEF AckStep, Ack
      <4>2. CASE req.op # "finish"
        BY <2>3, <4>2 DEF AckStep, Ack
      <4> QED
        BY <4>1, <4>2
    <3> QED
      BY <2>1, <3>2, <3>3
  <2>4. (job' = job /\ acked' = acked)
        \/ (job # NoJob /\ VersionHolds(c) /\ job' = Patched(calls[c].snap, req) /\ Ack(c))
    BY DEF WriteCas
  <2> QED
    BY <2>2, <2>3, <2>4
<1>3. CASE Goto(c, "reclassify") /\ UNCHANGED <<job, acked>>
  BY <1>3, GotoCallMove DEF Steps, RecordStep, AckStep
<1> QED
  BY <1>2, <1>3 DEF WriteCas, Replies

LEMMA ReclassifySafe ==
    ASSUME SafeInv, NEW c \in Callers, Reclassify(c)
    PROVE  CallMove(c) /\ RecordStep /\ AckStep
<1> DEFINE req == calls[c].req
           answer == idempotentiskasAtsakymas(job, "completed", req.result)
           again == [calls[c] EXCEPT !.at = "read", !.tries = calls[c].tries + 1]
<1>1. req \in Request /\ req.op \in FinishOps /\ calls \in [Callers -> Call0]
  BY DEF Reclassify, SafeInv, TypeInv, TypeOK, Shape, Call0
<1>2. RecordStep
  BY DEF Reclassify, RecordStep
<1>3. AckStep
  <2>1. CASE job # NoJob /\ req.op = "finish" /\ answer = "ok"
    <3>1. job.status = "completed" /\ job.result = req.result
      BY <2>1 DEF idempotentiskasAtsakymas
    <3>2. req.op = "finish" => req.result \in Results
      BY <1>1, RequestFields
    <3>3. acked' = acked \cup {req.result} /\ job' = job
      BY <2>1 DEF Reclassify, Ack
    <3> QED
      BY <2>1, <3>1, <3>2, <3>3 DEF AckStep
  <2>2. CASE ~ (job # NoJob /\ req.op = "finish" /\ answer = "ok")
    BY <2>2 DEF Reclassify, AckStep
  <2> QED
    BY <2>1, <2>2
<1>4. CallMove(c)
  <2>1. CASE \E reply \in Replies : Answer(c, reply)
    BY <2>1, AnswerCallMove
  <2>2. CASE calls' = [calls EXCEPT ![c].at = "read", ![c].tries = @ + 1] /\ ~LastTry(c)
    <3>1. calls' = [calls EXCEPT ![c] = again]
      BY <1>1, <2>2
    <3>2. again \in Call0 /\ again.at = "read" /\ again.req = req /\ again.snap = calls[c].snap
      <4>1. calls[c].tries + 1 \in 0 .. 2 /\ "read" \in Steps
        BY <1>1, <2>2 DEF Call0, LastTry, Steps
      <4>2. ASSUME NEW n \in 0 .. 2, NEW step \in Steps
            PROVE  [calls[c] EXCEPT !.at = step, !.tries = n] \in Call0
        BY <1>1 DEF Call0
      <4>3. again \in Call0
        BY <4>1, <4>2
      <4> QED
        BY <1>1, <4>3 DEF Call0
    <3> HIDE DEF again
    <3> QED
      BY <3>1, <3>2 DEF CallMove, SafeInv, Decided
  <2>3. CASE job # NoJob /\ req.op = "finish"
    <3>1. answer \in Replies \cup {"undefined"}
      BY <2>3, IdempotentReplies, RecordInView DEF SafeInv
    <3>2. Answer(c, IF answer = "undefined" THEN "CONCURRENCY_CONFLICT" ELSE answer)
      BY <2>3 DEF Reclassify
    <3> QED
      BY <2>1, <3>1, <3>2 DEF Replies
  <2>4. CASE ~ (job # NoJob /\ req.op = "finish")
    BY <2>1, <2>2, <2>4 DEF Reclassify, Replies
  <2> QED
    BY <2>3, <2>4
<1> QED
  BY <1>2, <1>3, <1>4

LEMMA WriteFinishSafe ==
    ASSUME SafeInv, NEW c \in Callers, WriteFinish(c)
    PROVE  CallMove(c) /\ RecordStep /\ AckStep
<1> DEFINE req == calls[c].req
           answer == idempotentiskasAtsakymas(job, finishStatus(req), finishResult(req))
<1>1. req \in Request /\ req.op \in FinishOps
  BY DEF WriteFinish, SafeInv, TypeInv, Shape, FinishOps
<1>2. job # NoJob => job \in Job /\ answer \in Replies \cup {"undefined"} /\ Seen(req, Refusal(job, req)) \in Replies
  BY <1>1, IdempotentReplies, RefusalReplies, RecordInView DEF SafeInv
<1>3. CallMove(c)
  BY <1>2, AnswerCallMove DEF WriteFinish, Replies
<1>4. CASE job # NoJob /\ answer = "undefined" /\ Refusal(job, req) = "none"
  <2>1. job' = Patched(job, req) /\ Ack(c)
    BY <1>4 DEF WriteFinish, Seen
  <2>2. RecordStep
    BY <1>1, <1>2, <1>4, <2>1 DEF RecordStep
  <2>3. AckStep
    <3>1. CASE req.op = "finish"
      <4>1. job' \in Job /\ job'.status = "completed" /\ job'.result = req.result /\ req.result \in Results
        BY <1>1, <1>2, <1>4, <2>1, <3>1, CommittedResult, PatchedRecord
      <4> QED
        BY <2>1, <3>1, <4>1, NoJobAssumption DEF AckStep, Ack
    <3>2. CASE req.op # "finish"
      BY <2>1, <3>2 DEF AckStep, Ack
    <3> QED
      BY <3>1, <3>2
  <2> QED
    BY <1>3, <2>2, <2>3
<1>5. CASE job # NoJob /\ answer = "ok"
  <2>1. job.status = "completed" /\ job.result = finishResult(req) /\ finishStatus(req) = "completed"
    BY <1>5 DEF idempotentiskasAtsakymas
  <2>2. req.op = "finish" /\ job.result = req.result
    BY <1>1, <2>1 DEF finishStatus, finishResult
  <2>3. req.op = "finish" => req.result \in Results
    BY <1>1, RequestFields
  <2>4. job' = job /\ acked' = acked \cup {req.result}
    BY <1>5, <2>2 DEF WriteFinish, Ack
  <2> QED
    BY <1>3, <1>5, <2>1, <2>2, <2>3, <2>4 DEF RecordStep, AckStep
<1>6. CASE /\ ~ (job # NoJob /\ answer = "undefined" /\ Refusal(job, req) = "none")
           /\ ~ (job # NoJob /\ answer = "ok")
  <2>1. job' = job /\ acked' = acked
    BY <1>6 DEF WriteFinish
  <2> QED
    BY <1>3, <2>1 DEF RecordStep, AckStep
<1> QED
  BY <1>4, <1>5, <1>6

LEMMA WriteProgressSafe ==
    ASSUME SafeInv, NEW c \in Callers, WriteProgress(c)
    PROVE  CallMove(c) /\ RecordStep /\ AckStep
<1>1. calls[c].req \in Request /\ calls[c].req.op = "reportProgress" /\ acked' = acked
  BY DEF WriteProgress, SafeInv, TypeInv, Shape
<1>2. CallMove(c)
  BY AnswerCallMove DEF WriteProgress, Replies
<1>3. RecordStep
  BY <1>1, RecordInView DEF WriteProgress, RecordStep, SafeInv
<1> QED
  BY <1>1, <1>2, <1>3 DEF AckStep

(* Neither a second read nor an unconditional write ever happens.          *)
LEMMA StepSafe ==
    ASSUME ConditionalOnly, SafeInv, NEW c \in Callers, Step(c)
    PROVE  CallMove(c) /\ RecordStep /\ AckStep
<1>1. ~Reread(c)
  <2> SUFFICES ASSUME Reread(c) PROVE FALSE
    OBVIOUS
  <2>1. calls[c].req \in Request /\ calls[c].req.op \in BlindOps
    BY DEF Reread, SafeInv, TypeInv, Shape
  <2> QED
    BY <2>1, NotBlind
<1>2. ~WriteBlind(c)
  <2> SUFFICES ASSUME WriteBlind(c) PROVE FALSE
    OBVIOUS
  <2>1. calls[c].req \in Request /\ calls[c].req.op \in BlindOps
    BY DEF WriteBlind, SafeInv, TypeInv, Shape
  <2> QED
    BY <2>1, NotBlind
<1>3. CASE Remove(c)
  <2>1. RecordStep /\ AckStep
    BY <1>3 DEF Remove, RecordStep, AckStep
  <2> QED
    BY <1>3, <2>1, AnswerCallMove DEF Remove, Replies
<1> QED
  BY <1>1, <1>2, <1>3, BarrierSafe, ReadSafe, WriteCasSafe, ReclassifySafe, WriteFinishSafe,
     WriteProgressSafe DEF Step

LEMMA NextSafe ==
    ASSUME ConditionalOnly, SafeInv, [Next]_vars
    PROVE  /\ RecordStep /\ AckStep
           /\ calls' = calls \/ \E c \in Callers : CallMove(c)
<1>1. ASSUME NEW c \in Callers, Step(c) PROVE RecordStep /\ AckStep /\ CallMove(c)
  BY <1>1, StepSafe
<1>2. ASSUME NEW c \in Callers, Collect(c) PROVE RecordStep /\ AckStep /\ CallMove(c)
  <2>1. /\ Idle \in Call0 /\ Idle.req = NoRequest /\ Idle.snap = NoJob /\ Decided(Idle)
    BY DEF Idle, Call0, Steps, Replies, Decided
  <2>2. calls' = [calls EXCEPT ![c] = Idle] /\ job' = job /\ acked' = acked
    BY <1>2 DEF Collect
  <2> QED
    BY <2>1, <2>2 DEF CallMove, RecordStep, AckStep
<1>3. ASSUME NEW c \in Callers, NEW req \in Issued, Invoke(c, req) PROVE RecordStep /\ AckStep /\ CallMove(c)
  <2> DEFINE at0 == IF req.op = "remove" THEN "write" ELSE "barrier"
             call == Call(req)
  <2>1. call = [at |-> at0, req |-> req, snap |-> NoJob, tries |-> 1, reply |-> "none"]
    <3>1. Idle = [at |-> "idle", req |-> NoRequest, snap |-> NoJob, tries |-> 0, reply |-> "none"]
      BY DEF Idle
    <3>2. call = [Idle EXCEPT !.at = at0, !.req = req, !.tries = 1]
      BY DEF Call
    <3> QED
      BY <3>1, <3>2
  <2>2. at0 \in Steps /\ "none" \in Replies /\ 1 \in 0 .. 2 /\ req \in Request
    BY IssuedAssumption DEF Steps, Replies
  <2>3. calls' = [calls EXCEPT ![c] = call] /\ job' = job /\ acked' = acked
    BY <1>3 DEF Invoke
  <2> HIDE DEF call
  <2>4. call \in Call0
    BY <2>1, <2>2 DEF Call0
  <2>5. Decided(call) /\ call.req = req /\ call.snap = NoJob
    BY <2>1 DEF Decided, Conditional, FinishOps
  <2>6. CallMove(c)
    BY <2>3, <2>4, <2>5 DEF CallMove
  <2> QED
    BY <2>3, <2>6 DEF RecordStep, AckStep
<1>4. CASE MarkDeleted \/ UNCHANGED vars
  BY <1>4 DEF MarkDeleted, vars, RecordStep, AckStep
<1> QED
  BY <1>1, <1>2, <1>3, <1>4 DEF Next

-----------------------------------------------------------------------------
(* What follows for the record.                                            *)

LEMMA StartedFields ==
    ASSUME NEW j \in Job, NEW p
    PROVE  /\ PhaseStarted(j, p).status = "processing" /\ PhaseStarted(j, p).phase = p
           /\ PhaseStarted(j, p).progress = NoProgress
           /\ PhaseStarted(j, p).result = j.result /\ PhaseStarted(j, p).type = j.type
BY DEF PhaseStarted, Job

LEMMA ProgressedFields ==
    ASSUME NEW j \in Job, NEW e
    PROVE  /\ Progressed(j, e).status = j.status /\ Progressed(j, e).phase = j.phase
           /\ Progressed(j, e).progress = e.current
           /\ Progressed(j, e).result = j.result /\ Progressed(j, e).type = j.type
BY DEF Progressed, Job

(* The four kinds of write, with what their guards let through.            *)
LEMMA RecordCases ==
    ASSUME RecordStep, job' # job, job' # NoJob
    PROVE  /\ job \in Job /\ job' \in Job /\ job'.version = job.version + 1
           /\ \/ \E p \in phasesForType(job.type) :
                   /\ ~isFinished(job) /\ ConsistentSource(job)
                   /\ job' = PhaseStarted(job, p)
              \/ \E r \in Results :
                   /\ job.status = "processing"
                   /\ job' = Finished(job, "completed", r)
              \/ ~isFinished(job) /\ job' = Finished(job, "failed", NoResult)
              \/ \E e \in Request :
                   /\ progressAccepted(job, e)
                   /\ job' = Progressed(job, e)
<1>1. job \in Job
  BY DEF RecordStep
<1>2. PICK req \in Request :
        \/ /\ req.op \in {"startPhase"} \cup FinishOps
           /\ Refusal(job, req) = "none"
           /\ job' = Patched(job, req)
        \/ /\ req.op = "reportProgress"
           /\ progressAccepted(job, req)
           /\ job' = Progressed(job, req)
  BY DEF RecordStep
<1>3. CASE req.op = "startPhase"
  <2>1. startPhaseRefusal(job, req.phase) = "none" /\ job' = PhaseStarted(job, req.phase)
    BY <1>2, <1>3 DEF Refusal, Patched, FinishOps
  <2>2. req.phase \in phasesForType(job.type) /\ ~isFinished(job) /\ ConsistentSource(job)
    BY <2>1 DEF startPhaseRefusal, assertConsistentJobRecord
  <2>3. req.phase \in Phases
    BY <2>2 DEF phasesForType
  <2> QED
    BY <1>1, <2>1, <2>2, <2>3, PhaseStartedRecord
<1>4. CASE req.op = "finish"
  <2>1. finishRefusal(job, "completed", req.result) = "none" /\ job' = Finished(job, "completed", req.result)
    BY <1>2, <1>4 DEF Refusal, Patched, finishStatus, finishResult
  <2>2. req.op = "finish" => req.result \in Results
    BY RequestFields
  <2>3. job.status = "processing"
    BY <1>1, <2>1 DEF finishRefusal, isFinished, TERMINAL, Job, Statuses
  <2> QED
    BY <1>1, <1>4, <2>1, <2>2, <2>3, FinishedRecord DEF TERMINAL
<1>5. CASE req.op = "finishFailed"
  <2>1. finishRefusal(job, "failed", NoResult) = "none" /\ job' = Finished(job, "failed", NoResult)
    BY <1>2, <1>5 DEF Refusal, Patched, finishStatus, finishResult
  <2>2. ~isFinished(job)
    BY <2>1 DEF finishRefusal
  <2> QED
    BY <1>1, <2>1, <2>2, FinishedRecord DEF TERMINAL
<1>6. CASE req.op = "reportProgress"
  BY <1>1, <1>2, <1>6, ProgressedRecord DEF FinishOps
<1> QED
  BY <1>2, <1>3, <1>4, <1>5, <1>6 DEF FinishOps

LEMMA VersionGrows ==
    ASSUME RecordStep, NEW snap \in Job, Fresh(snap, job), job' = job \/ job' = NoJob \/ job # NoJob
    PROVE  Fresh(snap, job')
<1>1. CASE job' = job
  BY <1>1 DEF Fresh
<1>2. CASE job' = NoJob
  BY <1>2 DEF Fresh
<1>3. CASE job' # job /\ job' # NoJob
  <2>1. job \in Job /\ job'.version = job.version + 1 /\ job # NoJob
    BY <1>3, RecordCases
  <2>2. snap.version \in Nat /\ job.version \in Nat /\ snap.version <= job.version
    BY <2>1, NextVersion DEF Fresh
  <2> QED
    BY <2>1, <2>2 DEF Fresh
<1> QED
  BY <1>1, <1>2, <1>3

LEMMA CallsSafe ==
    ASSUME SafeInv, TypeInv', RecordStep, calls' = calls \/ \E c \in Callers : CallMove(c)
    PROVE  /\ \A d \in Callers : calls'[d].req \in Issued \cup {NoRequest}
           /\ \A d \in Callers : calls'[d].snap # NoJob => Fresh(calls'[d].snap, job')
           /\ \A d \in Callers : Decided(calls'[d])
<1>1. calls \in [Callers -> Call0] /\ calls' \in [Callers -> Call0]
  BY DEF SafeInv, TypeInv, TypeOK, Call0
<1>2. ASSUME NEW snap \in Job, Fresh(snap, job) PROVE Fresh(snap, job')
  <2>1. job' = job \/ job' = NoJob \/ job # NoJob
    BY NoJobAssumption DEF RecordStep
  <2> QED
    BY <1>2, <2>1, VersionGrows
<1>3. ASSUME NEW d \in Callers, calls'[d] = calls[d]
      PROVE  /\ calls'[d].req \in Issued \cup {NoRequest}
             /\ calls'[d].snap # NoJob => Fresh(calls'[d].snap, job')
             /\ Decided(calls'[d])
  <2>1. calls[d].snap # NoJob => calls[d].snap \in Job /\ Fresh(calls[d].snap, job)
    BY <1>1 DEF SafeInv, Call0
  <2> QED
    BY <1>2, <1>3, <2>1 DEF SafeInv
<1>4. CASE calls' = calls
  BY <1>3, <1>4
<1>5. ASSUME NEW c \in Callers, CallMove(c)
      PROVE  \A d \in Callers : /\ calls'[d].req \in Issued \cup {NoRequest}
                                /\ calls'[d].snap # NoJob => Fresh(calls'[d].snap, job')
                                /\ Decided(calls'[d])
  <2> SUFFICES ASSUME NEW d \in Callers
               PROVE  /\ calls'[d].req \in Issued \cup {NoRequest}
                      /\ calls'[d].snap # NoJob => Fresh(calls'[d].snap, job')
                      /\ Decided(calls'[d])
    OBVIOUS
  <2>1. PICK call \in Call0 :
          /\ calls' = [calls EXCEPT ![c] = call]
          /\ call.req \in Issued \cup {NoRequest}
          /\ Decided(call)
          /\ call.snap \in {calls[c].snap, NoJob} \/ (call.snap = job /\ job' = job)
    BY <1>5 DEF CallMove
  <2>2. CASE d # c
    BY <1>1, <1>3, <2>1, <2>2
  <2>3. CASE d = c
    <3>1. calls'[d] = call
      BY <1>1, <2>1, <2>3
    <3>2. CASE call.snap = calls[c].snap
      <4>1. calls[c].snap # NoJob => calls[c].snap \in Job /\ Fresh(calls[c].snap, job)
        BY <1>1 DEF SafeInv, Call0
      <4> QED
        BY <1>2, <2>1, <3>1, <3>2, <4>1
    <3>3. CASE call.snap = NoJob
      BY <2>1, <3>1, <3>3
    <3>4. CASE call.snap = job /\ job' = job
      <4>1. job \in Job \cup {NoJob}
        BY DEF SafeInv, TypeInv, TypeOK
      <4>2. job # NoJob => Fresh(job, job)
        BY <4>1, NextVersion DEF Fresh
      <4> QED
        BY <1>2, <2>1, <3>1, <3>4, <4>1, <4>2
    <3> QED
      BY <2>1, <3>2, <3>3, <3>4
  <2> QED
    BY <2>2, <2>3
<1> QED
  BY <1>4, <1>5

LEMMA AckedSafe ==
    ASSUME AckedResultKept, RecordStep, AckStep, job \in Job \cup {NoJob}
    PROVE  AckedResultKept'
<1>1. ASSUME NEW r \in acked, job' # NoJob PROVE job'.status = "completed" /\ job'.result = r
  <2>1. CASE job' = job
    BY <1>1, <2>1 DEF AckedResultKept
  <2>2. CASE job' # job
    <3>1. job \in Job /\ job # NoJob
      BY <1>1, <2>2, NoJobAssumption, RecordCases
    <3>2. job.status = "completed" /\ isFinished(job)
      BY <1>1, <3>1 DEF AckedResultKept, isFinished, TERMINAL
    <3>3. job.status # "processing" /\ \A e : ~progressAccepted(job, e)
      BY <3>2 DEF progressAccepted
    <3> QED
      BY <1>1, <2>2, <3>2, <3>3, RecordCases
  <2> QED
    BY <2>1, <2>2
<1>2. CASE acked' = acked
  BY <1>1, <1>2 DEF AckedResultKept
<1>3. ASSUME NEW r \in Results, acked' = acked \cup {r},
             job' # NoJob, job'.status = "completed", job'.result = r
      PROVE  AckedResultKept'
  BY <1>1, <1>3 DEF AckedResultKept
<1> QED
  BY <1>2, <1>3 DEF AckStep

LEMMA ConsistentSafe ==
    ASSUME RecordConsistent, RecordStep
    PROVE  RecordConsistent'
<1>1. CASE job' = job \/ job' = NoJob
  BY <1>1 DEF RecordConsistent, isFinished, ConsistentSource
<1>2. CASE job' # job /\ job' # NoJob
  <2>1. job \in Job /\ job # NoJob
    BY <1>2, NoJobAssumption, RecordCases
  <2>2. ASSUME NEW p \in phasesForType(job.type), job' = PhaseStarted(job, p) PROVE RecordConsistent'
    BY <2>1, <2>2, StartedFields DEF RecordConsistent, ConsistentSource
  <2>3. ASSUME NEW r \in Results, job' = Finished(job, "completed", r) PROVE RecordConsistent'
    BY <2>1, <2>3, FinishedFields, ResultsAssumption DEF RecordConsistent
  <2>4. CASE job' = Finished(job, "failed", NoResult)
    BY <2>1, <2>4, FinishedFields DEF RecordConsistent, isFinished, TERMINAL
  <2>5. ASSUME NEW e \in Request, progressAccepted(job, e), job' = Progressed(job, e) PROVE RecordConsistent'
    BY <2>1, <2>5, ProgressedFields DEF RecordConsistent, progressAccepted, ConsistentSource
  <2> QED
    BY <1>2, <2>2, <2>3, <2>4, <2>5, RecordCases
<1> QED
  BY <1>1, <1>2

LEMMA SafeInvInductive ==
    ASSUME ConditionalOnly, SafeInv, [Next]_vars
    PROVE  SafeInv'
<1>1. TypeInv'
  BY TypeInvInductive DEF SafeInv
<1>2. RecordStep /\ AckStep /\ (calls' = calls \/ \E c \in Callers : CallMove(c))
  BY NextSafe
<1>3. job \in Job \cup {NoJob}
  BY DEF SafeInv, TypeInv, TypeOK
<1>4. AckedResultKept' /\ RecordConsistent'
  BY <1>2, <1>3, AckedSafe, ConsistentSafe DEF SafeInv
<1> QED
  BY <1>1, <1>2, <1>4, CallsSafe DEF SafeInv

LEMMA SafeInvInit == Init => SafeInv
<1> SUFFICES ASSUME Init PROVE SafeInv
  OBVIOUS
<1>1. TypeInv
  <2>1. Idle \in Call0 /\ Shape(Idle)
    BY DEF Idle, Call0, Shape, Steps, Replies
  <2>2. calls \in [Callers -> Call0] /\ \A c \in Callers : Shape(calls[c])
    BY <2>1 DEF Init
  <2>3. job \in Job /\ marked \in BOOLEAN /\ acked \subseteq Results
    BY NewRecord DEF Init
  <2> QED
    BY <2>2, <2>3 DEF TypeInv, TypeOK, Call0
<1>2. \A c \in Callers : calls[c].req = NoRequest /\ calls[c].snap = NoJob /\ Decided(calls[c])
  BY DEF Init, Idle, Decided
<1>3. AckedResultKept /\ RecordConsistent
  BY DEF Init, AckedResultKept, RecordConsistent, newJob, ConsistentSource
<1> QED
  BY <1>1, <1>2, <1>3 DEF SafeInv

LEMMA SafeInvAlways ==
    ASSUME ConditionalOnly
    PROVE  Spec => []SafeInv
<1>1. SafeInv /\ [Next]_vars => SafeInv'
  BY SafeInvInductive
<1> QED
  BY <1>1, SafeInvInit, PTL DEF Spec

(* With conditional writes a result that was answered is never lost:       *)
(* no interleaving of any number of finishes, failures, phase changes and  *)
(* removals takes it back, on any of the backends.                         *)
THEOREM AckedResultIsKept ==
    ASSUME ConditionalOnly
    PROVE  Spec => []AckedResultKept
<1>1. SafeInv => AckedResultKept
  BY DEF SafeInv
<1> QED
  BY <1>1, SafeInvAlways, PTL

(* The stored record is always one that jobPhase can go on from.           *)
THEOREM RecordIsConsistent ==
    ASSUME ConditionalOnly
    PROVE  Spec => []RecordConsistent
<1>1. SafeInv => RecordConsistent
  BY DEF SafeInv
<1> QED
  BY <1>1, SafeInvAlways, PTL

(* No write takes the progress of a phase back.                            *)
LEMMA ProgressStep ==
    ASSUME RecordStep, job # NoJob, job' # NoJob, job.phase = job'.phase,
           job.progress # NoProgress, job'.progress # NoProgress, job \in Job
    PROVE  job'.progress >= job.progress
<1>1. CASE job' = job
  <2>1. job.progress \in 0 .. Units
    BY UnitsAssumption DEF Job, Progress, NoProgress
  <2> QED
    BY <1>1, <2>1, UnitsAssumption
<1>2. CASE job' # job
  <2>1. ASSUME NEW e \in Request, progressAccepted(job, e), job' = Progressed(job, e)
        PROVE  job'.progress >= job.progress
    BY <2>1, ProgressedFields DEF progressAccepted
  <2> QED
    BY <1>2, <2>1, RecordCases, StartedFields, FinishedFields
<1> QED
  BY <1>1, <1>2

(* As long as every write is conditional, a late or repeated progress       *)
(* report never takes the progress of a phase back (Lua script, row lock).  *)
THEOREM ProgressIsMonotone ==
    ASSUME ConditionalOnly
    PROVE  Spec => ProgressNeverBack
<1>1. SafeInv /\ [Next]_vars =>
        [ (/\ job # NoJob /\ job' # NoJob
           /\ job.phase = job'.phase
           /\ job.progress # NoProgress /\ job'.progress # NoProgress)
          => job'.progress >= job.progress ]_vars
  BY NextSafe, ProgressStep, RecordInView DEF SafeInv
<1> QED
  BY <1>1, SafeInvAlways, PTL DEF Spec, ProgressNeverBack

(* Without a condition the memory and the PostgreSQL backend still write    *)
(* only where a record is: whatever requests are issued, none brings a     *)
(* removed record back.                                                    *)
THEOREM RemovedIsFinal ==
    ASSUME Backend # "redis"
    PROVE  Spec => RemovedStaysRemoved
<1>1. ASSUME [Next]_vars, job = NoJob
      PROVE  job' = NoJob
  <2>1. ASSUME NEW c \in Callers, WriteBlind(c)
        PROVE  job' = NoJob
    BY <1>1, <2>1, CallersAssumption DEF WriteBlind, BlindOutcome
  <2>2. ASSUME NEW c \in Callers, WriteCas(c) \/ WriteFinish(c) \/ WriteProgress(c) \/ Remove(c)
        PROVE  job' = NoJob
    BY <1>1, <2>2 DEF WriteCas, WriteFinish, WriteProgress, Remove
  <2>3. ASSUME NEW c \in Callers, Barrier(c) \/ Read(c) \/ Reread(c) \/ Reclassify(c) \/ Collect(c)
        PROVE  job' = NoJob
    BY <1>1, <2>3 DEF Barrier, Read, Reread, Reclassify, Collect
  <2>4. ASSUME NEW c \in Callers, NEW req \in Issued, Invoke(c, req)
        PROVE  job' = NoJob
    BY <1>1, <2>4 DEF Invoke
  <2>5. ASSUME MarkDeleted \/ UNCHANGED vars
        PROVE  job' = NoJob
    BY <1>1, <2>5 DEF MarkDeleted, vars
  <2> QED
    BY <1>1, <2>1, <2>2, <2>3, <2>4, <2>5 DEF Next, Step
<1> QED
  BY <1>1, PTL DEF Spec, RemovedStaysRemoved

(* The store implements the lifecycle: every step of every caller is a     *)
(* step of JobLifecycle or none.                                           *)
LEMMA LifecycleInit == Init => Lifecycle!Init
<1>1. newJob(JobType) # NoJob
  BY NewRecord, NoJobAssumption
<1> QED
  BY <1>1 DEF Init, Lifecycle!Init, newJob

LEMMA LifecycleStep ==
    ASSUME SafeInv, RecordStep
    PROVE  [Lifecycle!Next]_(Lifecycle!lifeVars)
<1>1. CASE job' = job
  BY <1>1 DEF Lifecycle!lifeVars
<1>2. CASE job' = NoJob /\ job # NoJob
  <2>1. job.status # "removed"
    BY <1>2, RecordInView DEF SafeInv, Job, Statuses
  <2> QED
    BY <1>2, <2>1 DEF Lifecycle!Next, Lifecycle!Remove
<1>3. CASE job' # job /\ job' # NoJob
  <2>1. job \in Job /\ job # NoJob
    BY <1>3, NoJobAssumption, RecordCases
  <2>2. ASSUME NEW p \in phasesForType(job.type), ~isFinished(job), ConsistentSource(job),
               job' = PhaseStarted(job, p)
        PROVE  [Lifecycle!Next]_(Lifecycle!lifeVars)
    <3>1. job'.status = "processing" /\ job'.result = job.result /\ job.status \in {"queued", "processing"}
      BY <2>1, <2>2, StartedFields DEF ConsistentSource
    <3> QED
      BY <1>3, <2>1, <3>1 DEF Lifecycle!Next, Lifecycle!Run, Lifecycle!lifeVars
  <2>3. ASSUME NEW r \in Results, job.status = "processing", job' = Finished(job, "completed", r)
        PROVE  Lifecycle!Next
    <3>1. job'.status = "completed" /\ job'.result \in Results
      BY <2>1, <2>3, FinishedFields
    <3> QED
      BY <1>3, <2>1, <2>3, <3>1 DEF Lifecycle!Next, Lifecycle!Complete
  <2>4. ASSUME ~isFinished(job), job' = Finished(job, "failed", NoResult)
        PROVE  Lifecycle!Next
    <3>1. job'.status = "failed" /\ job'.result = job.result
      BY <2>1, <2>4, FinishedFields
    <3>2. job.status \in {"queued", "processing"}
      BY <2>1, <2>4 DEF isFinished, TERMINAL, Job, Statuses
    <3> QED
      BY <1>3, <2>1, <3>1, <3>2 DEF Lifecycle!Next, Lifecycle!GiveUp
  <2>5. ASSUME NEW e \in Request, job' = Progressed(job, e)
        PROVE  UNCHANGED Lifecycle!lifeVars
    BY <1>3, <2>1, <2>5, ProgressedFields DEF Lifecycle!lifeVars
  <2> QED
    BY <1>3, <2>2, <2>3, <2>4, <2>5, RecordCases
<1> QED
  BY <1>1, <1>2, <1>3

(* As long as every write is conditional, the store of any backend          *)
(* implements the abstract lifecycle: a job waits, runs, ends once, and may *)
(* be removed.                                                              *)
THEOREM StoreImplementsLifecycle ==
    ASSUME ConditionalOnly
    PROVE  Spec => LifecycleSpec
<1>1. SafeInv /\ [Next]_vars => [Lifecycle!Next]_(Lifecycle!lifeVars)
  BY NextSafe, LifecycleStep
<1> QED
  BY <1>1, LifecycleInit, SafeInvAlways, PTL DEF Spec, LifecycleSpec, Lifecycle!Spec
=============================================================================
