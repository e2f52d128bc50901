-------------------------- MODULE Conductor_proofs --------------------------
(***************************************************************************)
(* The storage cluster, for any subtasks, processes and numbers of         *)
(* reports, and without any assumption about the order of transactions.    *)
(*                                                                         *)
(* FinishedMeansAllFiles is not inductive: report_upload() decides before  *)
(* it commits, so it must be known that the decision is still right then   *)
(* (StepOK), which is so because the row of the request stays locked       *)
(* (OneHolder) and because no report is linked with a request that does    *)
(* not exist (Unrequested).                                                *)
(*                                                                         *)
(* VerifiedOnce rests on it: a request is finished in the transaction that *)
(* registers the call, and never again, since it is locked; so the call,   *)
(* and the order after it, is in one place at a time (OnceInv).            *)
(***************************************************************************)
EXTENDS Conductor, TLAPS

-----------------------------------------------------------------------------
(* The invariant. *)

Holds(st, s) ==
  st.op \in {"find", "check", "commit"} /\ SubtaskOf(st.file) = s /\ st.found

OneHolder ==
  \A v, w \in Worker : \A s \in Subtask :
    Holds(step[v], s) /\ Holds(step[w], s) => v = w

\* What a process at step st has found out, as far as it must not change.
StepOK(st) ==
  /\ st.op \in {"find", "check", "commit"} /\ st.found => request[SubtaskOf(st.file)] # NULL
  /\ st.op \in {"check", "commit"} => (st.complete <=> st.found /\ AllExpected(st.file))
  /\ st.op \in {"check", "commit"} /\ st.call => transfer[SubtaskOf(st.file)] # NULL
  /\ st.op \in {"link", "request"} /\ request[st.subtask] = NULL =>
       st.source <= reports[Source(st.subtask)].unlinked
  /\ st.op = "request" /\ request[st.subtask] = NULL =>
       st.result <= reports[Result(st.subtask)].unlinked

Unrequested == \A f \in File : request[SubtaskOf(f)] = NULL => ~IsLinked(f)

FilesInv ==
  /\ TypeOK
  /\ OneHolder
  /\ \A w \in Worker : StepOK(step[w])
  /\ Unrequested
  /\ FinishedMeansAllFiles

-----------------------------------------------------------------------------
(* Files, steps and records. *)

LEMMA Files ==
  ASSUME NEW f \in File
  PROVE  /\ SubtaskOf(f) \in Subtask /\ Other(f) \in File /\ Other(f) # f
         /\ SubtaskOf(Other(f)) = SubtaskOf(f)
         /\ \/ f = Source(SubtaskOf(f)) /\ Other(f) = Result(SubtaskOf(f))
            \/ f = Result(SubtaskOf(f)) /\ Other(f) = Source(SubtaskOf(f))
BY DEF File, SubtaskOf, Other, Source, Result

LEMMA SubtasksFiles ==
  ASSUME NEW s \in Subtask
  PROVE  /\ Source(s) \in File /\ Result(s) \in File /\ Source(s) # Result(s)
         /\ SubtaskOf(Source(s)) = s /\ SubtaskOf(Result(s)) = s
         /\ Other(Source(s)) = Result(s) /\ Other(Result(s)) = Source(s)
         /\ \A f \in File : SubtaskOf(f) = s => f \in {Source(s), Result(s)}
BY DEF File, SubtaskOf, Other, Source, Result

LEMMA StepFields ==
  ASSUME NEW st \in StepRecord
  PROVE  /\ st.op \in {"find", "check", "commit"} => st.file \in File /\ st.found \in BOOLEAN
         /\ st.op \in {"check", "commit"} => st.complete \in BOOLEAN /\ st.call \in BOOLEAN
         /\ st.op \in {"link", "request", "checkTransfer", "transfer"} => st.subtask \in Subtask
         /\ st.op \in {"link", "request"} => st.source \in Nat
         /\ st.op = "request" => st.result \in Nat
         /\ st.op \in {"checkTransfer", "transfer"} => st.call \in BOOLEAN
         /\ st.op = "callbacks" => st.calls \in Seq(Call)
BY DEF StepRecord, Idle

LEMMA Moves ==
  ASSUME TypeOK, NEW w \in Worker, NEW st \in StepRecord, Goto(w, st)
  PROVE  /\ step' \in [Worker -> StepRecord]
         /\ step'[w] = st
         /\ \A v \in Worker : v # w => step'[v] = step[v]
BY DEF TypeOK, Goto

LEMMA Requests ==
  ASSUME TypeOK, NEW s \in Subtask
  PROVE  /\ NULL \notin [finished : BOOLEAN, acknowledged : BOOLEAN]
         /\ request[s] # NULL =>
              /\ request[s] \in [finished : BOOLEAN, acknowledged : BOOLEAN]
              /\ request[s].finished \in BOOLEAN
BY ConductorAssumption DEF TypeOK

LEMMA Reports ==
  ASSUME TypeOK, NEW f \in File
  PROVE  /\ reports[f] \in [linked : Nat, unlinked : Nat]
         /\ reports[f].linked \in Nat /\ reports[f].unlinked \in Nat
BY DEF TypeOK

\* A step that holds the lock only if it held it before or found it free.
LEMMA HolderStaysAlone ==
  ASSUME OneHolder, NEW w \in Worker, NEW st,
         step'[w] = st, \A v \in Worker : v # w => step'[v] = step[v],
         \A s \in Subtask : Holds(st, s) => Holds(step[w], s) \/ IsFree(s)
  PROVE  OneHolder'
<1> SUFFICES ASSUME NEW u \in Worker, NEW v \in Worker, NEW s \in Subtask,
                    Holds(step'[u], s), Holds(step'[v], s), u # v
             PROVE  FALSE
  BY DEF OneHolder, Holds
<1>1. \A x \in Worker : Holds(step[x], s) => ~IsFree(s)
  BY DEF IsFree, LockedBy, Holds
<1>2. CASE u = w
  BY <1>1, <1>2 DEF OneHolder
<1>3. CASE v = w
  BY <1>1, <1>3 DEF OneHolder
<1>4. CASE u # w /\ v # w
  BY <1>4 DEF OneHolder
<1> QED BY <1>2, <1>3, <1>4

-----------------------------------------------------------------------------
(* FilesInv is kept. *)

\* A step that changes neither requests nor reports.
LEMMA StepKeepsFiles ==
  ASSUME FilesInv, NEW w \in Worker, NEW st \in StepRecord, Goto(w, st),
         UNCHANGED <<request, reports, verifier>>,
         transfer' \in [Subtask -> [finished : BOOLEAN] \union {NULL}],
         \A s \in Subtask : transfer[s] # NULL => transfer'[s] # NULL,
         orders' \in [Subtask -> Nat], sent' \in [Call -> Nat], lost' \in SUBSET Call,
         StepOK(st)',
         \A s \in Subtask : Holds(st, s) => Holds(step[w], s) \/ IsFree(s)
  PROVE  FilesInv'
<1>1. /\ step' \in [Worker -> StepRecord]
      /\ step'[w] = st
      /\ \A v \in Worker : v # w => step'[v] = step[v]
  BY Moves DEF FilesInv
<1>2. TypeOK'
  BY <1>1 DEF FilesInv, TypeOK
<1>3. OneHolder'
  BY <1>1, HolderStaysAlone DEF FilesInv
<1>4. ASSUME NEW v \in Worker PROVE StepOK(step[v])'
  <2>1. CASE v = w
    BY <1>1, <2>1 DEF StepOK, AllExpected, IsLinked
  <2>2. CASE v # w
    <3>1. step'[v] = step[v] /\ StepOK(step[v]) /\ step[v] \in StepRecord
      BY <1>1, <2>2 DEF FilesInv, TypeOK
    <3>2. step[v].op \in {"check", "commit"} => SubtaskOf(step[v].file) \in Subtask
      BY <3>1, StepFields, Files
    <3> QED BY <3>1, <3>2 DEF StepOK, AllExpected, IsLinked
  <2> QED BY <2>1, <2>2
<1>5. Unrequested' /\ FinishedMeansAllFiles'
  BY DEF FilesInv, Unrequested, FinishedMeansAllFiles, IsLinked
<1> QED BY <1>2, <1>3, <1>4, <1>5 DEF FilesInv

LEMMA CommitReportKeepsFiles ==
  ASSUME FilesInv, NEW w \in Worker, CommitReport(w)
  PROVE  FilesInv'
<1> DEFINE f == step[w].file
           s == SubtaskOf(f)
           calls == CallIf(step[w].complete, "upload_finished", s)
                    \o CallIf(step[w].call, "result_upload_finished", s)
           st == [op |-> "callbacks", calls |-> calls]
<1>1. /\ step[w].op = "commit" /\ step[w] \in StepRecord
      /\ f \in File /\ s \in Subtask
      /\ step[w].found \in BOOLEAN /\ step[w].complete \in BOOLEAN /\ step[w].call \in BOOLEAN
      /\ StepOK(step[w])
  BY StepFields, Files DEF CommitReport, FilesInv, TypeOK
<1>2. st \in StepRecord /\ st.op = "callbacks"
  <2>1. /\ <<"upload_finished", s>> \in Call
        /\ <<"result_upload_finished", s>> \in Call
    BY <1>1 DEF Call
  <2>2. calls \in Seq(Call)
    BY <1>1, <2>1 DEF CallIf
  <2> QED BY <2>2 DEF StepRecord
<1>3. Goto(w, st) /\ UNCHANGED <<orders, verifier, sent, lost>>
  BY DEF CommitReport, Callbacks
<1>4. /\ step' \in [Worker -> StepRecord]
      /\ step'[w] = st
      /\ \A v \in Worker : v # w => step'[v] = step[v]
  BY <1>2, <1>3, Moves DEF FilesInv
<1>5. /\ step[w].found => request[s] # NULL
      /\ step[w].complete <=> step[w].found /\ AllExpected(f)
  BY <1>1 DEF StepOK
<1>6. /\ \A x \in Subtask : x # s => request'[x] = request[x]
      /\ ~step[w].complete => request'[s] = request[s]
      /\ step[w].complete =>
           /\ request[s] # NULL
           /\ request'[s] \in [finished : BOOLEAN, acknowledged : BOOLEAN]
           /\ request'[s].finished
      /\ \A x \in Subtask : request'[x] = NULL <=> request[x] = NULL
      /\ request' \in [Subtask -> [finished : BOOLEAN, acknowledged : BOOLEAN] \union {NULL}]
  <2>1. request \in [Subtask -> [finished : BOOLEAN, acknowledged : BOOLEAN] \union {NULL}]
    BY DEF FilesInv, TypeOK
  <2>2. CASE ~step[w].complete
    BY <1>1, <2>1, <2>2 DEF CommitReport
  <2>3. CASE step[w].complete
    <3>1. request' = [request EXCEPT ![s].finished = TRUE] /\ request[s] # NULL
      BY <1>5, <2>3 DEF CommitReport
    <3>2. request[s] \in [finished : BOOLEAN, acknowledged : BOOLEAN]
      BY <1>1, <2>1, <3>1
    <3>3. [request[s] EXCEPT !.finished = TRUE] \in [finished : BOOLEAN, acknowledged : BOOLEAN]
      BY <3>2
    <3>4. request'[s] = [request[s] EXCEPT !.finished = TRUE]
      BY <1>1, <2>1, <3>1
    <3>5. \A x \in Subtask : x # s => request'[x] = request[x]
      BY <2>1, <3>1
    <3>6. request'[s].finished
      BY <3>2, <3>4
    <3>7. request'[s] # NULL
      BY <3>3, <3>4, ConductorAssumption
    <3>8. request' \in [Subtask -> [finished : BOOLEAN, acknowledged : BOOLEAN] \union {NULL}]
      BY <2>1, <3>1, <3>3
    <3> QED BY <1>1, <2>3, <3>1, <3>3, <3>4, <3>5, <3>6, <3>7, <3>8
  <2> QED BY <2>2, <2>3
<1>7. /\ reports' \in [File -> [linked : Nat, unlinked : Nat]]
      /\ \A x \in File : x # f => reports'[x] = reports[x]
      /\ reports'[f].unlinked >= reports[f].unlinked
      /\ step[w].found => reports'[f].linked = reports[f].linked + 1
      /\ ~step[w].found => reports'[f].linked = reports[f].linked
  <2>1. reports \in [File -> [linked : Nat, unlinked : Nat]]
    BY DEF FilesInv, TypeOK
  <2>2. CASE step[w].found
    <3>1. reports' = [reports EXCEPT ![f].linked = reports[f].linked + 1]
      BY <2>2 DEF CommitReport
    <3> QED BY <1>1, <2>1, <2>2, <3>1
  <2>3. CASE ~step[w].found
    <3>1. reports' = [reports EXCEPT ![f].unlinked = reports[f].unlinked + 1]
      BY <2>3 DEF CommitReport
    <3> QED BY <1>1, <2>1, <2>3, <3>1
  <2> QED BY <2>2, <2>3
<1>8. \A x \in File : reports[x].linked \in Nat /\ reports[x].unlinked \in Nat
  BY Reports DEF FilesInv
<1>9. /\ transfer' \in [Subtask -> [finished : BOOLEAN] \union {NULL}]
      /\ \A x \in Subtask : transfer[x] # NULL => transfer'[x] # NULL
  <2>1. transfer \in [Subtask -> [finished : BOOLEAN] \union {NULL}]
    BY DEF FilesInv, TypeOK
  <2>2. CASE ~step[w].call
    BY <1>1, <2>1, <2>2 DEF CommitReport
  <2>3. CASE step[w].call
    <3>1. transfer[s] \in [finished : BOOLEAN]
      BY <1>1, <2>1, <2>3 DEF StepOK
    <3>2. [transfer[s] EXCEPT !.finished = TRUE] \in [finished : BOOLEAN]
      BY <3>1
    <3>3. transfer' = [transfer EXCEPT ![s] = [transfer[s] EXCEPT !.finished = TRUE]]
      BY <2>3 DEF CommitReport
    <3>4. transfer'[s] # NULL
      BY <1>1, <2>1, <3>2, <3>3, ConductorAssumption
    <3> QED BY <1>1, <2>1, <3>2, <3>3, <3>4
  <2> QED BY <2>2, <2>3
<1>10. TypeOK'
  BY <1>3, <1>4, <1>6, <1>7, <1>9 DEF FilesInv, TypeOK
<1>11. OneHolder'
  BY <1>2, <1>4, HolderStaysAlone DEF FilesInv, Holds
<1>12. ASSUME NEW v \in Worker PROVE StepOK(step[v])'
  <2>1. CASE v = w
    BY <1>2, <1>4, <2>1 DEF StepOK
  <2>2. CASE v # w
    <3>1. step'[v] = step[v] /\ StepOK(step[v]) /\ step[v] \in StepRecord
      BY <1>4, <2>2 DEF FilesInv, TypeOK
    <3>2. ASSUME step[v].op \in {"check", "commit"}
          PROVE  step[v].complete <=> step[v].found /\ AllExpected(step[v].file)'
      <4>1. CASE ~step[v].found
        BY <3>1, <3>2, <4>1 DEF StepOK
      <4>2. CASE step[v].found
        <5>1. step[v].file \in File /\ Other(step[v].file) \in File
              /\ SubtaskOf(step[v].file) \in Subtask
              /\ SubtaskOf(Other(step[v].file)) = SubtaskOf(step[v].file)
          BY <3>1, <3>2, StepFields, Files
        <5>2. CASE step[w].found
          <6>1. SubtaskOf(step[v].file) # s
            BY <1>1, <2>2, <3>2, <4>2, <5>1, <5>2 DEF FilesInv, OneHolder, Holds
          <6>2. step[v].file # f /\ Other(step[v].file) # f
            BY <5>1, <6>1
          <6> QED BY <1>7, <3>1, <3>2, <5>1, <6>2 DEF StepOK, AllExpected, IsLinked
        <5>3. CASE ~step[w].found
          <6>1. \A x \in File : reports'[x].linked = reports[x].linked
            BY <1>7, <5>3
          <6> QED BY <3>1, <3>2, <5>1, <6>1 DEF StepOK, AllExpected, IsLinked
        <5> QED BY <1>1, <5>2, <5>3
      <4> QED BY <4>1, <4>2
    <3>3. \A x \in File : reports'[x].unlinked \in Nat /\ reports'[x].unlinked >= reports[x].unlinked
      BY <1>7, <1>8
    <3>4. ASSUME step[v].op \in {"link", "request"}, request'[step[v].subtask] = NULL
          PROVE  /\ step[v].source <= reports'[Source(step[v].subtask)].unlinked
                 /\ step[v].op = "request" =>
                      step[v].result <= reports'[Result(step[v].subtask)].unlinked
      <4>1. /\ step[v].subtask \in Subtask /\ step[v].source \in Nat
            /\ step[v].op = "request" => step[v].result \in Nat
        BY <3>1, <3>4, StepFields
      <4>2. Source(step[v].subtask) \in File /\ Result(step[v].subtask) \in File
        BY <4>1, SubtasksFiles
      <4>3. request[step[v].subtask] = NULL
        BY <1>6, <3>4, <4>1
      <4> QED BY <1>8, <3>1, <3>3, <3>4, <4>1, <4>2, <4>3 DEF StepOK
    <3>5. ASSUME step[v].op \in {"find", "check", "commit"}, step[v].found
          PROVE  request'[SubtaskOf(step[v].file)] # NULL
      <4>1. SubtaskOf(step[v].file) \in Subtask
        BY <3>1, <3>5, StepFields, Files
      <4> QED BY <1>6, <3>1, <3>5, <4>1 DEF StepOK
    <3>6. ASSUME step[v].op \in {"check", "commit"}, step[v].call
          PROVE  transfer'[SubtaskOf(step[v].file)] # NULL
      <4>1. SubtaskOf(step[v].file) \in Subtask
        BY <3>1, <3>6, StepFields, Files
      <4> QED BY <1>9, <3>1, <3>6, <4>1 DEF StepOK
    <3> QED BY <3>1, <3>2, <3>4, <3>5, <3>6 DEF StepOK, AllExpected, IsLinked
  <2> QED BY <2>1, <2>2
<1>13. Unrequested'
  <2> SUFFICES ASSUME NEW x \in File, request'[SubtaskOf(x)] = NULL
               PROVE  ~(reports'[x].linked > 0)
    BY DEF Unrequested, IsLinked
  <2>1. SubtaskOf(x) \in Subtask /\ request[SubtaskOf(x)] = NULL
    BY <1>6, Files
  <2>2. ~(reports[x].linked > 0)
    BY <2>1 DEF FilesInv, Unrequested, IsLinked
  <2> QED BY <1>5, <1>7, <2>1, <2>2
<1>14. FinishedMeansAllFiles'
  <2> SUFFICES ASSUME NEW x \in Subtask, request'[x] # NULL
               PROVE  request'[x].finished <=>
                        reports'[Source(x)].linked > 0 /\ reports'[Result(x)].linked > 0
    BY DEF FinishedMeansAllFiles, IsLinked
  <2>1. /\ request[x] # NULL
        /\ request[x].finished <=> reports[Source(x)].linked > 0 /\ reports[Result(x)].linked > 0
    BY <1>6 DEF FilesInv, FinishedMeansAllFiles, IsLinked
  <2>2. Source(x) \in File /\ Result(x) \in File /\ SubtaskOf(Source(x)) = x /\ SubtaskOf(Result(x)) = x
    BY SubtasksFiles
  <2>3. CASE x # s
    BY <1>6, <1>7, <2>1, <2>2, <2>3
  <2>4. CASE x = s
    <3>1. /\ Other(f) \in File /\ Other(f) # f
          /\ {f, Other(f)} = {Source(x), Result(x)}
      BY <1>1, <2>4, Files
    <3>2. request[x].finished <=> reports[f].linked > 0 /\ reports[Other(f)].linked > 0
      BY <2>1, <3>1
    <3>3. reports'[Other(f)] = reports[Other(f)]
      BY <1>7, <3>1
    <3>4. request'[x].finished <=> reports'[f].linked > 0 /\ reports'[Other(f)].linked > 0
      <4>1. CASE step[w].complete
        <5>1. request'[x].finished /\ step[w].found /\ reports[Other(f)].linked > 0
          BY <1>5, <1>6, <2>4, <4>1 DEF AllExpected, IsLinked
        <5>2. reports'[f].linked > 0
          BY <1>1, <1>7, <1>8, <5>1
        <5> QED BY <3>3, <5>1, <5>2
      <4>2. CASE ~step[w].complete
        <5>1. request'[x].finished <=> request[x].finished
          BY <1>6, <2>4, <4>2
        <5>2. ~step[w].found \/ reports[f].linked > 0 \/ ~(reports[Other(f)].linked > 0)
          BY <1>5, <4>2 DEF AllExpected, IsLinked
        <5>3. reports'[f].linked > 0 /\ reports[Other(f)].linked > 0
              <=> reports[f].linked > 0 /\ reports[Other(f)].linked > 0
          BY <1>1, <1>7, <1>8, <5>2
        <5> QED BY <3>2, <3>3, <5>1, <5>3
      <4> QED BY <1>1, <4>1, <4>2
    <3> QED BY <3>1, <3>4
  <2> QED BY <2>3, <2>4
<1> QED BY <1>10, <1>11, <1>12, <1>13, <1>14 DEF FilesInv

LEMMA CommitRequestKeepsFiles ==
  ASSUME FilesInv, NEW w \in Worker, CommitRequest(w)
  PROVE  FilesInv'
<1> DEFINE s == step[w].subtask
           n == step[w].source
           m == step[w].result
           calls == CallIf(AllFiles(n, m), "upload_finished", s)
           st == [op |-> "callbacks", calls |-> calls]
<1>1. /\ step[w].op = "request" /\ step[w] \in StepRecord
      /\ s \in Subtask /\ n \in Nat /\ m \in Nat
      /\ request[s] = NULL
      /\ n <= reports[Source(s)].unlinked /\ m <= reports[Result(s)].unlinked
  BY StepFields DEF CommitRequest, UniquePath, FilesInv, TypeOK, StepOK
<1>2. /\ Source(s) \in File /\ Result(s) \in File /\ Source(s) # Result(s)
      /\ \A x \in File : SubtaskOf(x) = s => x \in {Source(s), Result(s)}
      /\ SubtaskOf(Source(s)) = s /\ SubtaskOf(Result(s)) = s
  BY <1>1, SubtasksFiles
<1>3. st \in StepRecord /\ st.op = "callbacks"
  <2>1. <<"upload_finished", s>> \in Call
    BY <1>1 DEF Call
  <2>2. calls \in Seq(Call)
    BY <2>1 DEF CallIf
  <2> QED BY <2>2 DEF StepRecord
<1>4. Goto(w, st) /\ UNCHANGED <<transfer, orders, verifier, sent, lost>>
  BY DEF CommitRequest, Callbacks
<1>5. /\ step' \in [Worker -> StepRecord]
      /\ step'[w] = st
      /\ \A v \in Worker : v # w => step'[v] = step[v]
  BY <1>3, <1>4, Moves DEF FilesInv
<1>6. \A x \in File : reports[x].linked \in Nat /\ reports[x].unlinked \in Nat
  BY Reports DEF FilesInv
<1>7. /\ reports[Source(s)].linked = 0 /\ reports[Result(s)].linked = 0
  BY <1>1, <1>2, <1>6 DEF FilesInv, Unrequested, IsLinked
<1>8. /\ Link(Source(s), n) \in [linked : Nat, unlinked : Nat]
      /\ Link(Result(s), m) \in [linked : Nat, unlinked : Nat]
      /\ Link(Source(s), n).linked = n /\ Link(Result(s), m).linked = m
  BY <1>1, <1>2, <1>6, <1>7 DEF Link
<1>9. /\ reports' \in [File -> [linked : Nat, unlinked : Nat]]
      /\ \A x \in File : SubtaskOf(x) # s => reports'[x] = reports[x]
      /\ reports'[Source(s)].linked = n /\ reports'[Result(s)].linked = m
  <2>1. reports \in [File -> [linked : Nat, unlinked : Nat]]
    BY DEF FilesInv, TypeOK
  <2>2. reports' = [reports EXCEPT ![Source(s)] = Link(Source(s), n),
                                   ![Result(s)] = Link(Result(s), m)]
    BY DEF CommitRequest
  <2> HIDE DEF s, n, m
  <2> QED BY <1>2, <1>8, <2>1, <2>2
<1>10. /\ request' \in [Subtask -> [finished : BOOLEAN, acknowledged : BOOLEAN] \union {NULL}]
       /\ request'[s] # NULL
       /\ request'[s].finished <=> n > 0 /\ m > 0
       /\ \A x \in Subtask : x # s => request'[x] = request[x]
  <2>1. request \in [Subtask -> [finished : BOOLEAN, acknowledged : BOOLEAN] \union {NULL}]
    BY DEF FilesInv, TypeOK
  <2>2. request' = [request EXCEPT ![s] = [finished |-> AllFiles(n, m), acknowledged |-> FALSE]]
    BY DEF CommitRequest
  <2>3. [finished |-> AllFiles(n, m), acknowledged |-> FALSE]
          \in [finished : BOOLEAN, acknowledged : BOOLEAN]
    BY DEF AllFiles
  <2>4. request'[s] = [finished |-> AllFiles(n, m), acknowledged |-> FALSE]
    BY <1>1, <2>1, <2>2
  <2> QED BY <1>1, <2>1, <2>2, <2>3, <2>4, ConductorAssumption DEF AllFiles
<1>11. TypeOK'
  BY <1>4, <1>5, <1>9, <1>10 DEF FilesInv, TypeOK
<1>12. OneHolder'
  BY <1>3, <1>5, HolderStaysAlone DEF FilesInv, Holds
<1>13. ASSUME NEW v \in Worker PROVE StepOK(step[v])'
  <2>1. CASE v = w
    BY <1>3, <1>5, <2>1 DEF StepOK
  <2>2. CASE v # w
    <3>1. step'[v] = step[v] /\ StepOK(step[v]) /\ step[v] \in StepRecord
      BY <1>5, <2>2 DEF FilesInv, TypeOK
    <3>2. ASSUME step[v].op \in {"check", "commit"}
          PROVE  step[v].complete <=> step[v].found /\ AllExpected(step[v].file)'
      <4>1. CASE ~step[v].found
        BY <3>1, <3>2, <4>1 DEF StepOK
      <4>2. CASE step[v].found
        <5>1. step[v].file \in File /\ Other(step[v].file) \in File
              /\ SubtaskOf(Other(step[v].file)) = SubtaskOf(step[v].file)
          BY <3>1, <3>2, StepFields, Files
        <5>2. SubtaskOf(step[v].file) # s
          BY <1>1, <3>1, <3>2, <4>2 DEF StepOK
        <5> QED BY <1>9, <3>1, <3>2, <5>1, <5>2 DEF StepOK, AllExpected, IsLinked
      <4> QED BY <4>1, <4>2
    <3>3. ASSUME step[v].op \in {"link", "request"}, request'[step[v].subtask] = NULL
          PROVE  /\ step[v].source <= reports'[Source(step[v].subtask)].unlinked
                 /\ step[v].op = "request" =>
                      step[v].result <= reports'[Result(step[v].subtask)].unlinked
      <4>1. step[v].subtask \in Subtask
        BY <3>1, <3>3, StepFields
      <4>2. /\ Source(step[v].subtask) \in File /\ Result(step[v].subtask) \in File
            /\ SubtaskOf(Source(step[v].subtask)) = step[v].subtask
            /\ SubtaskOf(Result(step[v].subtask)) = step[v].subtask
        BY <4>1, SubtasksFiles
      <4>3. step[v].subtask # s /\ request[step[v].subtask] = NULL
        BY <1>10, <3>3, <4>1
      <4> QED BY <1>9, <3>1, <3>3, <4>2, <4>3 DEF StepOK
    <3>4. ASSUME step[v].op \in {"find", "check", "commit"}, step[v].found
          PROVE  request'[SubtaskOf(step[v].file)] # NULL
      <4>1. SubtaskOf(step[v].file) \in Subtask
        BY <3>1, <3>4, StepFields, Files
      <4> QED BY <1>1, <1>10, <3>1, <3>4, <4>1 DEF StepOK
    <3> QED BY <1>4, <3>1, <3>2, <3>3, <3>4 DEF StepOK, AllExpected, IsLinked
  <2> QED BY <2>1, <2>2
<1>14. Unrequested'
  <2> SUFFICES ASSUME NEW x \in File, request'[SubtaskOf(x)] = NULL
               PROVE  ~(reports'[x].linked > 0)
    BY DEF Unrequested, IsLinked
  <2>1. SubtaskOf(x) \in Subtask /\ SubtaskOf(x) # s
    BY <1>10, Files
  <2> QED BY <1>9, <1>10, <2>1 DEF FilesInv, Unrequested, IsLinked
<1>15. FinishedMeansAllFiles'
  <2> SUFFICES ASSUME NEW x \in Subtask, request'[x] # NULL
               PROVE  request'[x].finished <=>
                        reports'[Source(x)].linked > 0 /\ reports'[Result(x)].linked > 0
    BY DEF FinishedMeansAllFiles, IsLinked
  <2>1. CASE x = s
    BY <1>9, <1>10, <2>1
  <2>2. CASE x # s
    <3>1. /\ Source(x) \in File /\ Result(x) \in File
          /\ SubtaskOf(Source(x)) = x /\ SubtaskOf(Result(x)) = x
      BY SubtasksFiles
    <3> QED BY <1>9, <1>10, <2>2, <3>1 DEF FilesInv, FinishedMeansAllFiles, IsLinked
  <2> QED BY <2>1, <2>2
<1> QED BY <1>11, <1>12, <1>13, <1>14, <1>15 DEF FilesInv

LEMMA UploadAcknowledgedKeepsFiles ==
  ASSUME FilesInv, NEW w \in Worker, NEW s \in Subtask, UploadAcknowledged(w, s)
  PROVE  FilesInv'
<1> DEFINE st == [op |-> "callbacks", calls |-> << <<"blender_verification_order", s>> >>]
<1>1. st \in StepRecord /\ st.op = "callbacks"
  BY DEF StepRecord, Call
<1>2. Goto(w, st) /\ UNCHANGED <<transfer, reports, orders, verifier, sent, lost>>
  BY DEF UploadAcknowledged, Callbacks
<1>3. /\ step' \in [Worker -> StepRecord]
      /\ step'[w] = st
      /\ \A v \in Worker : v # w => step'[v] = step[v]
  BY <1>1, <1>2, Moves DEF FilesInv
<1>10. transfer' = transfer /\ reports' = reports
  BY DEF UploadAcknowledged
<1>4. /\ request' \in [Subtask -> [finished : BOOLEAN, acknowledged : BOOLEAN] \union {NULL}]
      /\ \A x \in Subtask : /\ request'[x] = NULL <=> request[x] = NULL
                            /\ request[x] # NULL => (request'[x].finished <=> request[x].finished)
  <2>1. request \in [Subtask -> [finished : BOOLEAN, acknowledged : BOOLEAN] \union {NULL}]
    BY DEF FilesInv, TypeOK
  <2>2. /\ request' = [request EXCEPT ![s] = [request[s] EXCEPT !.acknowledged = TRUE]]
        /\ request[s] # NULL
    BY DEF UploadAcknowledged, IsNotAcknowledged
  <2>3. request[s] \in [finished : BOOLEAN, acknowledged : BOOLEAN]
    BY <2>1, <2>2
  <2>4. /\ [request[s] EXCEPT !.acknowledged = TRUE] \in [finished : BOOLEAN, acknowledged : BOOLEAN]
        /\ [request[s] EXCEPT !.acknowledged = TRUE].finished = request[s].finished
    BY <2>3
  <2>5. [request[s] EXCEPT !.acknowledged = TRUE] # NULL
    BY <2>4, ConductorAssumption
  <2> QED BY <2>1, <2>2, <2>4, <2>5
<1>5. TypeOK'
  BY <1>2, <1>3, <1>4 DEF FilesInv, TypeOK
<1>6. OneHolder'
  BY <1>1, <1>3, HolderStaysAlone DEF FilesInv, Holds
<1>7. ASSUME NEW v \in Worker PROVE StepOK(step[v])'
  <2>1. CASE v = w
    BY <1>1, <1>3, <2>1 DEF StepOK
  <2>2. CASE v # w
    <3>1. step'[v] = step[v] /\ StepOK(step[v]) /\ step[v] \in StepRecord
      BY <1>3, <2>2 DEF FilesInv, TypeOK
    <3>2. /\ step[v].op \in {"find", "check", "commit"} => SubtaskOf(step[v].file) \in Subtask
          /\ step[v].op \in {"link", "request"} => step[v].subtask \in Subtask
      BY <3>1, StepFields, Files
    <3>3. /\ step[v].op \in {"find", "check", "commit"} =>
               (request'[SubtaskOf(step[v].file)] = NULL <=> request[SubtaskOf(step[v].file)] = NULL)
          /\ step[v].op \in {"link", "request"} =>
               (request'[step[v].subtask] = NULL <=> request[step[v].subtask] = NULL)
      BY <1>4, <3>2
    <3> QED BY <1>10, <3>1, <3>3 DEF StepOK, AllExpected, IsLinked
  <2> QED BY <2>1, <2>2
<1>8. Unrequested'
  <2> SUFFICES ASSUME NEW x \in File, request'[SubtaskOf(x)] = NULL
               PROVE  ~(reports'[x].linked > 0)
    BY DEF Unrequested, IsLinked
  <2>1. request[SubtaskOf(x)] = NULL
    BY <1>4, Files
  <2> QED BY <1>10, <2>1 DEF FilesInv, Unrequested, IsLinked
<1>9. FinishedMeansAllFiles'
  <2> SUFFICES ASSUME NEW x \in Subtask, request'[x] # NULL
               PROVE  request'[x].finished <=>
                        reports'[Source(x)].linked > 0 /\ reports'[Result(x)].linked > 0
    BY DEF FinishedMeansAllFiles, IsLinked
  <2>1. request[x] # NULL /\ (request'[x].finished <=> request[x].finished)
    BY <1>4
  <2> QED BY <1>10, <2>1 DEF FilesInv, FinishedMeansAllFiles, IsLinked
<1> QED BY <1>5, <1>6, <1>7, <1>8, <1>9 DEF FilesInv

\* What does not touch the requests, the reports and the processes.
LEMMA VerifierKeepsFiles ==
  ASSUME FilesInv, UNCHANGED <<request, transfer, reports, step>>, TypeOK'
  PROVE  FilesInv'
BY DEF FilesInv, OneHolder, Holds, StepOK, AllExpected, Unrequested, FinishedMeansAllFiles, IsLinked

LEMMA ReportStepKeepsFiles ==
  ASSUME FilesInv, NEW w \in Worker,
         \/ \E f \in File : FindRequest(w, f)
         \/ FindTransferRequest(w) \/ CheckRequest(w)
  PROVE  FilesInv'
<1>1. /\ transfer \in [Subtask -> [finished : BOOLEAN] \union {NULL}]
      /\ orders \in [Subtask -> Nat] /\ sent \in [Call -> Nat] /\ lost \in SUBSET Call
      /\ step[w] \in StepRecord /\ StepOK(step[w])
  BY DEF FilesInv, TypeOK
<1>2. ASSUME NEW f \in File, FindRequest(w, f) PROVE FilesInv'
  <2> DEFINE s == SubtaskOf(f)
  <2>1. PICK st \in StepRecord :
          /\ st.op = "find" /\ st.file = f /\ st.found = (request[s] # NULL) /\ Goto(w, st)
    <3> DEFINE st == [op |-> "find", file |-> f, found |-> request[s] # NULL]
    <3>1. st \in StepRecord
      BY <1>2 DEF StepRecord
    <3> QED BY <1>2, <3>1 DEF FindRequest
  <2>2. UNCHANGED <<request, transfer, reports, orders, verifier, sent, lost>> /\ IsFree(s)
    BY <1>2 DEF FindRequest
  <2>3. StepOK(st)'
    BY <2>1, <2>2 DEF StepOK
  <2>4. \A x \in Subtask : Holds(st, x) => IsFree(x)
    BY <2>1, <2>2 DEF Holds
  <2> QED BY <1>1, <2>1, <2>2, <2>3, <2>4, StepKeepsFiles
<1>3. ASSUME FindTransferRequest(w) PROVE FilesInv'
  <2> DEFINE f == step[w].file
             s == SubtaskOf(f)
  <2>1. f \in File /\ s \in Subtask /\ step[w].op = "find" /\ step[w].found \in BOOLEAN
    BY <1>1, <1>3, StepFields, Files DEF FindTransferRequest
  <2>2. PICK st \in StepRecord :
          /\ st.op \in {"check", "commit"} /\ st.file = f /\ st.found = step[w].found
          /\ st.complete = (step[w].found /\ AllExpected(f)) /\ st.call = NeedsCall(f)
          /\ Goto(w, st)
    <3> DEFINE op == IF NeedsCall(f) THEN "check" ELSE "commit"
               complete == step[w].found /\ AllExpected(f)
               st == [op |-> op, file |-> f, found |-> step[w].found, complete |-> complete,
                      call |-> NeedsCall(f)]
    <3>1. complete \in BOOLEAN /\ op \in {"check", "commit"}
      BY <2>1
    <3>2. NeedsCall(f) \in BOOLEAN
      <4>1. transfer[s] # NULL => transfer[s] \in [finished : BOOLEAN]
        BY <1>1, <2>1
      <4> QED BY <4>1 DEF NeedsCall
    <3>3. st \in [op : {"check", "commit"}, file : File, found : BOOLEAN, complete : BOOLEAN,
                  call : BOOLEAN]
      BY <2>1, <3>1, <3>2
    <3>4. st \in StepRecord
      BY <3>3 DEF StepRecord
    <3>5. Goto(w, st)
      BY <1>3 DEF FindTransferRequest
    <3> HIDE DEF st
    <3>6. /\ st.op = op /\ st.file = f /\ st.found = step[w].found
          /\ st.complete = complete /\ st.call = NeedsCall(f)
      BY DEF st
    <3> QED BY <3>1, <3>4, <3>5, <3>6
  <2>3. UNCHANGED <<request, transfer, reports, orders, verifier, sent, lost>>
    BY <1>3 DEF FindTransferRequest
  <2>4. StepOK(st)'
    <3>1. step[w].found => request[s] # NULL
      BY <1>1, <2>1 DEF StepOK
    <3>2. st.call => transfer[s] # NULL
      BY <2>2 DEF NeedsCall
    <3> QED BY <2>2, <2>3, <3>1, <3>2 DEF StepOK, AllExpected, IsLinked
  <2>5. \A x \in Subtask : Holds(st, x) => Holds(step[w], x)
    BY <2>1, <2>2 DEF Holds
  <2> QED BY <1>1, <2>2, <2>3, <2>4, <2>5, StepKeepsFiles
<1>4. ASSUME CheckRequest(w) PROVE FilesInv'
  <2>1. /\ step[w].op = "check"
        /\ UNCHANGED <<request, transfer, reports, orders, verifier, sent, lost>>
    BY <1>4 DEF CheckRequest
  <2>2. PICK st \in StepRecord : Goto(w, st) /\ (st = Idle \/ st = [step[w] EXCEPT !.op = "commit"])
    <3>1. Idle \in StepRecord
      BY DEF StepRecord
    <3>2. [step[w] EXCEPT !.op = "commit"] \in StepRecord
      <4>1. step[w] \in [op : {"check", "commit"}, file : File, found : BOOLEAN,
                         complete : BOOLEAN, call : BOOLEAN]
        BY <1>1, <2>1 DEF StepRecord, Idle
      <4>2. [step[w] EXCEPT !.op = "commit"]
              \in [op : {"check", "commit"}, file : File, found : BOOLEAN, complete : BOOLEAN,
                   call : BOOLEAN]
        BY <4>1
      <4> QED BY <4>2 DEF StepRecord
    <3> QED BY <1>4, <3>1, <3>2 DEF CheckRequest
  <2>3. \/ st = Idle
        \/ /\ st.op = "commit" /\ st.file = step[w].file /\ st.found = step[w].found
           /\ st.complete = step[w].complete /\ st.call = step[w].call
    <3>1. step[w] \in [op : {"check", "commit"}, file : File, found : BOOLEAN,
                       complete : BOOLEAN, call : BOOLEAN]
      BY <1>1, <2>1 DEF StepRecord, Idle
    <3> QED BY <2>2, <3>1
  <2>4. StepOK(st)'
    BY <1>1, <2>1, <2>3 DEF StepOK, AllExpected, IsLinked, Idle
  <2>5. \A x \in Subtask : Holds(st, x) => Holds(step[w], x)
    <3>1. step[w].found \in BOOLEAN
      BY <1>1, <2>1, StepFields
    <3>2. CASE st = Idle
      BY <3>2 DEF Holds, Idle
    <3>3. CASE st # Idle
      BY <2>1, <2>3, <3>1, <3>3 DEF Holds
    <3> QED BY <3>2, <3>3
  <2> QED BY <1>1, <2>1, <2>2, <2>4, <2>5, StepKeepsFiles
<1> QED BY <1>2, <1>3, <1>4

LEMMA LinkKeepsFiles ==
  ASSUME FilesInv, NEW w \in Worker,
         (\E s \in Subtask : LinkSource(w, s)) \/ LinkResult(w)
  PROVE  FilesInv'
<1>1. /\ transfer \in [Subtask -> [finished : BOOLEAN] \union {NULL}]
      /\ orders \in [Subtask -> Nat] /\ sent \in [Call -> Nat] /\ lost \in SUBSET Call
      /\ step[w] \in StepRecord /\ StepOK(step[w])
  BY DEF FilesInv, TypeOK
<1>2. ASSUME NEW s \in Subtask, LinkSource(w, s) PROVE FilesInv'
  <2>1. Source(s) \in File /\ reports[Source(s)].unlinked \in Nat
    BY SubtasksFiles, Reports DEF FilesInv
  <2>2. PICK st \in StepRecord :
          /\ st.op = "link" /\ st.subtask = s /\ st.source = reports[Source(s)].unlinked
          /\ Goto(w, st)
    BY <1>2, <2>1 DEF LinkSource, StepRecord
  <2>3. UNCHANGED <<request, transfer, reports, orders, verifier, sent, lost>>
    BY <1>2 DEF LinkSource
  <2>4. StepOK(st)'
    BY <2>1, <2>2, <2>3 DEF StepOK
  <2>5. \A x \in Subtask : ~Holds(st, x)
    BY <2>2 DEF Holds
  <2> QED BY <1>1, <2>2, <2>3, <2>4, <2>5, StepKeepsFiles
<1>3. ASSUME LinkResult(w) PROVE FilesInv'
  <2> DEFINE s == step[w].subtask
  <2>1. s \in Subtask /\ step[w].source \in Nat /\ step[w].op = "link"
    BY <1>1, <1>3, StepFields DEF LinkResult
  <2>2. Result(s) \in File /\ reports[Result(s)].unlinked \in Nat
    BY <2>1, SubtasksFiles, Reports DEF FilesInv
  <2>3. PICK st \in StepRecord :
          /\ st.op = "request" /\ st.subtask = s /\ st.source = step[w].source
          /\ st.result = reports[Result(s)].unlinked /\ Goto(w, st)
    BY <1>3, <2>1, <2>2 DEF LinkResult, StepRecord
  <2>4. UNCHANGED <<request, transfer, reports, orders, verifier, sent, lost>>
    BY <1>3 DEF LinkResult
  <2>5. StepOK(st)'
    BY <1>1, <2>1, <2>2, <2>3, <2>4 DEF StepOK
  <2>6. \A x \in Subtask : ~Holds(st, x)
    BY <2>3 DEF Holds
  <2> QED BY <1>1, <2>3, <2>4, <2>5, <2>6, StepKeepsFiles
<1> QED BY <1>2, <1>3

\* Steps after which a process has found out nothing about requests and reports.
LEMMA OtherStepKeepsFiles ==
  ASSUME FilesInv, NEW w \in Worker, NEW st \in StepRecord, Goto(w, st),
         st.op \in {"idle", "checkTransfer", "transfer", "callbacks"},
         UNCHANGED <<request, reports, verifier>>,
         transfer' \in [Subtask -> [finished : BOOLEAN] \union {NULL}],
         \A s \in Subtask : transfer[s] # NULL => transfer'[s] # NULL,
         orders' \in [Subtask -> Nat], sent' \in [Call -> Nat], lost' \in SUBSET Call
  PROVE  FilesInv'
<1>1. StepOK(st)'
  BY DEF StepOK
<1>2. \A x \in Subtask : ~Holds(st, x)
  BY DEF Holds
<1> QED BY <1>1, <1>2, StepKeepsFiles

LEMMA TransferKeepsFiles ==
  ASSUME FilesInv, NEW w \in Worker,
         \/ \E s \in Subtask : StartTransfer(w, s)
         \/ CheckTransfer(w) \/ CommitTransfer(w)
  PROVE  FilesInv'
<1>1. /\ transfer \in [Subtask -> [finished : BOOLEAN] \union {NULL}]
      /\ orders \in [Subtask -> Nat] /\ sent \in [Call -> Nat] /\ lost \in SUBSET Call
      /\ step[w] \in StepRecord
  BY DEF FilesInv, TypeOK
<1>2. Idle \in StepRecord /\ Idle.op = "idle"
  BY DEF StepRecord, Idle
<1>3. ASSUME NEW s \in Subtask, StartTransfer(w, s) PROVE FilesInv'
  <2>1. PICK st \in StepRecord : st.op \in {"checkTransfer", "transfer"} /\ Goto(w, st)
    <3>1. IsReported(Result(s)) \in BOOLEAN
      BY DEF IsReported
    <3>2. [op |-> IF IsReported(Result(s)) THEN "checkTransfer" ELSE "transfer", subtask |-> s,
           call |-> IsReported(Result(s))] \in StepRecord
      BY <3>1 DEF StepRecord
    <3> QED BY <1>3, <3>2 DEF StartTransfer
  <2>2. UNCHANGED <<request, transfer, reports, orders, verifier, sent, lost>>
    BY <1>3 DEF StartTransfer
  <2> QED BY <1>1, <2>1, <2>2, OtherStepKeepsFiles
<1>4. ASSUME CheckTransfer(w) PROVE FilesInv'
  <2>1. step[w] \in [op : {"checkTransfer", "transfer"}, subtask : Subtask, call : BOOLEAN]
    BY <1>1, <1>4 DEF CheckTransfer, StepRecord, Idle
  <2>2. /\ [step[w] EXCEPT !.op = "transfer"] \in StepRecord
        /\ [step[w] EXCEPT !.op = "transfer"].op = "transfer"
    <3>1. [step[w] EXCEPT !.op = "transfer"]
            \in [op : {"checkTransfer", "transfer"}, subtask : Subtask, call : BOOLEAN]
      BY <2>1
    <3> QED BY <2>1, <3>1 DEF StepRecord
  <2>3. PICK st \in StepRecord : st.op \in {"idle", "transfer"} /\ Goto(w, st)
    BY <1>2, <1>4, <2>2 DEF CheckTransfer
  <2>4. UNCHANGED <<request, transfer, reports, orders, verifier, sent, lost>>
    BY <1>4 DEF CheckTransfer
  <2> QED BY <1>1, <2>3, <2>4, OtherStepKeepsFiles
<1>5. ASSUME CommitTransfer(w) PROVE FilesInv'
  <2> DEFINE s == step[w].subtask
             calls == CallIf(step[w].call, "result_upload_finished", s)
             commit == [op |-> "callbacks", calls |-> calls]
  <2>1. s \in Subtask /\ step[w].call \in BOOLEAN
    BY <1>1, <1>5, StepFields DEF CommitTransfer
  <2>2. commit \in StepRecord
    <3>1. <<"result_upload_finished", s>> \in Call
      BY <2>1 DEF Call
    <3>2. calls \in Seq(Call)
      BY <3>1 DEF CallIf
    <3> QED BY <3>2 DEF StepRecord
  <2>3. PICK st \in StepRecord : st.op = "callbacks" /\ Goto(w, st)
    BY <1>5, <2>2 DEF CommitTransfer, Callbacks
  <2>4. /\ transfer' = [transfer EXCEPT ![s] = [finished |-> step[w].call]]
        /\ UNCHANGED <<request, reports, orders, verifier, sent, lost>>
    BY <1>5 DEF CommitTransfer
  <2>5. /\ [finished |-> step[w].call] \in [finished : BOOLEAN]
        /\ [finished |-> step[w].call] # NULL
    BY <2>1, ConductorAssumption
  <2>6. /\ transfer' \in [Subtask -> [finished : BOOLEAN] \union {NULL}]
        /\ \A x \in Subtask : transfer[x] # NULL => transfer'[x] # NULL
    BY <1>1, <2>1, <2>4, <2>5
  <2> QED BY <1>1, <2>3, <2>4, <2>6, OtherStepKeepsFiles
<1> QED BY <1>3, <1>4, <1>5

LEMMA EndKeepsFiles ==
  ASSUME FilesInv, NEW w \in Worker,
         Delay(w) \/ Done(w) \/ Rollback(w) \/ LoseCallbacks(w)
  PROVE  FilesInv'
<1>1. /\ transfer \in [Subtask -> [finished : BOOLEAN] \union {NULL}]
      /\ orders \in [Subtask -> Nat] /\ sent \in [Call -> Nat] /\ lost \in SUBSET Call
      /\ step[w] \in StepRecord
  BY DEF FilesInv, TypeOK
<1>2. Idle \in StepRecord /\ Idle.op = "idle"
  BY DEF StepRecord, Idle
<1>3. CASE Done(w) \/ Rollback(w)
  <2>1. Goto(w, Idle) /\ UNCHANGED <<request, transfer, reports, orders, verifier, sent, lost>>
    BY <1>3 DEF Done, Rollback
  <2> QED BY <1>1, <1>2, <2>1, OtherStepKeepsFiles
<1>4. CASE LoseCallbacks(w)
  <2>1. step[w].calls \in Seq(Call)
    BY <1>1, <1>4, StepFields DEF LoseCallbacks
  <2>2. {step[w].calls[i] : i \in 1..Len(step[w].calls)} \subseteq Call
    BY <2>1
  <2>3. Goto(w, Idle) /\ UNCHANGED <<request, transfer, reports, orders, verifier, sent>>
    BY <1>4 DEF LoseCallbacks
  <2>4. lost' \in SUBSET Call
    BY <1>1, <1>4, <2>2 DEF LoseCallbacks
  <2> QED BY <1>1, <1>2, <2>3, <2>4, OtherStepKeepsFiles
<1>5. CASE Delay(w)
  <2> DEFINE call == Head(step[w].calls)
  <2>1. step[w].calls \in Seq(Call) /\ step[w].calls # <<>>
    BY <1>1, <1>5, StepFields DEF Delay
  <2>2. call \in Call /\ Tail(step[w].calls) \in Seq(Call)
    BY <2>1
  <2>3. PICK st \in StepRecord : st.op = "callbacks" /\ Goto(w, st)
    <3>1. [op |-> "callbacks", calls |-> Tail(step[w].calls)] \in StepRecord
      BY <2>2 DEF StepRecord
    <3> QED BY <1>5, <3>1 DEF Delay, Callbacks
  <2>4. UNCHANGED <<request, transfer, reports, verifier, lost>>
    BY <1>5 DEF Delay
  <2>5. sent' \in [Call -> Nat]
    <3>1. sent' = [sent EXCEPT ![call] = sent[call] + 1]
      BY <1>5 DEF Delay
    <3> HIDE DEF call
    <3> QED BY <1>1, <2>2, <3>1
  <2>6. orders' \in [Subtask -> Nat]
    <3>1. orders' = orders \/ orders' = [orders EXCEPT ![call[2]] = orders[call[2]] + 1]
      BY <1>5 DEF Delay
    <3>2. call[2] \in Subtask
      BY <2>2 DEF Call
    <3> HIDE DEF call
    <3> QED BY <1>1, <3>1, <3>2
  <2> QED BY <1>1, <2>3, <2>4, <2>5, <2>6, OtherStepKeepsFiles
<1> QED BY <1>3, <1>4, <1>5

LEMMA VerifierTypes ==
  ASSUME TypeOK,
         \/ \E s \in Subtask : TakeOrder(s)
         \/ Pass
         \/ \E verdict \in {"MATCH", "MISMATCH", "ERROR"} : Verdict(verdict)
         \/ Abandon
  PROVE  TypeOK' /\ UNCHANGED <<request, transfer, reports, step>>
<1>1. Len(Stages) = 9
  BY DEF Stages
<1>2. ASSUME NEW s \in Subtask, TakeOrder(s) PROVE TypeOK'
  <2>1. orders' = [orders EXCEPT ![s] = orders[s] - 1] /\ orders[s] > 0
    BY <1>2 DEF TakeOrder
  <2>2. orders' \in [Subtask -> Nat]
    BY <2>1 DEF TypeOK
  <2> QED BY <1>1, <1>2, <2>2 DEF TypeOK, TakeOrder
<1>3. verifier.op = "verify" =>
        verifier \in [op : {"verify"}, subtask : Subtask, stage : 1..Len(Stages)]
  BY DEF TypeOK, Idle
<1>4. ASSUME Pass PROVE TypeOK'
  <2>1. /\ verifier \in [op : {"verify"}, subtask : Subtask, stage : 1..9] /\ verifier.stage < 9
        /\ verifier' = [verifier EXCEPT !.stage = verifier.stage + 1]
    BY <1>1, <1>3, <1>4 DEF Pass
  <2>2. verifier' \in [op : {"verify"}, subtask : Subtask, stage : 1..9]
    BY <2>1
  <2> QED BY <1>1, <1>4, <2>2 DEF TypeOK, Pass
<1>5. ASSUME NEW verdict, Verdict(verdict) PROVE TypeOK'
  <2> DEFINE call == <<"verification_result", verifier.subtask>>
  <2>1. call \in Call
    BY <1>3, <1>5 DEF Verdict, Call
  <2>2. sent' = [sent EXCEPT ![call] = sent[call] + 1]
    BY <1>5 DEF Verdict
  <2>3. sent' \in [Call -> Nat]
    <3> HIDE DEF call
    <3> QED BY <2>1, <2>2 DEF TypeOK
  <2> QED BY <1>5, <2>3 DEF TypeOK, Verdict
<1>6. ASSUME Abandon PROVE TypeOK'
  <2>1. <<"verification_result", verifier.subtask>> \in Call
    BY <1>3, <1>6 DEF Abandon, Call
  <2> QED BY <1>6, <2>1 DEF TypeOK, Abandon
<1>7. UNCHANGED <<request, transfer, reports, step>>
  BY DEF TakeOrder, Pass, Verdict, Abandon
<1> QED BY <1>2, <1>4, <1>5, <1>6, <1>7

LEMMA InitFiles == Init => FilesInv
<1> SUFFICES ASSUME Init PROVE FilesInv
  OBVIOUS
<1>1. TypeOK
  BY DEF Init, TypeOK, StepRecord, Idle
<1>2. \A w \in Worker : step[w] = Idle /\ Idle.op = "idle"
  BY DEF Init, Idle
<1>3. OneHolder /\ \A w \in Worker : StepOK(step[w])
  BY <1>2 DEF OneHolder, Holds, StepOK
<1>4. Unrequested
  <2>1. \A f \in File : reports[f].linked = 0
    BY DEF Init
  <2> QED BY <2>1 DEF Unrequested, IsLinked
<1>5. FinishedMeansAllFiles
  BY DEF Init, FinishedMeansAllFiles
<1> QED BY <1>1, <1>3, <1>4, <1>5 DEF FilesInv

LEMMA NextFiles == FilesInv /\ [Next]_vars => FilesInv'
<1> SUFFICES ASSUME FilesInv, [Next]_vars PROVE FilesInv'
  OBVIOUS
<1>1. CASE UNCHANGED vars
  BY <1>1 DEF vars, FilesInv, TypeOK, OneHolder, Holds, StepOK, AllExpected, Unrequested,
              FinishedMeansAllFiles, IsLinked
<1>2. ASSUME NEW w \in Worker,
             \/ \E f \in File : FindRequest(w, f)
             \/ FindTransferRequest(w) \/ CheckRequest(w) \/ CommitReport(w)
      PROVE  FilesInv'
  BY <1>2, ReportStepKeepsFiles, CommitReportKeepsFiles
<1>3. ASSUME NEW w \in Worker,
             (\E s \in Subtask : LinkSource(w, s)) \/ LinkResult(w) \/ CommitRequest(w)
      PROVE  FilesInv'
  BY <1>3, LinkKeepsFiles, CommitRequestKeepsFiles
<1>4. ASSUME NEW w \in Worker,
             \/ \E s \in Subtask : StartTransfer(w, s) \/ UploadAcknowledged(w, s)
             \/ CheckTransfer(w) \/ CommitTransfer(w)
      PROVE  FilesInv'
  BY <1>4, TransferKeepsFiles, UploadAcknowledgedKeepsFiles
<1>5. ASSUME NEW w \in Worker, Delay(w) \/ Done(w) \/ Rollback(w) \/ LoseCallbacks(w)
      PROVE  FilesInv'
  BY <1>5, EndKeepsFiles
<1>6. ASSUME \/ \E s \in Subtask : TakeOrder(s)
             \/ Pass
             \/ \E verdict \in {"MATCH", "MISMATCH", "ERROR"} : Verdict(verdict)
             \/ Abandon
      PROVE  FilesInv'
  BY <1>6, VerifierTypes, VerifierKeepsFiles DEF FilesInv
<1> QED BY <1>1, <1>2, <1>3, <1>4, <1>5, <1>6 DEF Next

-----------------------------------------------------------------------------
(* Each subtask is announced and verified once. *)

\* A process at step st is about to make a call; calls that follow another are of one kind.
Waits(st, kind, s) == st.op = "callbacks" /\ st.calls # <<>> /\ Head(st.calls) = <<kind, s>>

CallsOK(st) ==
  st.op = "callbacks" =>
    /\ \A s \in Subtask : ~Waits(st, "verification_result", s)
    /\ \A i \in 2..Len(st.calls) : st.calls[i][1] = "result_upload_finished"

IsFinished(s) == request[s] # NULL /\ request[s].finished
IsAcknowledged(s) == IsFinished(s) /\ request[s].acknowledged
Verifying(s) == verifier.op = "verify" /\ verifier.subtask = s

\* The core was told, or one process will tell it.
UploadOnce(s) ==
  LET n == sent[<<"upload_finished", s>>] IN
  /\ n <= 1
  /\ n = 1 => IsFinished(s)
  /\ \A w \in Worker : Waits(step[w], "upload_finished", s) => n = 0 /\ IsFinished(s)
  /\ \A v, w \in Worker :
       Waits(step[v], "upload_finished", s) /\ Waits(step[w], "upload_finished", s) => v = w

\* The order is with one process, in the queue, with the verifier, or it has its verdict.
OrderOnce(s) ==
  LET n == sent[<<"verification_result", s>>] IN
  /\ n <= 1
  /\ orders[s] <= 1
  /\ n = 1 => IsAcknowledged(s)
  /\ Verifying(s) => IsAcknowledged(s) /\ n = 0
  /\ orders[s] = 1 => IsAcknowledged(s) /\ n = 0 /\ ~Verifying(s)
  /\ \A w \in Worker :
       Waits(step[w], "blender_verification_order", s) =>
         IsAcknowledged(s) /\ n = 0 /\ orders[s] = 0 /\ ~Verifying(s)
  /\ \A v, w \in Worker :
       /\ Waits(step[v], "blender_verification_order", s)
       /\ Waits(step[w], "blender_verification_order", s)
       => v = w

OnceInv ==
  /\ \A w \in Worker : CallsOK(step[w])
  /\ \A s \in Subtask : UploadOnce(s) /\ OrderOnce(s)

LEMMA FinishedIsBoolean ==
  ASSUME TypeOK, NEW s \in Subtask
  PROVE  IsFinished(s) \in BOOLEAN /\ IsAcknowledged(s) \in BOOLEAN /\ Verifying(s) \in BOOLEAN
BY DEF IsFinished, IsAcknowledged, Verifying

\* A step with which nobody starts to wait and nothing is called.
LEMMA QuietKeepsOnce ==
  ASSUME TypeOK, OnceInv,
         NEW w \in Worker, NEW st, Goto(w, st), CallsOK(st),
         \A s \in Subtask : \A kind \in {"upload_finished", "blender_verification_order"} :
           Waits(st, kind, s) => Waits(step[w], kind, s),
         \A s \in Subtask : /\ IsFinished(s) => IsFinished(s)'
                            /\ IsAcknowledged(s) => IsAcknowledged(s)',
         UNCHANGED <<orders, verifier, sent>>
  PROVE  OnceInv'
<1>1. step'[w] = st /\ \A v \in Worker : v # w => step'[v] = step[v]
  BY DEF TypeOK, Goto
<1>2. \A v \in Worker : CallsOK(step'[v])
  BY <1>1 DEF OnceInv
<1>3. \A v \in Worker : \A s \in Subtask :
        \A kind \in {"upload_finished", "blender_verification_order"} :
          Waits(step'[v], kind, s) => Waits(step[v], kind, s)
  BY <1>1
<1>4. ASSUME NEW s \in Subtask PROVE UploadOnce(s)' /\ OrderOnce(s)'
  <2>1. UploadOnce(s) /\ OrderOnce(s)
    BY DEF OnceInv
  <2>2. UploadOnce(s)'
    BY <1>3, <2>1 DEF UploadOnce
  <2>3. Verifying(s)' <=> Verifying(s)
    BY DEF Verifying
  <2>4. OrderOnce(s)'
    BY <1>3, <2>1, <2>3 DEF OrderOnce
  <2> QED BY <2>2, <2>4
<1> QED BY <1>2, <1>4 DEF OnceInv

\* A process that is not about to call anything.
LEMMA SilentKeepsOnce ==
  ASSUME TypeOK, OnceInv, NEW w \in Worker, NEW st, Goto(w, st), st.op # "callbacks",
         UNCHANGED <<request, orders, verifier, sent>>
  PROVE  OnceInv'
<1>1. CallsOK(st) /\ \A s \in Subtask : \A kind : ~Waits(st, kind, s)
  BY DEF CallsOK, Waits
<1>2. \A s \in Subtask : /\ IsFinished(s) => IsFinished(s)'
                         /\ IsAcknowledged(s) => IsAcknowledged(s)'
  BY DEF IsFinished, IsAcknowledged
<1> QED BY <1>1, <1>2, QuietKeepsOnce

LEMMA ReadingKeepsOnce ==
  ASSUME TypeOK, OnceInv, NEW w \in Worker,
         \/ \E f \in File : FindRequest(w, f)
         \/ FindTransferRequest(w) \/ CheckRequest(w)
         \/ \E s \in Subtask : LinkSource(w, s) \/ StartTransfer(w, s)
         \/ LinkResult(w) \/ CheckTransfer(w)
         \/ Done(w) \/ Rollback(w) \/ LoseCallbacks(w)
  PROVE  OnceInv'
<1>0. step[w] \in StepRecord
  BY DEF TypeOK
<1>1. PICK st : Goto(w, st) /\ st.op # "callbacks"
  <2>1. ASSUME NEW f \in File, FindRequest(w, f)
        PROVE  \E st : Goto(w, st) /\ st.op # "callbacks"
    <3> DEFINE st == [op |-> "find", file |-> f, found |-> request[SubtaskOf(f)] # NULL]
    <3>1. Goto(w, st)
      BY <2>1 DEF FindRequest
    <3>2. st.op # "callbacks"
      OBVIOUS
    <3> HIDE DEF st
    <3> QED BY <3>1, <3>2
  <2>6. ASSUME FindTransferRequest(w)
        PROVE  \E st : Goto(w, st) /\ st.op # "callbacks"
    <3> DEFINE f == step[w].file
               st == [op |-> IF NeedsCall(f) THEN "check" ELSE "commit", file |-> f,
                      found |-> step[w].found, complete |-> step[w].found /\ AllExpected(f),
                      call |-> NeedsCall(f)]
    <3>1. Goto(w, st)
      BY <2>6 DEF FindTransferRequest
    <3>2. st.op # "callbacks"
      OBVIOUS
    <3> HIDE DEF st
    <3> QED BY <3>1, <3>2
  <2>2. ASSUME NEW s \in Subtask, LinkSource(w, s)
        PROVE  \E st : Goto(w, st) /\ st.op # "callbacks"
    BY <2>2 DEF LinkSource
  <2>7. ASSUME NEW s \in Subtask, StartTransfer(w, s)
        PROVE  \E st : Goto(w, st) /\ st.op # "callbacks"
    <3> DEFINE st == [op |-> IF IsReported(Result(s)) THEN "checkTransfer" ELSE "transfer",
                      subtask |-> s, call |-> IsReported(Result(s))]
    <3>1. Goto(w, st)
      BY <2>7 DEF StartTransfer
    <3>2. st.op # "callbacks"
      OBVIOUS
    <3> HIDE DEF st
    <3> QED BY <3>1, <3>2
  <2>8. CASE LinkResult(w)
    BY <2>8 DEF LinkResult
  <2>3. CASE Done(w) \/ Rollback(w) \/ LoseCallbacks(w)
    BY <2>3 DEF Done, Rollback, LoseCallbacks, Idle
  <2>4. CASE CheckRequest(w)
    <3>1. step[w] \in [op : {"check", "commit"}, file : File, found : BOOLEAN,
                       complete : BOOLEAN, call : BOOLEAN]
      BY <1>0, <2>4 DEF CheckRequest, StepRecord, Idle
    <3>2. [step[w] EXCEPT !.op = "commit"].op # "callbacks"
      BY <3>1
    <3> QED BY <2>4, <3>2 DEF CheckRequest, Idle
  <2>5. CASE CheckTransfer(w)
    <3>1. step[w] \in [op : {"checkTransfer", "transfer"}, subtask : Subtask, call : BOOLEAN]
      BY <1>0, <2>5 DEF CheckTransfer, StepRecord, Idle
    <3>2. [step[w] EXCEPT !.op = "transfer"].op # "callbacks"
      BY <3>1
    <3> QED BY <2>5, <3>2 DEF CheckTransfer, Idle
  <2> QED BY <2>1, <2>2, <2>3, <2>4, <2>5, <2>6, <2>7, <2>8
<1>2. UNCHANGED <<request, orders, verifier, sent>>
  BY DEF FindRequest, FindTransferRequest, CheckRequest, LinkSource, LinkResult, StartTransfer,
         CheckTransfer, Done, Rollback, LoseCallbacks
<1> QED BY <1>1, <1>2, SilentKeepsOnce

LEMMA CommitTransferKeepsOnce ==
  ASSUME TypeOK, OnceInv, NEW w \in Worker, CommitTransfer(w)
  PROVE  OnceInv'
<1> DEFINE s == step[w].subtask
           calls == CallIf(step[w].call, "result_upload_finished", s)
           st == [op |-> "callbacks", calls |-> calls]
<1>1. Goto(w, st) /\ UNCHANGED <<request, orders, verifier, sent>>
  BY DEF CommitTransfer, Callbacks
<1>2. calls = <<>> \/ calls = << <<"result_upload_finished", s>> >>
  BY DEF CallIf
<1>3. CallsOK(st) /\ \A x \in Subtask :
        \A kind \in {"upload_finished", "blender_verification_order"} : ~Waits(st, kind, x)
  BY <1>2 DEF CallsOK, Waits
<1>4. \A x \in Subtask : /\ IsFinished(x) => IsFinished(x)'
                         /\ IsAcknowledged(x) => IsAcknowledged(x)'
  BY <1>1 DEF IsFinished, IsAcknowledged
<1> HIDE DEF st
<1> QED BY <1>1, <1>3, <1>4, QuietKeepsOnce

\* A request is finished in the step that makes a process wait to tell the core.
LEMMA FinishingKeepsOnce ==
  ASSUME TypeOK, OnceInv, NEW w \in Worker, NEW s \in Subtask, NEW st, Goto(w, st), CallsOK(st),
         step[w].op # "callbacks",
         ~IsFinished(s), IsFinished(s)',
         \A x \in Subtask : \A kind \in {"upload_finished", "blender_verification_order"} :
           Waits(st, kind, x) => kind = "upload_finished" /\ x = s,
         \A x \in Subtask : x # s => request'[x] = request[x],
         UNCHANGED <<orders, verifier, sent>>
  PROVE  OnceInv'
<1>1. step'[w] = st /\ \A v \in Worker : v # w => step'[v] = step[v]
  BY DEF TypeOK, Goto
<1>2. \A v \in Worker : CallsOK(step'[v])
  BY <1>1 DEF OnceInv
<1>3. \A v \in Worker : \A x \in Subtask :
        /\ Waits(step'[v], "blender_verification_order", x) =>
             Waits(step[v], "blender_verification_order", x)
        /\ Waits(step'[v], "upload_finished", x) =>
             \/ Waits(step[v], "upload_finished", x)
             \/ v = w /\ x = s
  BY <1>1
<1>4. ASSUME NEW x \in Subtask PROVE UploadOnce(x)' /\ OrderOnce(x)'
  <2>1. /\ UploadOnce(x) /\ OrderOnce(x)
        /\ IsFinished(x) => IsFinished(x)'
        /\ IsAcknowledged(x) => IsAcknowledged(x)'
        /\ Verifying(x)' <=> Verifying(x)
    BY DEF OnceInv, IsFinished, IsAcknowledged, Verifying
  <2>2. UploadOnce(x)'
    <3>1. CASE x # s
      BY <1>3, <2>1, <3>1 DEF UploadOnce
    <3>2. CASE x = s
      <4>1. sent[<<"upload_finished", x>>] = 0
        BY <2>1, <3>2 DEF UploadOnce, TypeOK, Call
      <4>2. \A v \in Worker : Waits(step'[v], "upload_finished", x) => v = w
        BY <1>3, <2>1, <3>2 DEF UploadOnce
      <4> QED BY <3>2, <4>1, <4>2 DEF UploadOnce
    <3> QED BY <3>1, <3>2
  <2>3. OrderOnce(x)'
    BY <1>3, <2>1 DEF OrderOnce
  <2> QED BY <2>2, <2>3
<1> QED BY <1>2, <1>4 DEF OnceInv

LEMMA TwoCalls ==
  ASSUME NEW a, NEW b
  PROVE  LET calls == <<a>> \o <<b>>
         IN  calls # <<>> /\ Len(calls) = 2 /\ Head(calls) = a /\ calls[2] = b
<1>1. <<a>> \in Seq({a, b}) /\ <<b>> \in Seq({a, b})
  OBVIOUS
<1> QED BY <1>1

LEMMA CommitReportKeepsOnce ==
  ASSUME FilesInv, OnceInv, NEW w \in Worker, CommitReport(w)
  PROVE  OnceInv'
<1>0. PICK f \in File, s \in Subtask : f = step[w].file /\ s = SubtaskOf(f)
  BY StepFields, Files DEF CommitReport, FilesInv, TypeOK
<1> DEFINE calls == CallIf(step[w].complete, "upload_finished", s)
                    \o CallIf(step[w].call, "result_upload_finished", s)
           st == [op |-> "callbacks", calls |-> calls]
<1>1. /\ step[w].op = "commit"
      /\ step[w].complete \in BOOLEAN /\ step[w].call \in BOOLEAN
      /\ StepOK(step[w])
  BY StepFields DEF CommitReport, FilesInv, TypeOK
<1>2. Goto(w, st) /\ UNCHANGED <<orders, verifier, sent>>
  BY <1>0 DEF CommitReport, Callbacks
<1>3. /\ step[w].complete => calls # <<>> /\ Head(calls) = <<"upload_finished", s>>
      /\ ~step[w].complete /\ calls # <<>> => Head(calls) = <<"result_upload_finished", s>>
      /\ \A i \in 2..Len(calls) : calls[i][1] = "result_upload_finished"
  <2>1. CASE step[w].complete /\ step[w].call
    <3>1. calls = << <<"upload_finished", s>> >> \o << <<"result_upload_finished", s>> >>
      BY <2>1 DEF CallIf
    <3>2. calls # <<>> /\ Len(calls) = 2 /\ Head(calls) = <<"upload_finished", s>>
          /\ calls[2] = <<"result_upload_finished", s>>
      BY <3>1, TwoCalls
    <3> HIDE DEF calls
    <3> QED BY <2>1, <3>2
  <2>2. CASE step[w].complete /\ ~step[w].call
    <3>1. calls = << <<"upload_finished", s>> >>
      BY <2>2 DEF CallIf
    <3> HIDE DEF calls
    <3> QED BY <2>2, <3>1
  <2>3. CASE ~step[w].complete /\ step[w].call
    <3>1. calls = << <<"result_upload_finished", s>> >>
      BY <2>3 DEF CallIf
    <3> HIDE DEF calls
    <3> QED BY <2>3, <3>1
  <2>4. CASE ~step[w].complete /\ ~step[w].call
    <3>1. calls = <<>>
      BY <2>4 DEF CallIf
    <3> HIDE DEF calls
    <3> QED BY <2>4, <3>1
  <2> QED BY <1>1, <2>1, <2>2, <2>3, <2>4
<1>4. /\ CallsOK(st)
      /\ \A x \in Subtask : ~Waits(st, "blender_verification_order", x)
      /\ \A x \in Subtask : Waits(st, "upload_finished", x) => step[w].complete /\ x = s
  <2> HIDE DEF calls
  <2> QED BY <1>1, <1>3 DEF CallsOK, Waits
<1>5. TypeOK
  BY DEF FilesInv
<1>6. CASE ~step[w].complete
  <2>1. request' = request
    BY <1>6 DEF CommitReport
  <2>2. \A x \in Subtask : /\ IsFinished(x) => IsFinished(x)'
                           /\ IsAcknowledged(x) => IsAcknowledged(x)'
    BY <2>1 DEF IsFinished, IsAcknowledged
  <2> HIDE DEF st
  <2> QED BY <1>2, <1>4, <1>5, <1>6, <2>2, QuietKeepsOnce
<1>7. CASE step[w].complete
  <2>1. request[s] # NULL /\ AllExpected(f)
    BY <1>0, <1>1, <1>7 DEF StepOK
  <2>2. ~IsFinished(s)
    <3>1. f \in {Source(s), Result(s)}
      BY <1>0, SubtasksFiles
    <3> QED BY <1>0, <2>1, <3>1 DEF FilesInv, FinishedMeansAllFiles, AllExpected, IsFinished
  <2>3. request \in [Subtask -> [finished : BOOLEAN, acknowledged : BOOLEAN] \union {NULL}]
    BY <1>5 DEF TypeOK
  <2>4. request[s] \in [finished : BOOLEAN, acknowledged : BOOLEAN]
    BY <2>1, <2>3
  <2>5. request' = [request EXCEPT ![s] = [request[s] EXCEPT !.finished = TRUE]]
    BY <1>0, <1>7 DEF CommitReport
  <2>6. /\ [request[s] EXCEPT !.finished = TRUE] \in [finished : BOOLEAN, acknowledged : BOOLEAN]
        /\ [request[s] EXCEPT !.finished = TRUE].finished
    BY <2>4
  <2>7. IsFinished(s)'
    BY <1>1, <2>3, <2>5, <2>6, ConductorAssumption DEF IsFinished
  <2>8. \A x \in Subtask : x # s => request'[x] = request[x]
    BY <2>3, <2>5
  <2> HIDE DEF st
  <2> QED BY <1>1, <1>2, <1>4, <1>5, <2>2, <2>7, <2>8, FinishingKeepsOnce
<1> QED BY <1>1, <1>6, <1>7

LEMMA CommitRequestKeepsOnce ==
  ASSUME TypeOK, OnceInv, NEW w \in Worker, CommitRequest(w)
  PROVE  OnceInv'
<1>0. PICK s \in Subtask, complete \in BOOLEAN :
        s = step[w].subtask /\ complete = AllFiles(step[w].source, step[w].result)
  BY StepFields DEF CommitRequest, TypeOK, AllFiles
<1> DEFINE calls == CallIf(complete, "upload_finished", s)
           st == [op |-> "callbacks", calls |-> calls]
           new == [finished |-> complete, acknowledged |-> FALSE]
<1>1. step[w].op = "request" /\ request[s] = NULL
  BY <1>0 DEF CommitRequest, UniquePath
<1>2. /\ Goto(w, st) /\ request' = [request EXCEPT ![s] = new]
      /\ UNCHANGED <<orders, verifier, sent>>
  BY <1>0 DEF CommitRequest, Callbacks
<1>4. /\ complete => calls = << <<"upload_finished", s>> >>
      /\ ~complete => calls = <<>>
  BY DEF CallIf
<1>5. /\ CallsOK(st)
      /\ \A x \in Subtask : ~Waits(st, "blender_verification_order", x)
      /\ \A x \in Subtask : Waits(st, "upload_finished", x) => complete /\ x = s
  BY <1>4 DEF CallsOK, Waits
<1>6. /\ request'[s] = new
      /\ \A x \in Subtask : x # s => request'[x] = request[x]
  BY <1>1, <1>2 DEF TypeOK
<1>7. ~IsFinished(s)
  BY <1>1 DEF IsFinished
<1>8. CASE ~complete
  <2>1. \A x \in Subtask : /\ IsFinished(x) => IsFinished(x)'
                           /\ IsAcknowledged(x) => IsAcknowledged(x)'
    BY <1>6, <1>7 DEF IsFinished, IsAcknowledged
  <2> HIDE DEF st
  <2> QED BY <1>2, <1>5, <1>8, <2>1, QuietKeepsOnce
<1>9. CASE complete
  <2>1. new \in [finished : BOOLEAN, acknowledged : BOOLEAN] /\ new.finished
    BY <1>9
  <2>2. IsFinished(s)'
    BY <1>6, <2>1, ConductorAssumption DEF IsFinished
  <2> HIDE DEF st
  <2> QED BY <1>1, <1>2, <1>5, <1>6, <1>7, <2>2, FinishingKeepsOnce
<1> QED BY <1>8, <1>9

LEMMA UploadAcknowledgedKeepsOnce ==
  ASSUME TypeOK, OnceInv, NEW w \in Worker, NEW s \in Subtask, UploadAcknowledged(w, s)
  PROVE  OnceInv'
<1> DEFINE calls == << <<"blender_verification_order", s>> >>
           st == [op |-> "callbacks", calls |-> calls]
<1>1. /\ Goto(w, st) /\ UNCHANGED <<orders, verifier, sent>>
      /\ step[w] = Idle /\ sent[<<"upload_finished", s>>] > 0
      /\ request[s] # NULL /\ ~request[s].acknowledged
  BY DEF UploadAcknowledged, Callbacks, IsNotAcknowledged
<1>2. /\ CallsOK(st)
      /\ \A x \in Subtask : ~Waits(st, "upload_finished", x)
      /\ \A x \in Subtask : Waits(st, "blender_verification_order", x) => x = s
  BY DEF CallsOK, Waits
<1>3. IsFinished(s) /\ ~IsAcknowledged(s)
  <2>1. UploadOnce(s) /\ sent[<<"upload_finished", s>>] \in Nat
    BY DEF OnceInv, TypeOK, Call
  <2> QED BY <1>1, <2>1 DEF UploadOnce, IsAcknowledged
<1>4. request'[s].finished /\ request'[s].acknowledged /\ request'[s] # NULL
  <2>1. request[s] \in [finished : BOOLEAN, acknowledged : BOOLEAN] /\ request[s].finished
    BY <1>1, <1>3 DEF TypeOK, IsFinished
  <2>2. request'[s] = [request[s] EXCEPT !.acknowledged = TRUE]
    BY DEF UploadAcknowledged, TypeOK
  <2>3. request'[s] \in [finished : BOOLEAN, acknowledged : BOOLEAN]
    BY <2>1, <2>2
  <2> QED BY <2>1, <2>2, <2>3, ConductorAssumption
<1>5. \A x \in Subtask : x # s => request'[x] = request[x]
  BY DEF UploadAcknowledged, TypeOK
<1>6. step'[w] = st /\ \A v \in Worker : v # w => step'[v] = step[v]
  BY <1>1 DEF TypeOK, Goto
<1> HIDE DEF st
<1>7. \A v \in Worker : CallsOK(step'[v])
  BY <1>2, <1>6 DEF OnceInv
<1>8. \A v \in Worker : \A x \in Subtask :
        /\ Waits(step'[v], "upload_finished", x) => Waits(step[v], "upload_finished", x)
        /\ Waits(step'[v], "blender_verification_order", x) =>
             \/ Waits(step[v], "blender_verification_order", x)
             \/ v = w /\ x = s
  BY <1>2, <1>6
<1>9. ASSUME NEW x \in Subtask PROVE UploadOnce(x)' /\ OrderOnce(x)'
  <2>1. /\ UploadOnce(x) /\ OrderOnce(x)
        /\ IsFinished(x) => IsFinished(x)'
        /\ IsAcknowledged(x) => IsAcknowledged(x)'
        /\ Verifying(x)' <=> Verifying(x)
        /\ orders' = orders /\ sent' = sent
    BY <1>1, <1>4, <1>5 DEF OnceInv, IsFinished, IsAcknowledged, Verifying
  <2>2. UploadOnce(x)'
    BY <1>8, <2>1 DEF UploadOnce
  <2>3. OrderOnce(x)'
    <3>1. CASE x # s
      BY <1>8, <2>1, <3>1 DEF OrderOnce
    <3>2. CASE x = s
      <4>1. /\ sent[<<"verification_result", x>>] = 0 /\ orders[x] = 0 /\ ~Verifying(x)
            /\ \A v \in Worker : ~Waits(step[v], "blender_verification_order", x)
        BY <1>3, <2>1, <3>2 DEF OrderOnce, TypeOK, Call
      <4>2. IsAcknowledged(x)'
        BY <1>4, <3>2 DEF IsFinished, IsAcknowledged
      <4> QED BY <1>8, <2>1, <3>2, <4>1, <4>2 DEF OrderOnce
    <3> QED BY <3>1, <3>2
  <2> QED BY <2>2, <2>3
<1> QED BY <1>7, <1>9 DEF OnceInv

LEMMA DelayKeepsOnce ==
  ASSUME TypeOK, OnceInv, NEW w \in Worker, Delay(w)
  PROVE  OnceInv'
<1> DEFINE calls == step[w].calls
           call == Head(calls)
           st == [op |-> "callbacks", calls |-> Tail(calls)]
<1>1. /\ step[w].op = "callbacks" /\ calls # <<>> /\ calls \in Seq(Call)
      /\ Goto(w, st) /\ UNCHANGED <<request, verifier>>
  BY StepFields DEF Delay, Callbacks, TypeOK
<1>2. call \in Call /\ CallsOK(step[w])
  BY <1>1 DEF OnceInv
<1>3. PICK kind, s : s \in Subtask /\ call = <<kind, s>>
  BY <1>2 DEF Call
<1>4. Waits(step[w], kind, s) /\ kind # "verification_result"
  BY <1>1, <1>2, <1>3 DEF CallsOK, Waits
<1>5. /\ CallsOK(st)
      /\ \A x \in Subtask : \A k \in {"upload_finished", "blender_verification_order"} :
           ~Waits(st, k, x)
  <2>1. \A i \in 2..Len(calls) : calls[i][1] = "result_upload_finished"
    BY <1>1, <1>2 DEF CallsOK
  <2>2. /\ Tail(calls) \in Seq(Call) /\ Len(Tail(calls)) = Len(calls) - 1
        /\ \A i \in 1..Len(Tail(calls)) : Tail(calls)[i] = calls[i + 1] /\ i + 1 \in 2..Len(calls)
    BY <1>1
  <2>3. \A i \in 1..Len(Tail(calls)) : Tail(calls)[i][1] = "result_upload_finished"
    BY <2>1, <2>2
  <2>4. Tail(calls) # <<>> => Head(Tail(calls))[1] = "result_upload_finished"
    BY <2>2, <2>3
  <2> QED BY <2>2, <2>3, <2>4 DEF CallsOK, Waits
<1>6. step'[w] = st /\ \A v \in Worker : v # w => step'[v] = step[v]
  BY <1>1 DEF TypeOK, Goto
<1>7. sent' = [sent EXCEPT ![<<kind, s>>] = sent[<<kind, s>>] + 1]
  BY <1>3 DEF Delay
<1>8. orders' = IF kind = "blender_verification_order"
                  THEN [orders EXCEPT ![s] = orders[s] + 1] ELSE orders
  <2>1. orders' = IF call[1] = "blender_verification_order"
                    THEN [orders EXCEPT ![call[2]] = orders[call[2]] + 1] ELSE orders
    BY DEF Delay
  <2>2. call[1] = kind /\ call[2] = s
    BY <1>3
  <2> HIDE DEF call
  <2> QED BY <2>1, <2>2
<1> HIDE DEF st
<1>9. \A v \in Worker : CallsOK(step'[v])
  BY <1>5, <1>6 DEF OnceInv
<1>10. \A v \in Worker : \A x \in Subtask :
         \A k \in {"upload_finished", "blender_verification_order"} :
           Waits(step'[v], k, x) => v # w /\ Waits(step[v], k, x)
  BY <1>5, <1>6
<1>11. ASSUME NEW x \in Subtask PROVE UploadOnce(x)' /\ OrderOnce(x)'
  <2>1. /\ UploadOnce(x) /\ OrderOnce(x)
        /\ IsFinished(x)' <=> IsFinished(x)
        /\ IsAcknowledged(x)' <=> IsAcknowledged(x)
        /\ Verifying(x)' <=> Verifying(x)
    BY <1>1 DEF OnceInv, IsFinished, IsAcknowledged, Verifying
  <2>2. sent'[<<"verification_result", x>>] = sent[<<"verification_result", x>>]
    BY <1>3, <1>4, <1>7 DEF TypeOK, Call
  <2>3. UploadOnce(x)'
    <3>1. CASE kind = "upload_finished" /\ x = s
      <4>1. /\ sent[<<"upload_finished", x>>] = 0 /\ IsFinished(x)
            /\ \A v \in Worker : Waits(step[v], "upload_finished", x) => v = w
        BY <1>4, <2>1, <3>1 DEF UploadOnce
      <4>2. sent'[<<"upload_finished", x>>] = 1
        BY <1>7, <3>1, <4>1 DEF TypeOK, Call
      <4>3. \A v \in Worker : ~Waits(step'[v], "upload_finished", x)
        BY <1>10, <4>1
      <4> QED BY <2>1, <4>1, <4>2, <4>3 DEF UploadOnce
    <3>2. CASE kind # "upload_finished" \/ x # s
      <4>1. sent'[<<"upload_finished", x>>] = sent[<<"upload_finished", x>>]
        BY <1>7, <3>2 DEF TypeOK, Call
      <4> QED BY <1>10, <2>1, <4>1 DEF UploadOnce
    <3> QED BY <3>1, <3>2
  <2>4. OrderOnce(x)'
    <3>1. CASE kind = "blender_verification_order" /\ x = s
      <4>1. /\ sent[<<"verification_result", x>>] = 0 /\ orders[x] = 0 /\ ~Verifying(x)
            /\ IsAcknowledged(x)
            /\ \A v \in Worker : Waits(step[v], "blender_verification_order", x) => v = w
        BY <1>4, <2>1, <3>1 DEF OrderOnce
      <4>2. orders'[x] = 1
        BY <1>8, <3>1, <4>1 DEF TypeOK
      <4>3. \A v \in Worker : ~Waits(step'[v], "blender_verification_order", x)
        BY <1>10, <4>1
      <4> QED BY <2>1, <2>2, <4>1, <4>2, <4>3 DEF OrderOnce
    <3>2. CASE kind # "blender_verification_order" \/ x # s
      <4>1. orders'[x] = orders[x]
        BY <1>8, <3>2 DEF TypeOK
      <4> QED BY <1>10, <2>1, <2>2, <4>1 DEF OrderOnce
    <3> QED BY <3>1, <3>2
  <2> QED BY <2>3, <2>4
<1> QED BY <1>9, <1>11 DEF OnceInv

LEMMA VerifierKeepsOnce ==
  ASSUME TypeOK, OnceInv,
         \/ \E s \in Subtask : TakeOrder(s)
         \/ Pass
         \/ \E verdict \in {"MATCH", "MISMATCH", "ERROR"} : Verdict(verdict)
         \/ Abandon
  PROVE  OnceInv'
<1>1. UNCHANGED <<request, step>>
  BY DEF TakeOrder, Pass, Verdict, Abandon
<1>2. \A w \in Worker : CallsOK(step'[w])
  BY <1>1 DEF OnceInv
<1>3. verifier.op = "verify" =>
        verifier \in [op : {"verify"}, subtask : Subtask, stage : 1..Len(Stages)]
  BY DEF TypeOK, Idle
<1>4. ASSUME NEW x \in Subtask PROVE UploadOnce(x)' /\ OrderOnce(x)'
  <2>1. /\ UploadOnce(x) /\ OrderOnce(x)
        /\ IsFinished(x)' <=> IsFinished(x)
        /\ IsAcknowledged(x)' <=> IsAcknowledged(x)
        /\ sent[<<"verification_result", x>>] \in Nat /\ orders[x] \in Nat
    BY <1>1 DEF OnceInv, IsFinished, IsAcknowledged, TypeOK, Call
  <2>2. sent'[<<"upload_finished", x>>] = sent[<<"upload_finished", x>>]
    BY <1>3 DEF TakeOrder, Pass, Verdict, Abandon, TypeOK, Call
  <2>3. UploadOnce(x)'
    BY <1>1, <2>1, <2>2 DEF UploadOnce
  <2>4. ASSUME NEW s \in Subtask, TakeOrder(s) PROVE OrderOnce(x)'
    <3>1. /\ verifier' = [op |-> "verify", subtask |-> s, stage |-> 1]
          /\ orders[s] > 0 /\ orders' = [orders EXCEPT ![s] = orders[s] - 1] /\ sent' = sent
      BY <2>4 DEF TakeOrder
    <3>2. Verifying(x)' <=> x = s
      BY <3>1 DEF Verifying
    <3>3. CASE x = s
      <4>1. orders[x] = 1 /\ orders'[x] = 0
        BY <2>1, <3>1, <3>3 DEF OrderOnce, TypeOK
      <4> QED BY <1>1, <2>1, <3>1, <3>2, <4>1 DEF OrderOnce
    <3>4. CASE x # s
      <4>1. orders'[x] = orders[x]
        BY <3>1, <3>4 DEF TypeOK
      <4> QED BY <1>1, <2>1, <3>1, <3>2, <3>4, <4>1 DEF OrderOnce
    <3> QED BY <3>3, <3>4
  <2>5. ASSUME Pass PROVE OrderOnce(x)'
    <3>1. /\ verifier'.op = "verify" /\ verifier'.subtask = verifier.subtask
          /\ verifier.op = "verify"
      BY <1>3, <2>5 DEF Pass
    <3>2. Verifying(x)' <=> Verifying(x)
      BY <3>1 DEF Verifying
    <3> QED BY <1>1, <2>1, <2>5, <3>2 DEF OrderOnce, Pass
  <2>6. ASSUME Abandon PROVE OrderOnce(x)'
    <3>1. ~Verifying(x)'
      BY <2>6 DEF Abandon, Verifying, Idle
    <3> QED BY <1>1, <2>1, <2>6, <3>1 DEF OrderOnce, Abandon
  <2>7. ASSUME NEW verdict, Verdict(verdict) PROVE OrderOnce(x)'
    <3>1. /\ ~Verifying(x)' /\ orders' = orders /\ verifier.op = "verify"
          /\ sent' = [sent EXCEPT ![<<"verification_result", verifier.subtask>>] =
                        sent[<<"verification_result", verifier.subtask>>] + 1]
      BY <2>7 DEF Verdict, Verifying, Idle
    <3>2. CASE Verifying(x)
      <4>1. x = verifier.subtask /\ sent[<<"verification_result", x>>] = 0
        BY <2>1, <3>2 DEF OrderOnce, Verifying
      <4>2. sent'[<<"verification_result", x>>] = 1
        BY <3>1, <4>1 DEF TypeOK, Call
      <4>3. /\ IsAcknowledged(x) /\ orders[x] = 0
            /\ \A v \in Worker : ~Waits(step[v], "blender_verification_order", x)
        BY <2>1, <3>2 DEF OrderOnce
      <4> QED BY <1>1, <2>1, <3>1, <4>2, <4>3 DEF OrderOnce
    <3>3. CASE ~Verifying(x)
      <4>1. x # verifier.subtask
        BY <3>1, <3>3 DEF Verifying
      <4>2. sent'[<<"verification_result", x>>] = sent[<<"verification_result", x>>]
        BY <3>1, <4>1 DEF TypeOK, Call
      <4> QED BY <1>1, <2>1, <3>1, <3>3, <4>2 DEF OrderOnce
    <3> QED BY <3>2, <3>3
  <2> QED BY <2>3, <2>4, <2>5, <2>6, <2>7
<1> QED BY <1>2, <1>4 DEF OnceInv

LEMMA InitOnce == Init => OnceInv
<1> SUFFICES ASSUME Init PROVE OnceInv
  OBVIOUS
<1>1. \A w \in Worker : step[w].op = "idle"
  BY DEF Init, Idle
<1>2. \A s \in Subtask :
        /\ sent[<<"upload_finished", s>>] = 0 /\ sent[<<"verification_result", s>>] = 0
        /\ orders[s] = 0 /\ ~Verifying(s)
  BY DEF Init, Call, Verifying, Idle
<1>3. \A w \in Worker : CallsOK(step[w])
  BY <1>1 DEF CallsOK
<1>4. \A w \in Worker : \A kind, s : ~Waits(step[w], kind, s)
  BY <1>1 DEF Waits
<1> QED BY <1>2, <1>3, <1>4 DEF OnceInv, UploadOnce, OrderOnce

LEMMA NextOnce == FilesInv /\ OnceInv /\ [Next]_vars => OnceInv'
<1> SUFFICES ASSUME FilesInv, OnceInv, [Next]_vars PROVE OnceInv'
  OBVIOUS
<1>1. TypeOK
  BY DEF FilesInv
<1>2. CASE UNCHANGED vars
  BY <1>2 DEF vars, OnceInv, UploadOnce, OrderOnce, IsFinished, IsAcknowledged, Verifying
<1>3. ASSUME NEW w \in Worker,
             \/ \E f \in File : FindRequest(w, f)
             \/ FindTransferRequest(w) \/ CheckRequest(w)
             \/ \E s \in Subtask : LinkSource(w, s) \/ StartTransfer(w, s)
             \/ LinkResult(w) \/ CheckTransfer(w)
             \/ Done(w) \/ Rollback(w) \/ LoseCallbacks(w)
      PROVE  OnceInv'
  BY <1>1, <1>3, ReadingKeepsOnce
<1>4. ASSUME NEW w \in Worker,
             \/ CommitReport(w) \/ CommitRequest(w) \/ CommitTransfer(w) \/ Delay(w)
             \/ \E s \in Subtask : UploadAcknowledged(w, s)
      PROVE  OnceInv'
  BY <1>1, <1>4, CommitReportKeepsOnce, CommitRequestKeepsOnce, CommitTransferKeepsOnce,
     DelayKeepsOnce, UploadAcknowledgedKeepsOnce
<1>5. ASSUME \/ \E s \in Subtask : TakeOrder(s)
             \/ Pass
             \/ \E verdict \in {"MATCH", "MISMATCH", "ERROR"} : Verdict(verdict)
             \/ Abandon
      PROVE  OnceInv'
  BY <1>1, <1>5, VerifierKeepsOnce
<1> QED BY <1>2, <1>3, <1>4, <1>5 DEF Next

-----------------------------------------------------------------------------
(* The theorems. *)

THEOREM FilesInvariant == Spec => []FilesInv
BY InitFiles, NextFiles, PTL DEF Spec

\* The variables keep their types, whatever the order of the conductor's transactions.
THEOREM TypesAreKept == Spec => []TypeOK
<1>1. FilesInv => TypeOK
  BY DEF FilesInv
<1> QED BY <1>1, FilesInvariant, PTL

\* upload_finished is set exactly when a report of each file is linked with the request,
\* for any number of processes that report files and store requests at the same time.
THEOREM FilesAreComplete == Spec => []FinishedMeansAllFiles
<1>1. FilesInv => FinishedMeansAllFiles
  BY DEF FilesInv
<1> QED BY <1>1, FilesInvariant, PTL

\* The core is told once that the files of a subtask are there, and a subtask is verified
\* once and only then, for any number of processes, with every rollback and lost callback.
THEOREM VerificationsHappenOnce == Spec => []VerifiedOnce
<1>1. FilesInv /\ OnceInv => VerifiedOnce
  <2> SUFFICES ASSUME FilesInv, OnceInv, NEW s \in Subtask
               PROVE  /\ sent[<<"upload_finished", s>>] <= 1
                      /\ sent[<<"verification_result", s>>] <= 1
                      /\ sent[<<"verification_result", s>>] + orders[s] > 0 => request[s].finished
    BY DEF VerifiedOnce
  <2>1. UploadOnce(s) /\ OrderOnce(s)
    BY DEF OnceInv
  <2>2. sent[<<"verification_result", s>>] \in Nat /\ orders[s] \in Nat
    BY DEF FilesInv, TypeOK, Call
  <2>3. ASSUME sent[<<"verification_result", s>>] + orders[s] > 0 PROVE request[s].finished
    <3>1. sent[<<"verification_result", s>>] = 1 \/ orders[s] = 1
      BY <2>1, <2>2, <2>3 DEF OrderOnce
    <3>2. IsAcknowledged(s)
      BY <2>1, <3>1 DEF OrderOnce
    <3> QED BY <3>2 DEF IsAcknowledged, IsFinished
  <2> QED BY <2>1, <2>3 DEF UploadOnce, OrderOnce
<1>2. Spec => []OnceInv
  BY InitOnce, NextOnce, FilesInvariant, PTL DEF Spec
<1> QED BY <1>1, <1>2, FilesInvariant, PTL
=============================================================================
