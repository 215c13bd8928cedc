------------------------- MODULE ScanControllerProofs -------------------------
(***************************************************************************)
(* Proofs about ScanController, for every set of scans that overlap, every *)
(* number of progress lines and of presses of Cancel.                      *)
(***************************************************************************)
EXTENDS ScanController, TLAPS

\* The core process of a scan exists only once the flow has launched it, and
\* runs only while the flow reads it; it exits by itself after its last line.
ProcInv ==
    \A s \in Scans :
      /\ flow[s] \in {"new", "starting", "launching"} => proc[s] = "none"
      /\ flow[s] \in {"reporting", "done"} => proc[s] # "running"
      /\ proc[s] = "exited" => printed[s] = Lines

\* Only an answer that was read to its end waits to be shown as completed.
ResultInv ==
    \A s \in Scans :
      /\ flow[s] = "reporting" => result[s] # "none"
      /\ result[s] = "completed" =>
           /\ flow[s] \in {"reporting", "done"}
           /\ proc[s] = "exited" /\ heard[s] = Lines

\* A cancelScan that waits for its log entry is one press of the button.
PressInv == cancelling <= presses

IInv == /\ TypeOK /\ ProcInv /\ ResultInv /\ PressInv
        /\ NoOrphanScan /\ CompletedMeansRead /\ RunningMeansUnderWay

-----------------------------------------------------------------------------
(* The steps *)

Flows == {"new", "starting", "launching", "reading", "reporting", "done"}

\* A flow moves on, and its process with it; the screen keeps what it says.
LEMMA StartInv ==
    ASSUME IInv, NEW s \in Scans, Start(s) PROVE IInv'
<1>1. /\ flow[s] = "new" /\ flow' = [flow EXCEPT ![s] = "starting"]
      /\ UNCHANGED <<result, heard, listening, active, cancelFlag, cancelling,
                     presses, status, progress, report, proc, printed, cancelled>>
  BY DEF Start, screenVars
<1>2. /\ flow' \in [Scans -> Flows] /\ flow'[s] = "starting"
      /\ \A t \in Scans \ {s} : flow'[t] = flow[t]
  BY <1>1 DEF IInv, TypeOK, Flows
<1>3. TypeOK'
  BY <1>1, <1>2 DEF IInv, TypeOK, Flows
<1>4. ProcInv' /\ ResultInv' /\ PressInv' /\ NoOrphanScan'
  BY <1>1, <1>2 DEF IInv, ProcInv, ResultInv, PressInv, NoOrphanScan
<1>5. CompletedMeansRead' /\ RunningMeansUnderWay'
  BY <1>1, <1>2 DEF IInv, CompletedMeansRead, RunningMeansUnderWay, UnderWay
<1>6. QED
  BY <1>3, <1>4, <1>5 DEF IInv

LEMMA BeginInv ==
    ASSUME IInv, NEW s \in Scans, Begin(s) PROVE IInv'
<1>1. /\ flow[s] = "starting" /\ flow' = [flow EXCEPT ![s] = "launching"]
      /\ cancelFlag' = FALSE /\ status' = "running"
      /\ progress' = [scan |-> s, line |-> 0]
      /\ UNCHANGED <<result, heard, listening, active, cancelling, presses,
                     report, proc, printed, cancelled>>
  BY DEF Begin
<1>2. /\ flow' \in [Scans -> Flows] /\ flow'[s] = "launching"
      /\ \A t \in Scans \ {s} : flow'[t] = flow[t]
  BY <1>1 DEF IInv, TypeOK, Flows
<1>3. progress' \in [scan : Scans \cup {None}, line : 0..Lines]
  BY <1>1, ControllerAssumption
<1>4. TypeOK'
  BY <1>1, <1>2, <1>3 DEF IInv, TypeOK, Flows
<1>5. ProcInv' /\ ResultInv' /\ PressInv' /\ NoOrphanScan'
  BY <1>1, <1>2 DEF IInv, ProcInv, ResultInv, PressInv, NoOrphanScan
<1>6. CompletedMeansRead' /\ RunningMeansUnderWay'
  BY <1>1, <1>2 DEF CompletedMeansRead, RunningMeansUnderWay, UnderWay
<1>7. QED
  BY <1>4, <1>5, <1>6 DEF IInv

LEMMA LaunchInv ==
    ASSUME IInv, NEW s \in Scans, Launch(s) PROVE IInv'
<1>1. /\ flow[s] = "launching" /\ flow' = [flow EXCEPT ![s] = "reading"]
      /\ proc' = [proc EXCEPT ![s] = "running"]
      /\ active' = s /\ listening' = listening \cup {s}
      /\ UNCHANGED <<result, heard, cancelFlag, cancelling, presses, status,
                     progress, report, printed, cancelled>>
  BY DEF Launch, screenVars
<1>2. /\ flow' \in [Scans -> Flows] /\ flow'[s] = "reading"
      /\ \A t \in Scans \ {s} : flow'[t] = flow[t] /\ proc'[t] = proc[t]
      /\ proc' \in [Scans -> {"none", "running", "exited", "dead"}]
      /\ proc'[s] = "running" /\ proc[s] = "none"
  BY <1>1 DEF IInv, TypeOK, Flows, ProcInv
<1>3. TypeOK'
  BY <1>1, <1>2 DEF IInv, TypeOK, Flows
<1>4. ProcInv' /\ ResultInv' /\ PressInv' /\ NoOrphanScan'
  BY <1>1, <1>2 DEF IInv, ProcInv, ResultInv, PressInv, NoOrphanScan
<1>5. CompletedMeansRead' /\ RunningMeansUnderWay'
  BY <1>1, <1>2 DEF IInv, TypeOK, CompletedMeansRead, RunningMeansUnderWay, UnderWay
<1>6. QED
  BY <1>3, <1>4, <1>5 DEF IInv

\* _call returns: the flow goes on to its report or ends cancelled, no process
\* of it runs, and an answer that says completed was read to its end.
LEMMA ResumeInv ==
    ASSUME IInv, NEW s \in Scans, NEW answer \in {"completed", "unavailable"},
           Resume(s, answer), flow[s] \in {"launching", "reading"},
           proc' = KillProcess(s), listening' \subseteq listening,
           answer = "completed" => proc[s] = "exited" /\ heard[s] = Lines,
           UNCHANGED <<heard, cancelFlag, cancelling, presses, progress, report,
                       printed, cancelled>>
    PROVE  IInv'
<1>1. /\ active' = None
      /\ \/ /\ flow' = [flow EXCEPT ![s] = "done"]
            /\ status' = "cancelled" /\ UNCHANGED result
         \/ /\ flow' = [flow EXCEPT ![s] = "reporting"]
            /\ result' = [result EXCEPT ![s] = answer] /\ UNCHANGED status
  BY DEF Resume
<1>2. TypeOK /\ ProcInv /\ ResultInv
  BY DEF IInv
<1>3. /\ flow' \in [Scans -> Flows] /\ flow'[s] \in {"reporting", "done"}
      /\ \A t \in Scans \ {s} : flow'[t] = flow[t]
      /\ flow'[s] = "done" => status' = "cancelled"
      /\ status' # "cancelled" => status' = status
      /\ flow'[s] = "reporting" => status' = status
  BY <1>1, <1>2 DEF TypeOK, Flows
<1>4. /\ proc' \in [Scans -> {"none", "running", "exited", "dead"}]
      /\ proc'[s] # "running"
      /\ \A t \in Scans : /\ t # s => proc'[t] = proc[t]
                          /\ proc[t] = "none" => proc'[t] = "none"
                          /\ proc[t] = "exited" <=> proc'[t] = "exited"
  BY <1>2 DEF KillProcess, TypeOK
<1>5. /\ result' \in [Scans -> {"none", "completed", "unavailable"}]
      /\ \A t \in Scans \ {s} : result'[t] = result[t]
      /\ flow'[s] = "reporting" => result'[s] = answer
      /\ result'[s] \in {result[s], answer}
  BY <1>1, <1>2 DEF TypeOK
<1>6. result[s] # "completed"
  BY <1>2 DEF ResultInv
<1>7. TypeOK'
  BY <1>1, <1>2, <1>3, <1>4, <1>5 DEF TypeOK, Flows
<1>8. ProcInv' /\ NoOrphanScan'
  BY <1>2, <1>3, <1>4 DEF ProcInv, NoOrphanScan
<1>9. ResultInv'
  BY <1>2, <1>3, <1>4, <1>5, <1>6 DEF ResultInv
<1>10. PressInv' /\ CompletedMeansRead'
  BY <1>1, <1>2, <1>4 DEF IInv, TypeOK, PressInv, CompletedMeansRead
<1>11. RunningMeansUnderWay'
  BY <1>1, <1>3 DEF IInv, RunningMeansUnderWay, UnderWay
<1>12. QED
  BY <1>7, <1>8, <1>9, <1>10, <1>11 DEF IInv

\* Nothing is killed where nothing runs.
LEMMA KillNothing ==
    ASSUME IInv, NEW s \in Scans, proc[s] # "running"
    PROVE  KillProcess(s) = proc
BY DEF KillProcess, IInv, TypeOK

LEMMA LaunchFailsInv ==
    ASSUME IInv, NEW s \in Scans, LaunchFails(s) PROVE IInv'
<1>1. proc[s] # "running"
  BY DEF LaunchFails, IInv, ProcInv
<1>2. QED
  BY <1>1, KillNothing, ResumeInv DEF LaunchFails

LEMMA TimeoutInv ==
    ASSUME IInv, NEW s \in Scans, Timeout(s) PROVE IInv'
BY ResumeInv DEF Timeout

\* The output has ended: either the flow waits for it, or nobody does any more.
LEMMA HearEndInv ==
    ASSUME IInv, NEW s \in Scans, HearEnd(s) PROVE IInv'
<1>1. /\ s \in listening /\ heard[s] = printed[s] /\ proc[s] # "running"
      /\ listening' = listening \ {s}
      /\ UNCHANGED <<heard, cancelFlag, cancelling, presses, progress, report,
                     proc, printed, cancelled>>
  BY DEF HearEnd
<1>2. CASE flow[s] = "reading"
  <2>1. Resume(s, AnswerOf(s))
    BY <1>2 DEF HearEnd
  <2>2. /\ AnswerOf(s) \in {"completed", "unavailable"}
        /\ AnswerOf(s) = "completed" => proc[s] = "exited" /\ heard[s] = Lines
    BY <1>1 DEF AnswerOf, IInv, ProcInv
  <2>3. QED
    BY <1>1, <1>2, <2>1, <2>2, KillNothing, ResumeInv
<1>3. CASE flow[s] # "reading"
  <2>1. UNCHANGED <<flow, result, status, active>>
    BY <1>3 DEF HearEnd
  <2>2. TypeOK'
    BY <1>1, <2>1 DEF IInv, TypeOK
  <2>3. ProcInv' /\ ResultInv' /\ PressInv' /\ NoOrphanScan'
    BY <1>1, <2>1 DEF IInv, ProcInv, ResultInv, PressInv, NoOrphanScan
  <2>4. CompletedMeansRead' /\ RunningMeansUnderWay'
    BY <1>1, <2>1 DEF IInv, CompletedMeansRead, RunningMeansUnderWay, UnderWay
  <2>5. QED
    BY <2>2, <2>3, <2>4 DEF IInv
<1>4. QED
  BY <1>2, <1>3

LEMMA HearInv ==
    ASSUME IInv, NEW s \in Scans, Hear(s) PROVE IInv'
<1>1. /\ heard[s] < printed[s]
      /\ heard' = [heard EXCEPT ![s] = heard[s] + 1]
      /\ progress' \in {progress, [scan |-> s, line |-> heard[s] + 1]}
      /\ UNCHANGED <<flow, result, listening, active, cancelFlag, cancelling,
                     presses, status, report, proc, printed, cancelled>>
  BY DEF Hear
<1>2. TypeOK /\ ProcInv /\ ResultInv /\ Lines \in Nat
  BY ControllerAssumption DEF IInv
<1>3. heard[s] \in 0..Lines /\ printed[s] \in 0..Lines
  BY <1>2 DEF TypeOK
<1>4. heard[s] + 1 \in 0..Lines /\ heard[s] + 1 <= printed[s] /\ heard[s] # Lines
  BY <1>1, <1>2, <1>3
<1>5. /\ heard' \in [Scans -> 0..Lines] /\ heard'[s] = heard[s] + 1
      /\ \A t \in Scans \ {s} : heard'[t] = heard[t]
  BY <1>1, <1>2, <1>4 DEF TypeOK
<1>6. progress' \in [scan : Scans \cup {None}, line : 0..Lines]
  BY <1>1, <1>2, <1>4 DEF TypeOK
<1>7. \A t \in Scans : heard'[t] <= printed'[t]
  BY <1>1, <1>2, <1>4, <1>5 DEF TypeOK
<1>8. TypeOK'
  BY <1>1, <1>2, <1>5, <1>6, <1>7 DEF TypeOK
<1>9. ProcInv' /\ ResultInv' /\ PressInv' /\ NoOrphanScan'
  BY <1>1, <1>4, <1>5 DEF IInv, ProcInv, ResultInv, PressInv, NoOrphanScan
<1>10. CompletedMeansRead' /\ RunningMeansUnderWay'
  BY <1>1, <1>2, <1>4, <1>5 DEF IInv, TypeOK, CompletedMeansRead,
                                RunningMeansUnderWay, UnderWay
<1>11. QED
  BY <1>8, <1>9, <1>10 DEF IInv

LEMMA ReportInv ==
    ASSUME IInv, NEW s \in Scans, Report(s) PROVE IInv'
<1>1. /\ flow[s] = "reporting" /\ flow' = [flow EXCEPT ![s] = "done"]
      /\ status' = result[s] /\ report' = s
      /\ UNCHANGED <<result, heard, listening, active, cancelFlag, cancelling,
                     presses, progress, proc, printed, cancelled>>
  BY DEF Report
<1>2. /\ flow' \in [Scans -> Flows] /\ flow'[s] = "done"
      /\ \A t \in Scans \ {s} : flow'[t] = flow[t]
  BY <1>1 DEF IInv, TypeOK, Flows
<1>3. result[s] \in {"completed", "unavailable"}
  BY <1>1 DEF IInv, TypeOK, ResultInv
<1>4. TypeOK'
  BY <1>1, <1>2, <1>3 DEF IInv, TypeOK, Flows
<1>5. ProcInv' /\ ResultInv' /\ PressInv' /\ NoOrphanScan'
  BY <1>1, <1>2 DEF IInv, ProcInv, ResultInv, PressInv, NoOrphanScan
<1>6. CompletedMeansRead' /\ RunningMeansUnderWay'
  BY <1>1, <1>3, ControllerAssumption DEF IInv, ResultInv, CompletedMeansRead,
                                          RunningMeansUnderWay
<1>7. QED
  BY <1>4, <1>5, <1>6 DEF IInv

\* A process is killed: one that exited by itself stays exited.
LEMMA CancelInv ==
    ASSUME IInv, Cancel PROVE IInv'
<1>1. /\ presses < MaxPresses /\ presses' = presses + 1 /\ cancelFlag' = TRUE
      /\ proc' = IF active = None THEN proc ELSE KillProcess(active)
      /\ cancelling' = cancelling + 1
      /\ cancelled' = cancelled \cup {s \in Scans : UnderWay(s)}
      /\ UNCHANGED <<flow, result, heard, listening, active, status, progress,
                     report, printed>>
  BY DEF Cancel, screenVars
<1>2. TypeOK /\ PressInv /\ MaxPresses \in Nat
  BY ControllerAssumption DEF IInv
<1>3. /\ presses' \in 0..MaxPresses /\ cancelling' \in 0..MaxPresses
      /\ cancelling' <= presses'
  BY <1>1, <1>2 DEF TypeOK, PressInv
<1>4. /\ proc' \in [Scans -> {"none", "running", "exited", "dead"}]
      /\ \A t \in Scans : \/ proc'[t] = proc[t]
                          \/ proc[t] = "running" /\ proc'[t] = "dead"
  BY <1>1, <1>2 DEF TypeOK, KillProcess
<1>5. TypeOK'
  BY <1>1, <1>2, <1>3, <1>4 DEF TypeOK
<1>6. ProcInv' /\ ResultInv' /\ PressInv' /\ NoOrphanScan'
  BY <1>1, <1>3, <1>4 DEF IInv, ProcInv, ResultInv, PressInv, NoOrphanScan
<1>7. CompletedMeansRead' /\ RunningMeansUnderWay'
  BY <1>1, <1>2, <1>4 DEF IInv, TypeOK, CompletedMeansRead, RunningMeansUnderWay,
                          UnderWay
<1>8. QED
  BY <1>5, <1>6, <1>7 DEF IInv

LEMMA CancelShownInv ==
    ASSUME IInv, CancelShown PROVE IInv'
<1>1. /\ cancelling > 0 /\ cancelling' = cancelling - 1 /\ status' = "cancelled"
      /\ UNCHANGED <<flow, result, heard, listening, active, cancelFlag, presses,
                     progress, report, proc, printed, cancelled>>
  BY DEF CancelShown
<1>2. cancelling' \in 0..MaxPresses /\ cancelling' <= presses
  BY <1>1, ControllerAssumption DEF IInv, TypeOK, PressInv
<1>3. TypeOK'
  BY <1>1, <1>2 DEF IInv, TypeOK
<1>4. QED
  BY <1>1, <1>2, <1>3 DEF IInv, ProcInv, ResultInv, PressInv, NoOrphanScan,
                          CompletedMeansRead, RunningMeansUnderWay

LEMMA OtherCommandEndsInv ==
    ASSUME IInv, OtherCommandEnds PROVE IInv'
<1>1. /\ active' = None
      /\ UNCHANGED <<flow, result, heard, listening, cancelFlag, cancelling,
                     presses, status, progress, report, proc, printed, cancelled>>
  BY DEF OtherCommandEnds, screenVars
<1>2. TypeOK'
  BY <1>1 DEF IInv, TypeOK
<1>3. QED
  BY <1>1, <1>2 DEF IInv, ProcInv, ResultInv, PressInv, NoOrphanScan,
                    CompletedMeansRead, RunningMeansUnderWay, UnderWay

LEMMA PrintLineInv ==
    ASSUME IInv, NEW s \in Scans, PrintLine(s) PROVE IInv'
<1>1. /\ proc[s] = "running" /\ printed[s] < Lines
      /\ printed' = [printed EXCEPT ![s] = printed[s] + 1]
      /\ UNCHANGED <<flow, result, heard, listening, active, cancelFlag, cancelling,
                     presses, status, progress, report, proc, cancelled>>
  BY DEF PrintLine, clientVars, screenVars
<1>2. TypeOK /\ Lines \in Nat
  BY ControllerAssumption DEF IInv
<1>3. printed[s] \in 0..Lines /\ heard[s] \in 0..Lines /\ heard[s] <= printed[s]
  BY <1>2 DEF TypeOK
<1>4. printed[s] + 1 \in 0..Lines /\ heard[s] <= printed[s] + 1
  BY <1>1, <1>2, <1>3
<1>5. /\ printed' \in [Scans -> 0..Lines] /\ printed'[s] = printed[s] + 1
      /\ \A t \in Scans \ {s} : printed'[t] = printed[t]
  BY <1>1, <1>2, <1>4 DEF TypeOK
<1>6. TypeOK'
  BY <1>1, <1>2, <1>4, <1>5 DEF TypeOK
<1>7. ProcInv' /\ ResultInv' /\ PressInv' /\ NoOrphanScan'
  BY <1>1, <1>5 DEF IInv, ProcInv, ResultInv, PressInv, NoOrphanScan
<1>8. CompletedMeansRead' /\ RunningMeansUnderWay'
  BY <1>1 DEF IInv, CompletedMeansRead, RunningMeansUnderWay, UnderWay
<1>9. QED
  BY <1>6, <1>7, <1>8 DEF IInv

LEMMA ExitInv ==
    ASSUME IInv, NEW s \in Scans, Exit(s) PROVE IInv'
<1>1. /\ proc[s] = "running"
      /\ \/ printed[s] = Lines /\ proc' = [proc EXCEPT ![s] = "exited"]
         \/ proc' = KillProcess(s)
      /\ UNCHANGED <<flow, result, heard, listening, active, cancelFlag, cancelling,
                     presses, status, progress, report, printed, cancelled>>
  BY DEF Exit, clientVars, screenVars
<1>2. TypeOK
  BY DEF IInv
<1>3. /\ proc' \in [Scans -> {"none", "running", "exited", "dead"}]
      /\ \/ proc'[s] = "exited" /\ printed[s] = Lines
         \/ proc'[s] = "dead"
      /\ \A t \in Scans \ {s} : proc'[t] = proc[t]
  BY <1>1, <1>2 DEF TypeOK, KillProcess
<1>4. TypeOK'
  BY <1>1, <1>2, <1>3 DEF TypeOK
<1>5. ProcInv' /\ ResultInv' /\ PressInv' /\ NoOrphanScan'
  BY <1>1, <1>3 DEF IInv, ProcInv, ResultInv, PressInv, NoOrphanScan
<1>6. CompletedMeansRead' /\ RunningMeansUnderWay'
  BY <1>1, <1>2, <1>3 DEF IInv, TypeOK, CompletedMeansRead, RunningMeansUnderWay,
                          UnderWay
<1>7. QED
  BY <1>4, <1>5, <1>6 DEF IInv

-----------------------------------------------------------------------------
(* The theorems *)

LEMMA InitInv == Init => IInv
<1>1. SUFFICES ASSUME Init PROVE IInv
  OBVIOUS
<1>2. TypeOK
  <2>1. 0 \in 0..Lines /\ 0 \in 0..MaxPresses /\ 0 <= 0
    BY ControllerAssumption
  <2>2. /\ printed = [s \in Scans |-> 0] /\ heard = [s \in Scans |-> 0]
        /\ \A s \in Scans : heard[s] <= printed[s]
        /\ progress \in [scan : Scans \cup {None}, line : 0..Lines]
    BY <1>1, <2>1 DEF Init
  <2>3. /\ printed \in [Scans -> 0..Lines] /\ heard \in [Scans -> 0..Lines]
        /\ flow \in [Scans -> {"new", "starting", "launching", "reading",
                                "reporting", "done"}]
        /\ result \in [Scans -> {"none", "completed", "unavailable"}]
        /\ proc \in [Scans -> {"none", "running", "exited", "dead"}]
    BY <1>1, <2>1, <2>2 DEF Init
  <2>4. QED
    BY <1>1, <2>1, <2>2, <2>3 DEF Init, TypeOK
<1>3. ProcInv /\ ResultInv /\ PressInv
  BY <1>1 DEF Init, ProcInv, ResultInv, PressInv
<1>4. NoOrphanScan /\ CompletedMeansRead /\ RunningMeansUnderWay
  BY <1>1 DEF Init, NoOrphanScan, CompletedMeansRead, RunningMeansUnderWay
<1>5. QED
  BY <1>2, <1>3, <1>4 DEF IInv

LEMMA NextInv == IInv /\ [Next]_vars => IInv'
<1>1. SUFFICES ASSUME IInv, [Next]_vars PROVE IInv'
  OBVIOUS
<1>2. CASE \E s \in Scans : Start(s)
  BY <1>1, <1>2, StartInv
<1>3. CASE \E s \in Scans : Client(s)
  BY <1>1, <1>3, BeginInv, LaunchInv, LaunchFailsInv, HearInv, HearEndInv,
     TimeoutInv, ReportInv DEF Client
<1>4. CASE \E s \in Scans : PrintLine(s) \/ Exit(s)
  BY <1>1, <1>4, PrintLineInv, ExitInv
<1>5. CASE Cancel \/ CancelShown \/ OtherCommandEnds
  BY <1>1, <1>5, CancelInv, CancelShownInv, OtherCommandEndsInv
<1>6. CASE UNCHANGED vars
  <2>1. UNCHANGED <<flow, result, heard, listening, active, cancelFlag, cancelling,
                    presses, status, progress, report, proc, printed, cancelled>>
    BY <1>6 DEF vars, clientVars, screenVars
  <2>2. TypeOK'
    BY <1>1, <2>1 DEF IInv, TypeOK
  <2>3. QED
    BY <1>1, <2>1, <2>2 DEF IInv, ProcInv, ResultInv, PressInv, NoOrphanScan,
                            CompletedMeansRead, RunningMeansUnderWay, UnderWay
<1>7. QED
  BY <1>1, <1>2, <1>3, <1>4, <1>5, <1>6 DEF Next

\* However many scans overlap, are cancelled, time out or die, the inductive
\* invariant holds of the controller and the core processes (app_state.dart
\* _scanPaths, cancelScan; local_core_client.dart _call).
THEOREM Invariance == Spec => []IInv
<1>1. Init => IInv
  BY InitInv
<1>2. IInv /\ [Next]_vars => IInv'
  BY NextInv
<1>3. QED
  BY <1>1, <1>2, PTL DEF Spec

\* Every variable has its type, and no flow reads what was not printed.
THEOREM TypeCorrect == Spec => []TypeOK
<1>1. IInv => TypeOK
  BY DEF IInv
<1>2. QED
  BY <1>1, Invariance, PTL

\* A scan that is over for the client has left no process that goes on scanning,
\* also when the cancel missed it (local_core_client.dart _call).
THEOREM NoScanIsOrphaned == Spec => []NoOrphanScan
<1>1. IInv => NoOrphanScan
  BY DEF IInv
<1>2. QED
  BY <1>1, Invariance, PTL

\* The screen says completed only of a scan that ended by itself and was read to
\* its last line (app_state.dart _scanPaths).
THEOREM CompletedWasRead == Spec => []CompletedMeansRead
<1>1. IInv => CompletedMeansRead
  BY DEF IInv
<1>2. QED
  BY <1>1, Invariance, PTL

\* The scan buttons are disabled only while some scan is under way
\* (app_state.dart _scanPaths, cancelScan).
THEOREM RunningIsUnderWay == Spec => []RunningMeansUnderWay
<1>1. IInv => RunningMeansUnderWay
  BY DEF IInv
<1>2. QED
  BY <1>1, Invariance, PTL
==============================================================================
