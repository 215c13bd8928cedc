---------------------------- MODULE ScanController ----------------------------
(***************************************************************************)
(* A scan as the Flutter client runs it.                                   *)
(*                                                                         *)
(* Code: app_state.dart (_scanPaths, cancelScan, runQuickScan,             *)
(* runFullScan), core/local_core/local_core_client.dart (_call,            *)
(* cancelActiveScan) and the buttons of scan_screen.dart.                  *)
(*                                                                         *)
(* Dart runs one event at a time, so an action is what happens between two *)
(* awaits.  A scan's flow awaits its log entry ("starting"), the start of  *)
(* the core process ("launching"), the end of that process's output        *)
(* ("reading") and more log entries ("reporting").  Between them the user  *)
(* clicks, other commands come and go, and the core process prints.  The   *)
(* flag _scanCancelled belongs to the controller and the handle            *)
(* _activeScanProcess to the class: all scans share them.                  *)
(***************************************************************************)
EXTENDS Naturals

CONSTANTS
    Scans,      \* scans the user may start, each once
    Lines,      \* progress lines a scan prints before its report
    MaxPresses, \* bound: presses of Cancel
    None        \* no scan

ASSUME ControllerAssumption ==
    /\ Lines \in Nat
    /\ MaxPresses \in Nat
    /\ None \notin Scans

VARIABLES
    flow,       \* flow[s]: where _scanPaths of scan s waits
    result,     \* result[s]: what _call returned
    proc,       \* proc[s]: the core process of s
    printed,    \* printed[s]: progress lines in or through the pipe
    heard,      \* heard[s]: lines the client has read
    listening,  \* scans whose output the client still reads
    active,     \* _activeScanProcess
    cancelFlag, \* _scanCancelled
    cancelling, \* calls of cancelScan that wait for their log entry
    presses,    \* presses of Cancel so far
    status,     \* state.scanStatus
    progress,   \* the scan and the line state.scanProgress comes from
    report,     \* the scan state.lastScanReport comes from
    cancelled   \* history: scans that were under way at a press of Cancel

clientVars == <<flow, result, heard, listening, active, cancelFlag,
                cancelling, presses>>
screenVars == <<status, progress, report>>
vars == <<clientVars, screenVars, proc, printed, cancelled>>

UnderWay(s) == flow[s] \in {"launching", "reading", "reporting"}

Init ==
    /\ flow = [s \in Scans |-> "new"]
    /\ result = [s \in Scans |-> "none"]
    /\ proc = [s \in Scans |-> "none"]
    /\ printed = [s \in Scans |-> 0]
    /\ heard = [s \in Scans |-> 0]
    /\ listening = {}
    /\ active = None
    /\ cancelFlag = FALSE
    /\ cancelling = 0
    /\ presses = 0
    /\ status = "idle"
    /\ progress = [scan |-> None, line |-> 0]
    /\ report = None
    /\ cancelled = {}

-----------------------------------------------------------------------------
\* A scan button: enabled unless the screen says a scan runs.  The scan's
\* first await is its log entry; the screen still says what it said.
Start(s) ==
    /\ status # "running"
    /\ flow[s] = "new"
    /\ flow' = [flow EXCEPT ![s] = "starting"]
    /\ UNCHANGED <<result, heard, listening, active, cancelFlag, cancelling,
                   presses, screenVars, proc, printed, cancelled>>

Begin(s) ==
    /\ flow[s] = "starting"
    /\ flow' = [flow EXCEPT ![s] = "launching"]
    /\ cancelFlag' = FALSE
    /\ status' = "running"
    /\ progress' = [scan |-> s, line |-> 0]
    /\ UNCHANGED <<result, heard, listening, active, cancelling, presses,
                   report, proc, printed, cancelled>>

\* Process.start returned: from now on Cancel can reach this process.
Launch(s) ==
    /\ flow[s] = "launching"
    /\ flow' = [flow EXCEPT ![s] = "reading"]
    /\ proc' = [proc EXCEPT ![s] = "running"]
    /\ active' = s
    /\ listening' = listening \cup {s}
    /\ UNCHANGED <<result, heard, cancelFlag, cancelling, presses, screenVars,
                   printed, cancelled>>

\* Mutant: a cancelled scan returns without touching the screen.
ResumeSilently(s, answer) ==
    /\ IF cancelFlag
       THEN /\ flow' = [flow EXCEPT ![s] = "done"]
            /\ UNCHANGED <<status, result>>
       ELSE /\ flow' = [flow EXCEPT ![s] = "reporting"]
            /\ result' = [result EXCEPT ![s] = answer]
            /\ UNCHANGED status
    /\ active' = None

\* _call has an answer, clears the handle, and _scanPaths looks at the flag.
Resume(s, answer) ==
    /\ IF cancelFlag
       THEN /\ flow' = [flow EXCEPT ![s] = "done"]
            /\ status' = "cancelled"
            /\ UNCHANGED result
       ELSE /\ flow' = [flow EXCEPT ![s] = "reporting"]
            /\ result' = [result EXCEPT ![s] = answer]
            /\ UNCHANGED status
    /\ active' = None

\* There is no core executable, or it does not start.
LaunchFails(s) ==
    /\ flow[s] = "launching"
    /\ Resume(s, "unavailable")
    /\ UNCHANGED <<heard, listening, cancelFlag, cancelling, presses, progress,
                   report, proc, printed, cancelled>>

\* One progress line of s: onProgress drops it after a cancel.
Hear(s) ==
    /\ s \in listening
    /\ heard[s] < printed[s]
    /\ heard' = [heard EXCEPT ![s] = @ + 1]
    /\ progress' = IF cancelFlag THEN progress
                                 ELSE [scan |-> s, line |-> heard[s] + 1]
    /\ UNCHANGED <<flow, result, listening, active, cancelFlag, cancelling,
                   presses, status, report, proc, printed, cancelled>>

\* Mutant: the exit code is not looked at.
AnswerUnchecked(s) == "completed"

\* What a process left behind: its report, if it ended by itself.
AnswerOf(s) == IF proc[s] = "exited" THEN "completed" ELSE "unavailable"

\* The output has ended and so has the process.  After a timeout nobody waits
\* for the answer any more.
HearEnd(s) ==
    /\ s \in listening
    /\ heard[s] = printed[s]
    /\ proc[s] # "running"
    /\ listening' = listening \ {s}
    /\ IF flow[s] = "reading"
       THEN Resume(s, AnswerOf(s))
       ELSE UNCHANGED <<flow, result, status, active>>
    /\ UNCHANGED <<heard, cancelFlag, cancelling, presses, progress, report,
                   proc, printed, cancelled>>

KillProcess(s) == [proc EXCEPT ![s] = IF @ = "running" THEN "dead" ELSE @]

\* Mutants: the process is left alone; only silence counts as a timeout.
TimeoutLeavesProcess(s) ==
    /\ flow[s] = "reading"
    /\ Resume(s, "unavailable")
    /\ UNCHANGED <<heard, listening, cancelFlag, cancelling, presses, progress,
                   report, proc, printed, cancelled>>

TimeoutOfSilence(s) ==
    /\ flow[s] = "reading"
    /\ heard[s] = 0
    /\ proc' = KillProcess(s)
    /\ Resume(s, "unavailable")
    /\ UNCHANGED <<heard, listening, cancelFlag, cancelling, presses, progress,
                   report, printed, cancelled>>

\* 30 minutes: the process is killed and the answer is an error.  The
\* listener goes on with what is in the pipe.
Timeout(s) ==
    /\ flow[s] = "reading"
    /\ proc' = KillProcess(s)
    /\ Resume(s, "unavailable")
    /\ UNCHANGED <<heard, listening, cancelFlag, cancelling, presses, progress,
                   report, printed, cancelled>>

\* The log entries are written: the screen shows the result.
Report(s) ==
    /\ flow[s] = "reporting"
    /\ flow' = [flow EXCEPT ![s] = "done"]
    /\ status' = result[s]
    /\ report' = s
    /\ UNCHANGED <<result, heard, listening, active, cancelFlag, cancelling,
                   presses, progress, proc, printed, cancelled>>

-----------------------------------------------------------------------------
\* The Cancel button, shown while the screen says a scan runs: cancelScan up
\* to its await.
Cancel ==
    /\ status = "running"
    /\ presses < MaxPresses
    /\ presses' = presses + 1
    /\ cancelFlag' = TRUE
    /\ proc' = IF active = None THEN proc ELSE KillProcess(active)
    /\ cancelling' = cancelling + 1
    /\ cancelled' = cancelled \cup {s \in Scans : UnderWay(s)}
    /\ UNCHANGED <<flow, result, heard, listening, active, screenVars, printed>>

CancelShown ==
    /\ cancelling > 0
    /\ cancelling' = cancelling - 1
    /\ status' = "cancelled"
    /\ UNCHANGED <<flow, result, heard, listening, active, cancelFlag, presses,
                   progress, report, proc, printed, cancelled>>

\* Any other command of the client (health, quarantine list, allowlist, ...)
\* ends: _call clears the handle whoever set it.
OtherCommandEnds ==
    /\ active # None
    /\ active' = None
    /\ UNCHANGED <<flow, result, heard, listening, cancelFlag, cancelling,
                   presses, screenVars, proc, printed, cancelled>>

-----------------------------------------------------------------------------
(* The core process: it prints its lines and exits, or dies on the way.     *)

PrintLine(s) ==
    /\ proc[s] = "running"
    /\ printed[s] < Lines
    /\ printed' = [printed EXCEPT ![s] = @ + 1]
    /\ UNCHANGED <<clientVars, screenVars, proc, cancelled>>

Exit(s) ==
    /\ proc[s] = "running"
    /\ \/ printed[s] = Lines /\ proc' = [proc EXCEPT ![s] = "exited"]
       \/ proc' = KillProcess(s)
    /\ UNCHANGED <<clientVars, screenVars, printed, cancelled>>

-----------------------------------------------------------------------------
Client(s) ==
    \/ Begin(s) \/ Launch(s) \/ LaunchFails(s)
    \/ Hear(s) \/ HearEnd(s) \/ Timeout(s) \/ Report(s)

Next ==
    \/ \E s \in Scans : Start(s) \/ Client(s) \/ PrintLine(s) \/ Exit(s)
    \/ Cancel
    \/ CancelShown
    \/ OtherCommandEnds

Spec == Init /\ [][Next]_vars

\* The event loop delivers every completed await and every timer.  The core
\* process may hang: PrintLine and Exit are not fair.
FairSpec ==
    /\ Spec
    /\ \A s \in Scans : WF_vars(Begin(s)) /\ WF_vars(Launch(s))
                        /\ WF_vars(Timeout(s)) /\ WF_vars(Report(s))
    /\ WF_vars(CancelShown)

-----------------------------------------------------------------------------
(* Properties.                                                              *)

\* The shape of the state: nobody reads what was not printed.
TypeOK ==
    /\ flow \in [Scans -> {"new", "starting", "launching", "reading",
                           "reporting", "done"}]
    /\ result \in [Scans -> {"none", "completed", "unavailable"}]
    /\ proc \in [Scans -> {"none", "running", "exited", "dead"}]
    /\ printed \in [Scans -> 0..Lines]
    /\ heard \in [Scans -> 0..Lines]
    /\ \A s \in Scans : heard[s] <= printed[s]
    /\ listening \subseteq Scans
    /\ active \in Scans \cup {None}
    /\ cancelFlag \in BOOLEAN
    /\ cancelling \in 0..MaxPresses
    /\ presses \in 0..MaxPresses
    /\ status \in {"idle", "running", "cancelled", "completed", "unavailable"}
    /\ progress \in [scan : Scans \cup {None}, line : 0..Lines]
    /\ report \in Scans \cup {None}
    /\ cancelled \subseteq Scans

\* A scan that is over for the client has no process left that scans (and
\* quarantines) on: not after a cancel that missed it, not after a timeout,
\* not after two scans overlapped.
NoOrphanScan == \A s \in Scans : flow[s] = "done" => proc[s] # "running"

\* What the screen calls completed was a scan that ended by itself and was
\* read to its last line; a killed, crashed or timed-out one never is.
CompletedMeansRead ==
    status = "completed" =>
      /\ report # None
      /\ proc[report] = "exited"
      /\ heard[report] = Lines

\* The scan buttons are never disabled for nothing: while the screen says a
\* scan runs, one is under way, however scans and cancels overlapped.
RunningMeansUnderWay == status = "running" => \E s \in Scans : UnderWay(s)

\* A screen that says a scan runs says something else in the end, even when
\* the core hangs.
ScanningEnds == status = "running" ~> status # "running"

-----------------------------------------------------------------------------
(* A statement of the repository that the code does not meet.               *)

\* SECURITY_MODEL.md: "Support cancellation and progress reporting."  (The
\* handle may have been cleared by another command, or not been set yet.)
CancelStopsScan ==
    status = "cancelled" => \A s \in cancelled : proc[s] # "running"
==============================================================================
