----------------------------- MODULE MCProcess -----------------------------
(***************************************************************************)
(* A batch and a tool it waits for: the first command of the opening       *)
(* discovery, tshark --version, is a run_bounded of its own, with its      *)
(* readers, its tool and the heir that tool may leave.  The batch goes on  *)
(* when the run has returned, and with output only when it was whole.      *)
(***************************************************************************)
EXTENDS TsharkBatch

CONSTANTS MaxStdout, MaxStderr, PipeSize, MaxWritten, Deadline, Heirs

VARIABLES child, wants, heir, pipe, written, got, reader, callerPc, elapsed,
          refused, outcome

Tool == INSTANCE BoundedProcess WITH pc <- callerPc, result <- outcome

ASSUME ProcessLimits == Tool!BoundedProcessAssumption

run == <<child, wants, heir, pipe, written, got, reader, callerPc, elapsed,
         refused, outcome>>

\* The command is started once the inspection found no plugin.
Commanded == pc # "inspect" /\ result # "plugins"

\* An error of the run is an error of the discovery.
Awaited ==
  pc = "version" /\ pc' # "version" =>
    /\ callerPc = "returned"
    /\ pc' = "configuration" => outcome = "ok"

MCInit == Init /\ Tool!Init

MCNext ==
  \/ Commanded /\ Tool!Next /\ UNCHANGED vars
  \/ Next /\ Awaited /\ UNCHANGED run

MCVars == <<vars, run>>

\* The fairness of BoundedProcess, from the moment the command is started.
\* Nothing makes the batch itself go on.
MCSpec ==
  /\ MCInit /\ [][MCNext]_MCVars
  /\ WF_MCVars(Commanded /\ Tool!Caller /\ UNCHANGED vars)
  /\ \A s \in Tool!Streams :
       /\ WF_MCVars(Commanded /\ Tool!Reader(s) /\ UNCHANGED vars)
       /\ WF_MCVars(/\ Commanded /\ (Tool!ChildWrites(s) \/ Tool!ChildBroken(s))
                    /\ UNCHANGED vars)

\* No output of a tool reaches the batch that is not all the tool and its
\* descendants wrote (Tool!OutputIsWhole).
OutputIsWhole == Tool!OutputIsWhole

\* A tool blocked on one of its pipes is released (Tool!WritersAreReleased).
WritersAreReleased == Tool!WritersAreReleased

\* When time passes the run returns (Tool!AlwaysReturns).
AlwaysReturns == Tool!AlwaysReturns
=============================================================================
