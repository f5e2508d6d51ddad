--------------------------- MODULE BoundedProcess ---------------------------
(***************************************************************************)
(* rust/src/adapters/tshark/process.rs: run_bounded starts a tool with its *)
(* stdout and stderr piped, drains each pipe in a thread of its own up to  *)
(* a byte limit, polls for the tool's exit, and kills it at the deadline.  *)
(*                                                                         *)
(* Four threads of control meet: the caller, two readers, the tool.  The   *)
(* tool may also leave a descendant that inherited both pipes (an heir: a  *)
(* wrapper script that starts the real tool).  Bytes are counted, not      *)
(* looked at; time is a counter that stops at the deadline.                *)
(***************************************************************************)
EXTENDS Integers

CONSTANTS
  MaxStdout, MaxStderr,  \* max_stdout_bytes, max_stderr_bytes
  PipeSize,              \* bytes a pipe holds before a writer blocks
  MaxWritten,            \* bound on what is written to each stream
  Deadline,              \* timeout, in ticks
  Heirs                  \* whether the tool may leave a descendant

BoundedProcessAssumption ==
  /\ MaxStdout \in Nat /\ MaxStderr \in Nat
  /\ PipeSize \in Nat \ {0}
  /\ MaxWritten \in Nat
  /\ Deadline \in Nat \ {0}
  /\ Heirs \in BOOLEAN

Streams  == {"stdout", "stderr"}
Limit(s) == IF s = "stdout" THEN MaxStdout ELSE MaxStderr

VARIABLES
  child,    \* "running", "exited" (not waited for yet) or "reaped"
  wants,    \* the stream the tool is blocked writing to, or "none"
  heir,     \* a descendant of the tool holds both pipes
  pipe,     \* pipe[s]: bytes written and not read yet
  written,  \* written[s]: bytes ever written
  got,      \* got[s]: bytes the reader of s has
  reader,   \* reader[s]: "reading", "done", "io_error" or "panicked"
  pc,       \* the caller's next step
  elapsed,
  refused,  \* the operating system would not deliver the kill
  result

vars == <<child, wants, heir, pipe, written, got, reader, pc, elapsed,
          refused, result>>
tool    == <<child, wants, heir>>
data    == <<pipe, written, got>>
caller  == <<pc, refused, result>>

Init ==
  /\ child = "running"
  /\ wants = "none"
  /\ heir = FALSE
  /\ pipe = [s \in Streams |-> 0]
  /\ written = [s \in Streams |-> 0]
  /\ got = [s \in Streams |-> 0]
  /\ reader = [s \in Streams |-> "reading"]
  /\ pc = "poll"
  /\ elapsed = 0
  /\ refused = FALSE
  /\ result = "none"

----------------------------------------------------------------------------
(* The tool and its heir: external, used through two pipes and an exit.    *)

Fill(s) ==
  /\ pipe[s] < PipeSize /\ reader[s] = "reading" /\ written[s] < MaxWritten
  /\ pipe' = [pipe EXCEPT ![s] = @ + 1]
  /\ written' = [written EXCEPT ![s] = @ + 1]
  /\ UNCHANGED got

\* A write blocks while the pipe is full; the tool does nothing else then.
ChildWants(s) ==
  /\ child = "running" /\ wants = "none" /\ written[s] < MaxWritten
  /\ wants' = s
  /\ UNCHANGED <<child, heir, data, reader, caller, elapsed>>

ChildWrites(s) ==
  /\ child = "running" /\ wants = s
  /\ Fill(s)
  /\ wants' = "none"
  /\ UNCHANGED <<child, heir, reader, caller, elapsed>>

\* Nobody reads the pipe any more: SIGPIPE ends the tool, or it ignores the
\* signal and goes on.
ChildBroken(s) ==
  /\ child = "running" /\ wants = s /\ reader[s] # "reading"
  /\ wants' = "none"
  /\ child' \in {"running", "exited"}
  /\ UNCHANGED <<heir, data, reader, caller, elapsed>>

ChildExits ==
  /\ child = "running" /\ wants = "none"
  /\ child' = "exited"
  /\ UNCHANGED <<wants, heir, data, reader, caller, elapsed>>

ChildForks ==
  /\ Heirs /\ child = "running" /\ ~heir
  /\ heir' = TRUE
  /\ UNCHANGED <<child, wants, data, reader, caller, elapsed>>

HeirWrites(s) ==
  /\ heir
  /\ Fill(s)
  /\ UNCHANGED <<tool, reader, caller, elapsed>>

HeirExits ==
  /\ heir
  /\ heir' = FALSE
  /\ UNCHANGED <<child, wants, data, reader, caller, elapsed>>

----------------------------------------------------------------------------
(* read_bounded, one thread per stream.                                    *)

NoWriter == child # "running" /\ ~heir

\* Mutant: one thread drains stdout, then stderr.
ReadInTurn(s) ==
  /\ s = "stdout" \/ reader["stdout"] # "reading"
  /\ reader[s] = "reading" /\ pipe[s] > 0 /\ got[s] <= Limit(s)
  /\ pipe' = [pipe EXCEPT ![s] = @ - 1]
  /\ got' = [got EXCEPT ![s] = @ + 1]
  /\ UNCHANGED <<written, tool, reader, caller, elapsed>>

Read(s) ==
  /\ reader[s] = "reading" /\ pipe[s] > 0 /\ got[s] <= Limit(s)
  /\ pipe' = [pipe EXCEPT ![s] = @ - 1]
  /\ got' = [got EXCEPT ![s] = @ + 1]
  /\ UNCHANGED <<written, tool, reader, caller, elapsed>>

\* End of file, or one byte more than the limit: the pipe is dropped.
StopReading(s) ==
  /\ reader[s] = "reading"
  /\ got[s] > Limit(s) \/ (NoWriter /\ pipe[s] = 0)
  /\ reader' = [reader EXCEPT ![s] = "done"]
  /\ UNCHANGED <<tool, data, caller, elapsed>>

\* An I/O error or a panic of the thread.
ReaderFails(s) ==
  /\ reader[s] = "reading"
  /\ \E how \in {"io_error", "panicked"} :
       reader' = [reader EXCEPT ![s] = how]
  /\ UNCHANGED <<tool, data, caller, elapsed>>

----------------------------------------------------------------------------
(* run_bounded: the poll loop and the joins.                               *)

Goto(label) == pc' = label

Return(how) ==
  /\ pc' = "returned"
  /\ result' = how

\* child.try_wait()
TryWait ==
  /\ pc = "poll"
  /\ IF child = "exited"
       THEN child' = "reaped" /\ Goto("join_stdout")
       ELSE Goto("clock") /\ UNCHANGED child
  /\ UNCHANGED <<wants, heir, data, reader, elapsed, refused, result>>

\* try_wait itself fails: give up on the tool.
PollFails ==
  /\ pc = "poll"
  /\ Goto("kill")
  /\ result' = "poll_error"
  /\ UNCHANGED <<tool, data, reader, elapsed, refused>>

ReadClock ==
  /\ pc = "clock"
  /\ IF elapsed >= Deadline
       THEN Goto("kill") /\ result' = "timed_out"
       ELSE Goto("sleep") /\ UNCHANGED result
  /\ UNCHANGED <<tool, data, reader, elapsed, refused>>

Sleep ==
  /\ pc = "sleep"
  /\ Goto("poll")
  /\ UNCHANGED <<tool, data, reader, elapsed, refused, result>>

\* Mutant: the tool is waited for without being killed.
KillForgotten ==
  /\ pc = "kill"
  /\ Goto("wait")
  /\ UNCHANGED <<tool, data, reader, elapsed, refused, result>>

\* The tool may have exited since the poll; the kill is then without effect.
Kill ==
  /\ pc = "kill"
  /\ Goto("wait")
  /\ child' = IF child = "running" THEN "exited" ELSE child
  /\ wants' = "none"
  /\ UNCHANGED <<heir, data, reader, elapsed, refused, result>>

KillRefused ==
  /\ pc = "kill"
  /\ Goto("wait")
  /\ refused' = TRUE
  /\ result' = IF result = "timed_out" THEN "kill_error" ELSE result
  /\ UNCHANGED <<tool, data, reader, elapsed>>

\* child.wait() blocks until the tool is gone.
Wait ==
  /\ pc = "wait" /\ child # "running"
  /\ child' = "reaped"
  /\ Goto("join_stdout")
  /\ UNCHANGED <<wants, heir, data, reader, elapsed, refused, result>>

\* The verdict on a stream whose reader has ended.
Bad(s)     == reader[s] # "done" \/ got[s] > Limit(s)
GivenUp    == result # "none"

\* join() blocks until the thread ends.  Once the tool was given up the
\* readers' results do not matter; else the first bad stream is the error,
\* and a bad stdout leaves the stderr thread behind.
JoinStdout ==
  /\ pc = "join_stdout" /\ reader["stdout"] # "reading"
  /\ IF ~GivenUp /\ Bad("stdout")
       THEN Return("stdout_error")
       ELSE Goto("join_stderr") /\ UNCHANGED result
  /\ UNCHANGED <<tool, data, reader, elapsed, refused>>

\* Mutant: a stream over its limit is truncated instead of refused.
StderrVerdict == IF reader["stderr"] # "done" THEN "stderr_error" ELSE "ok"

Verdict == IF Bad("stderr") THEN "stderr_error" ELSE "ok"

JoinStderr ==
  /\ pc = "join_stderr" /\ reader["stderr"] # "reading"
  /\ Return(IF GivenUp THEN result ELSE Verdict)
  /\ UNCHANGED <<tool, data, reader, elapsed, refused>>

Tick ==
  /\ elapsed < Deadline
  /\ elapsed' = elapsed + 1
  /\ UNCHANGED <<tool, data, reader, caller>>

Caller == \/ TryWait \/ ReadClock \/ Sleep \/ Kill \/ Wait
          \/ JoinStdout \/ JoinStderr
Reader(s) == Read(s) \/ StopReading(s)

Next ==
  \/ \E s \in Streams : \/ ChildWants(s) \/ ChildWrites(s) \/ ChildBroken(s)
                        \/ HeirWrites(s) \/ Reader(s) \/ ReaderFails(s)
  \/ ChildExits \/ ChildForks \/ HeirExits
  \/ Caller \/ PollFails \/ KillRefused \/ Tick

Spec == Init /\ [][Next]_vars

\* The caller and the readers are threads the system schedules; a blocked
\* write goes on when there is room.  Nothing makes the tool or its heir
\* exit, nor time pass, but what a property asks for itself.
FairSpec ==
  /\ Spec
  /\ WF_vars(Caller)
  /\ \A s \in Streams :
       WF_vars(Reader(s)) /\ WF_vars(ChildWrites(s) \/ ChildBroken(s))

----------------------------------------------------------------------------
(* Properties.                                                             *)

Labels == {"poll", "clock", "sleep", "kill", "wait", "join_stdout",
           "join_stderr", "returned"}
Results == {"none", "ok", "timed_out", "poll_error", "kill_error",
            "stdout_error", "stderr_error"}

\* Every variable keeps its shape; a reader never holds more than one byte
\* over its limit.
TypeOK ==
  /\ child \in {"running", "exited", "reaped"}
  /\ wants \in Streams \cup {"none"}
  /\ heir \in BOOLEAN
  /\ pipe \in [Streams -> 0 .. PipeSize]
  /\ written \in [Streams -> 0 .. MaxWritten]
  /\ got \in [Streams -> Nat]
  /\ \A s \in Streams : got[s] <= Limit(s) + 1
  /\ reader \in [Streams -> {"reading", "done", "io_error", "panicked"}]
  /\ pc \in Labels
  /\ elapsed \in 0 .. Deadline
  /\ refused \in BOOLEAN
  /\ result \in Results

\* An answer is whole: when run_bounded returns output, the tool ended by
\* itself, nobody can write any more, and what was captured is every byte
\* that was ever written to either stream.
OutputIsWhole ==
  result = "ok" =>
    /\ child = "reaped" /\ ~heir
    /\ \A s \in Streams : got[s] = written[s] /\ got[s] <= Limit(s)

\* No zombie is left behind, whatever the answer.
ReturnReaps == pc = "returned" => child = "reaped"

\* Both pipes are drained at once: a tool blocked on one stream is let go,
\* whatever the deadline, so it cannot deadlock with a caller that waits.
WritersAreReleased ==
  \A s \in Streams : wants = s ~> wants = "none"

\* run_bounded returns when time passes, even if the tool never exits, unless
\* the system refuses the kill or an heir keeps the pipes for ever.
AlwaysReturns ==
  WF_vars(Tick) /\ WF_vars(HeirExits) => <>(pc = "returned" \/ refused)

\* "every TShark subprocess has a deadline"
\* (docs/saved-pcap-normalization.md:337): time alone makes run_bounded return.
DeadlineHolds == WF_vars(Tick) => <>(pc = "returned" \/ refused)
=============================================================================
