------------------------------ MODULE ToolCalls ------------------------------
(***************************************************************************)
(* The tools of the server (server.py), one call of one of them: the       *)
(* connection's lock admits one at a time (PaneLease), and each does its   *)
(* work in a machine of its own.  This module is the choice of the tool    *)
(* and their sum; what several calls do to one connection is in            *)
(* ConnectionLifecycle.                                                    *)
(***************************************************************************)
EXTENDS Naturals, Sequences

CONSTANTS
    PayloadLen, ChunkLen, ReadLen, Slack, MaxTyped, MaxFaults, MaxCancels,
    MaxRead, Contents, NoFile, Old, New, Requests, MaxForeign, MaxErrors,
    MaxResults, MaxPrinted, MaxSplits,
    Checks,
    MaxChars, Widths, MarkerLen, OutputLimits

VARIABLES
    tool,  \* "none", or which tool works
    sender, piece, unloaded, buffers, input, stream, pending, spool, receiver,
    typed, faults, cancels,
    file, inode, past, caller, request, size, part, got, snap, written, result,
    foreign, errors,
    search, helper, child, printed, lines, stopped, status, code, trouble, answer,
    check, stage, proc, exitcode, forwarding, ran, warnings, present, outcome,
    text, shown, cut, limit

Write == INSTANCE PayloadStream
Edit == INSTANCE RemoteEdit
Search == INSTANCE SearchTool
Connect == INSTANCE Preflight
Run == INSTANCE ToolOutput

\* What the proofs about the machines take for granted.
ASSUME ParametersAssumption ==
    /\ Write!Parameters /\ Edit!Parameters /\ Search!Parameters
    /\ Connect!Parameters /\ Run!Parameters

writing == <<sender, piece, unloaded, buffers, input, stream, pending, spool, receiver,
             typed, faults, cancels>>
editing == <<file, inode, past, caller, request, size, part, got, snap, written, result,
             foreign, errors>>
searching == <<search, helper, child, printed, lines, stopped, status, code, trouble, answer>>
connecting == <<check, stage, proc, exitcode, forwarding, ran, warnings, present, outcome>>
running == <<text, shown, cut, limit>>
vars == <<tool, writing, editing, searching, connecting, running>>

Init ==
    /\ tool = "none"
    /\ Write!Init /\ Edit!Init /\ Search!Init /\ Connect!Init /\ Run!Init

\* A request of the agent arrives.
Start ==
    /\ tool = "none"
    /\ tool' \in {"write", "edit", "search", "connect", "run"}
    /\ UNCHANGED <<writing, editing, searching, connecting, running>>

WriteStep ==
    /\ tool = "write" /\ Write!Next
    /\ UNCHANGED <<tool, editing, searching, connecting, running>>
EditStep ==
    /\ tool = "edit" /\ Edit!Next
    /\ UNCHANGED <<tool, writing, searching, connecting, running>>
SearchStep ==
    /\ tool = "search" /\ Search!Next
    /\ UNCHANGED <<tool, writing, editing, connecting, running>>
ConnectStep ==
    /\ tool = "connect" /\ Connect!Next
    /\ UNCHANGED <<tool, writing, editing, searching, running>>
RunStep ==
    /\ tool = "run" /\ Run!Next
    /\ UNCHANGED <<tool, writing, editing, searching, connecting>>

Next == Start \/ WriteStep \/ EditStep \/ SearchStep \/ ConnectStep \/ RunStep

\* The steps that the code does not wait for anybody to take: its own, those
\* of its timeouts, and the death of a process that was killed.  A person, a
\* search process and a connect's cancellation owe nothing.
Own ==
    \/ WriteStep /\ Write!SenderStep
    \/ EditStep /\ Edit!CallStep
    \/ SearchStep /\ (Search!HelperStep \/ Search!Death)
    \/ ConnectStep /\ Connect!Progress
    \/ RunStep

Spec == Init /\ [][Next]_vars /\ WF_vars(Own)

(* Properties                                                              *)

TypeOK ==
    /\ tool \in {"none", "write", "edit", "search", "connect", "run"}
    /\ Write!TypeOK /\ Edit!TypeOK /\ Search!TypeOK /\ Connect!TypeOK /\ Run!TypeOK

\* The receiver finds the delimiter wherever the reads cut it, and accepts
\* only what comes before it.
DelimiterEndsPayload == Write!DelimiterEndsPayload

\* An undisturbed payload is accepted and spooled as it was sent.
CleanTransferAccepted == Write!CleanTransferAccepted

\* A read consists of bytes that were in their places during the call.
ReadReflectsFile == Edit!ReadReflectsFile

\* An edit replaces what it was asked to replace, and gives the true reason
\* when it does not.
EditIsExact == Edit!EditIsExact

\* A search's count and truncated flag are those of what there was to find,
\* unless a match has a line break of str.splitlines within it: then only an
\* answer that is not marked as truncated is known to be complete.
SearchIsExact == Search!SearchIsExact

\* A connect's agent warnings are those that its preflight had reason for.
AgentWarned == Connect!AgentWarned

\* The output of a command is shown whole, or honestly shortened.
OutputHonest == Run!OutputHonest

\* A tool that has ended leaves neither a paste buffer nor a process: paste
\* buffers are dropped, the search process and the preflight's child have ended
\* or were killed.  Two exceptions, in the parts: a load-buffer that was
\* interrupted after tmux had stored the buffer, or two failures in one
\* clean-up, and a C-c that strikes the search helper where nothing handles it.
NothingLeftBehind == Write!BuffersGone /\ Search!ChildGone /\ Connect!ChildStopped

\* Under way: a transfer, a read or an edit, a search that has what it was
\* asked for, a preflight.
Busy ==
    \/ tool = "write" /\ ~Write!Ended
    \/ tool = "edit" /\ caller # "end"
    \/ tool = "search" /\ lines >= Search!Limit /\ helper \notin Search!Exited
    \/ tool = "connect" /\ stage # "end"

\* Every call comes to its end, by what it waits for or by a timeout.
CallsEnd == Busy ~> ~Busy
=============================================================================
