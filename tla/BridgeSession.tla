----------------------------- MODULE BridgeSession -----------------------------
(***************************************************************************)
(* A run with a live source: app/Application.cpp launches the bridge as a  *)
(* child process (--source sysdvr; with sysdvr-pipe somebody else does),   *)
(* SysDvrPipeSource opens the socket it connects to, PipeSource reads from *)
(* it, and whatever happens the socket is closed and the bridge stopped.   *)
(*                                                                         *)
(* This is the POSIX build.  Windows has no socket file, and no zombies.   *)
(***************************************************************************)
EXTENDS PipeSource

VARIABLES
  managed,        \* the bridge is a child of this process
  appPc,
  foreign,        \* the socket's path was somebody's file, not a socket
  file,           \* what is at that path
  socketBound, listener,    \* SysDvrPipeSource::Impl's members
  child,          \* the bridge process: none, running, exited, reaped
  killed          \* it was sent SIGKILL

endpoint == <<foreign, file, socketBound, listener>>
process  == <<child, killed>>
session  == <<managed, appPc, endpoint, process>>
sessionVars == <<vars, session>>

(* A managed bridge gets a name nobody used before. *)
SessionInit ==
  /\ Init
  /\ managed \in BOOLEAN
  /\ appPc = IF managed THEN "launch" ELSE "inspect"
  /\ file \in IF managed THEN {"nothing"} ELSE {"nothing", "socket", "other"}
  /\ foreign = (file = "other") /\ socketBound = FALSE /\ listener = FALSE
  /\ child = "none" /\ killed = FALSE

-------------------------------------------------------------------------------
(* Opening. *)

LaunchSysDvrBridge ==
  /\ appPc = "launch"
  /\ \/ child' = "running" /\ appPc' = "inspect"
     \/ appPc' = "done" /\ UNCHANGED child
  /\ UNCHANGED <<vars, managed, endpoint, killed>>

(* Slip: the constructor's exception is not caught, and no destructor runs. *)
OpenFailsUncaught == appPc' = "stop"

(* openListener throws. *)
OpenFails == appPc' = "closeSockets"

(* A socket file is taken for a leftover and removed, if it can be. *)
InspectPath ==
  /\ appPc = "inspect"
  /\ \/ file = "other" /\ OpenFails /\ UNCHANGED file
     \/ file = "socket" /\ file' \in {"nothing", "socket"} /\ appPc' = "socket"
     \/ file = "nothing" /\ appPc' = "socket" /\ UNCHANGED file
  /\ UNCHANGED <<vars, managed, foreign, socketBound, listener, process>>

CreateSocket ==
  /\ appPc = "socket"
  /\ \/ listener' = TRUE /\ appPc' = "bind"
     \/ OpenFails /\ UNCHANGED listener
  /\ UNCHANGED <<vars, managed, foreign, file, socketBound, process>>

Bind ==
  /\ appPc = "bind"
  /\ \/ /\ file = "nothing"
        /\ file' = "bound" /\ socketBound' = TRUE /\ appPc' = "listen"
     \/ OpenFails /\ UNCHANGED <<file, socketBound>>
  /\ UNCHANGED <<vars, managed, foreign, listener, process>>

(* chmod and listen. *)
Listen ==
  /\ appPc = "listen"
  /\ appPc' = "reading" \/ OpenFails
  /\ UNCHANGED <<vars, managed, endpoint, process>>

-------------------------------------------------------------------------------
(* Reading.  The child of a managed run is the bridge. *)

Reading == appPc = "reading"

Bridge == Reading /\ (managed => child = "running") /\ BridgeStep /\ UNCHANGED session
Source == Reading /\ SourceStep /\ UNCHANGED session
Socket == Reading /\ SocketFails /\ UNCHANGED session
FFmpeg == Reading /\ FFmpegReads /\ UNCHANGED session

(* The bridge process ends, for whatever reason; its descriptors close. *)
ChildExits ==
  /\ child = "running"
  /\ child' = "exited"
  /\ bridgeEnd' = IF bridgeEnd = "open" THEN "closed" ELSE bridgeEnd
  /\ UNCHANGED <<sent, wire, pc, request, members, parsed, results, managed, appPc,
                 endpoint, killed>>

(* The run ends between two reads: the window is closed, the input is over, *)
(* or something throws.                                                     *)
Leave ==
  /\ Reading /\ pc = "idle"
  /\ appPc' = "closeSockets"
  /\ UNCHANGED <<vars, managed, endpoint, process>>

-------------------------------------------------------------------------------
(* Leaving: the reader is destroyed first, then the BridgeProcess. *)

CloseSockets ==
  /\ appPc = "closeSockets"
  /\ SourceDestroyed
  /\ listener' = FALSE /\ socketBound' = FALSE
  /\ file' = IF socketBound THEN "nothing" ELSE file
  /\ appPc' = "stop"
  /\ UNCHANGED <<managed, foreign, process>>

(* waitpid without waiting finds the child exited, or still running. *)
Reaped       == child = "exited" /\ child' = "reaped" /\ appPc' = "done"
StillRunning == child = "running" /\ UNCHANGED child

Stop ==
  /\ appPc = "stop"
  /\ \/ Reaped
     \/ StillRunning /\ appPc' = "terminate"
     \/ child = "none" /\ appPc' = "done" /\ UNCHANGED child
  /\ UNCHANGED <<vars, managed, endpoint, killed>>

(* SIGTERM: the bridge may take its time, or take no notice. *)
Terminate ==
  /\ appPc = "terminate"
  /\ appPc' = "poll"
  /\ UNCHANGED <<vars, managed, endpoint, process>>

(* Slip: there is no deadline. *)
PollForEver ==
  /\ appPc = "poll" /\ Reaped
  /\ UNCHANGED <<vars, managed, endpoint, killed>>

(* Every 20 ms, until the deadline. *)
Poll ==
  /\ appPc = "poll"
  /\ Reaped \/ (StillRunning /\ appPc' = "kill")
  /\ UNCHANGED <<vars, managed, endpoint, killed>>

Kill ==
  /\ appPc = "kill"
  /\ killed' = (child = "running")
  /\ appPc' = "wait"
  /\ UNCHANGED <<vars, managed, endpoint, child>>

WaitForChild ==
  /\ appPc = "wait" /\ Reaped
  /\ UNCHANGED <<vars, managed, endpoint, killed>>

-------------------------------------------------------------------------------
Opening == LaunchSysDvrBridge \/ InspectPath \/ CreateSocket \/ Bind \/ Listen
Leaving == CloseSockets \/ Stop \/ Terminate \/ Poll \/ Kill \/ WaitForChild

Ended == appPc = "done" /\ UNCHANGED sessionVars

(* accept has no timeout: a bridge that exits before it has connected is   *)
(* waited for until the process is killed.                                 *)
NobodyConnects ==
  /\ Reading /\ pc = "connect" /\ bridgeEnd = "away" /\ child = "exited"
  /\ UNCHANGED sessionVars

SessionNext ==
  \/ Opening \/ Bridge \/ Source \/ Socket \/ FFmpeg \/ ChildExits \/ Leave
  \/ Leaving
  \/ Ended \/ NobodyConnects

SessionSpec == SessionInit /\ [][SessionNext]_sessionVars

(* The threads go on, FFmpeg keeps reading, and SIGKILL ends a process.    *)
(* Nothing is assumed of a bridge that is left alone.                      *)
FairSession ==
  /\ SessionSpec
  /\ WF_sessionVars(Opening \/ Source \/ Leaving) /\ WF_sessionVars(FFmpeg)
  /\ WF_sessionVars(killed /\ ChildExits)

-------------------------------------------------------------------------------
(* However far the opening came and whatever became of the bridge, the run *)
(* leaves no descriptor, no socket file of its own, no bridge and no zombie *)
(* behind, and touches no file that is not a socket; and a process is      *)
(* signalled only as long as its number cannot be another's.               *)
NothingLeftBehind ==
  /\ appPc = "done" => /\ ~listener /\ ~connected
                       /\ file # "bound" /\ (foreign => file = "other")
                       /\ child \in {"none", "reaped"}
  /\ appPc \in {"terminate", "kill"} => child \in {"running", "exited"}

(* When a bridge that was connected goes away, a reader that keeps reading *)
(* finds out.                                                              *)
CloseIsNoticed == BridgeGone ~> atEnd \/ ioError \/ appPc = "closeSockets"

(* Whatever the bridge does, a run that is being left ends.                *)
StopEnds == appPc = "closeSockets" ~> appPc = "done"
===============================================================================
