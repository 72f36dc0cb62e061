------------------------------- MODULE Instances -------------------------------
(***************************************************************************)
(* Concurrent launcher processes and the files they share: the instance   *)
(* lock (src/src/util/lock.rs), the IPC socket (src/src/util/ipc.rs) and  *)
(* the order run_launcher (src/src/main.rs) takes and drops them.          *)
(*                                                                         *)
(* Each element of Procs is one invocation of the program (one press of   *)
(* the shortcut).  It opens the lock file, creating it when the path is   *)
(* empty, and tries flock(LOCK_EX | LOCK_NB).  On failure it is a client: *)
(* it connects to the socket and sends one cycle command (IpcClient).    *)
(* On success it                                                           *)
(* removes a socket file left at the socket path, binds a new one, runs   *)
(* its session, and on the way out drops the IpcServer (unlinking the     *)
(* socket path) and then the InstanceLock (unlinking the lock path while  *)
(* the flock is still held, then closing the file, which releases it).   *)
(*                                                                         *)
(* A file is identified by the inode number it was created with; the lock *)
(* path names an inode or NoFile.  A socket file is identified by the     *)
(* process that bound it.  A process may be killed at any point: the      *)
(* kernel releases its flock and closes its sockets, and the files stay.   *)
(*                                                                         *)
(* The IPC exchange of util/ipc.rs: the client connects and writes its   *)
(* command byte; the connection waits in the listener's backlog until the *)
(* listener thread accepts it, forwards the command to the mpsc channel   *)
(* and writes the response byte; the event loop of App::run drains the    *)
(* channel.  A client is named by its process, and so is its command.      *)
(***************************************************************************)
EXTENDS Naturals, FiniteSets, Sequences, Functions

CONSTANTS
    Procs,          \* launcher invocations
    MaxCrashes      \* processes killed during one behaviour

VARIABLES
    pc,             \* pc[p]: the step of run_launcher process p is at
    lockPath,       \* the inode the lock path names, or NoFile
    nextInode,      \* the inode number the next created file gets
    fd,             \* fd[p]: the inode of p's open lock file, or NoFile
    holds,          \* holds[p]: p holds the flock on fd[p]
    sockPath,       \* the process whose socket the socket path names, or NoSock
    ipc,            \* ipc[p]: p's IpcServer::start succeeded
    backlog,        \* backlog[p]: clients connected to p's listener, not accepted
    reply,          \* reply[c]: what client c's read returns
    channel,        \* channel[p]: commands in p's mpsc channel
    applied,        \* clients whose command an App::run loop handled
    dropped,        \* clients whose command was in a channel when it was dropped
    crashes         \* processes killed so far

ipcVars == <<backlog, reply, channel, applied, dropped>>
vars == <<pc, lockPath, nextInode, fd, holds, sockPath, ipc, ipcVars, crashes>>

NoFile == 0
NoSock == "none"

\* Control points of run_launcher.
Phases == {"start", "opened", "locked", "bind", "running", "dropIpc", "unlinked",
           "done", "client", "sent", "crashed"}

\* The session: from the IPC server start to the end of App::run.
InSession(p) == pc[p] = "running"

\* A process whose listener thread is alive and whose receiver still exists.
Serving(p) == pc[p] = "running" /\ ipc[p]

\* The listener thread runs from the bind to the exit of the process.
Listening(p) == ipc[p] /\ pc[p] \in {"running", "dropIpc", "unlinked"}

\* What a client's read returns: nothing yet, IpcResponse::Ok ("K") or
\* Error ("E") as bytes, end of file, or the error of a failed connect.
Replies == {"none", "K", "E", "eof", "refused"}

Init ==
    /\ pc = [p \in Procs |-> "start"]
    /\ lockPath = NoFile
    /\ nextInode = 1
    /\ fd = [p \in Procs |-> NoFile]
    /\ holds = [p \in Procs |-> FALSE]
    /\ sockPath = NoSock
    /\ ipc = [p \in Procs |-> FALSE]
    /\ backlog = [p \in Procs |-> <<>>]
    /\ reply = [p \in Procs |-> "none"]
    /\ channel = [p \in Procs |-> <<>>]
    /\ applied = {}
    /\ dropped = {}
    /\ crashes = 0

(***************************************************************************)
(* InstanceLock::acquire                                                   *)
(***************************************************************************)
\* OpenOptions create(true), truncate(false): open the file the path names,
\* or create one there.
OpenLockFile(p) ==
    /\ pc[p] = "start"
    /\ IF lockPath = NoFile
       THEN /\ fd' = [fd EXCEPT ![p] = nextInode]
            /\ lockPath' = nextInode
            /\ nextInode' = nextInode + 1
       ELSE /\ fd' = [fd EXCEPT ![p] = lockPath]
            /\ UNCHANGED <<lockPath, nextInode>>
    /\ pc' = [pc EXCEPT ![p] = "opened"]
    /\ UNCHANGED <<holds, sockPath, ipc, ipcVars, crashes>>

\* flock(LOCK_EX | LOCK_NB) fails while another open file description of
\* the same inode holds the lock; the PID written afterwards is read by no
\* one.  On failure run_launcher turns to the IPC client.
TryLock(p) ==
    /\ pc[p] = "opened"
    /\ IF \E q \in Procs \ {p} : holds[q] /\ fd[q] = fd[p]
       THEN /\ pc' = [pc EXCEPT ![p] = "client"]
            /\ fd' = [fd EXCEPT ![p] = NoFile]
            /\ UNCHANGED holds
       ELSE /\ pc' = [pc EXCEPT ![p] = "locked"]
            /\ holds' = [holds EXCEPT ![p] = TRUE]
            /\ UNCHANGED fd
    /\ UNCHANGED <<lockPath, nextInode, sockPath, ipc, ipcVars, crashes>>

(***************************************************************************)
(* IpcServer::start: remove a socket file left at the path, then bind.    *)
(* A bind that finds the path taken fails and the session runs with IPC   *)
(* disabled.                                                               *)
(***************************************************************************)
\* Faulty variant: binds without removing a socket file left behind.
RemoveStaleSocketSkipped(p) ==
    /\ pc[p] = "locked"
    /\ pc' = [pc EXCEPT ![p] = "bind"]
    /\ UNCHANGED <<lockPath, nextInode, fd, holds, sockPath, ipc, ipcVars, crashes>>

RemoveStaleSocket(p) ==
    /\ pc[p] = "locked"
    /\ sockPath' = NoSock
    /\ pc' = [pc EXCEPT ![p] = "bind"]
    /\ UNCHANGED <<lockPath, nextInode, fd, holds, ipc, ipcVars, crashes>>

Bind(p) ==
    /\ pc[p] = "bind"
    /\ IF sockPath = NoSock
       THEN sockPath' = p /\ ipc' = [ipc EXCEPT ![p] = TRUE]
       ELSE UNCHANGED <<sockPath, ipc>>
    /\ pc' = [pc EXCEPT ![p] = "running"]
    /\ UNCHANGED <<lockPath, nextInode, fd, holds, ipcVars, crashes>>

(***************************************************************************)
(* The end of run_launcher: App::run returns and drops the IpcServer      *)
(* (remove_file of the socket path, whoever bound it), then the           *)
(* InstanceLock is dropped: remove_file of the lock path, whatever inode  *)
(* it names now, and then the file is closed, releasing the flock.        *)
(***************************************************************************)
DropIpcServer(p) ==
    /\ pc[p] = "running"
    /\ sockPath' = IF ipc[p] THEN NoSock ELSE sockPath
    /\ dropped' = dropped \cup Range(channel[p])
    /\ channel' = [channel EXCEPT ![p] = <<>>]
    /\ pc' = [pc EXCEPT ![p] = "dropIpc"]
    /\ UNCHANGED <<lockPath, nextInode, fd, holds, ipc, backlog, reply, applied, crashes>>

UnlinkLockFile(p) ==
    /\ pc[p] = "dropIpc"
    /\ lockPath' = NoFile
    /\ pc' = [pc EXCEPT ![p] = "unlinked"]
    /\ UNCHANGED <<nextInode, fd, holds, sockPath, ipc, ipcVars, crashes>>

\* The connections waiting in p's backlog read end of file when p's
\* listening socket is closed, at exit or when p is killed.
CloseBacklog(p) ==
    /\ reply' = [c \in Procs |-> IF c \in Range(backlog[p]) THEN "eof" ELSE reply[c]]
    /\ backlog' = [backlog EXCEPT ![p] = <<>>]

\* The file is closed and run_launcher returns; the process exits.
CloseLockFile(p) ==
    /\ pc[p] = "unlinked"
    /\ holds' = [holds EXCEPT ![p] = FALSE]
    /\ fd' = [fd EXCEPT ![p] = NoFile]
    /\ pc' = [pc EXCEPT ![p] = "done"]
    /\ CloseBacklog(p)
    /\ UNCHANGED <<lockPath, nextInode, sockPath, ipc, channel, applied, dropped, crashes>>

(***************************************************************************)
(* IpcClient::send of a cycle command (signal_cycle_forward/backward):    *)
(* connect fails unless the socket path names a socket whose listener is  *)
(* still open; otherwise the command byte is written and the client waits *)
(* for the response byte.                                                  *)
(***************************************************************************)
Connect(p) ==
    /\ pc[p] = "client"
    /\ IF sockPath # NoSock /\ Listening(sockPath)
       THEN /\ backlog' = [backlog EXCEPT ![sockPath] = Append(@, p)]
            /\ pc' = [pc EXCEPT ![p] = "sent"]
            /\ UNCHANGED reply
       ELSE /\ reply' = [reply EXCEPT ![p] = "refused"]
            /\ pc' = [pc EXCEPT ![p] = "done"]
            /\ UNCHANGED backlog
    /\ UNCHANGED <<lockPath, nextInode, fd, holds, sockPath, ipc, channel, applied,
                   dropped, crashes>>

\* read_exact of the response byte returns; the signal's result is
\* reply[p] = "K".
ReadReply(p) ==
    /\ pc[p] = "sent"
    /\ reply[p] # "none"
    /\ pc' = [pc EXCEPT ![p] = "done"]
    /\ UNCHANGED <<lockPath, nextInode, fd, holds, sockPath, ipc, ipcVars, crashes>>

Accept(p) ==
    /\ Listening(p)
    /\ backlog[p] # <<>>
    /\ LET c == Head(backlog[p]) IN
       IF pc[p] = "running"
       THEN /\ channel' = [channel EXCEPT ![p] = Append(@, c)]
            /\ reply' = [reply EXCEPT ![c] = "K"]
       ELSE /\ reply' = [reply EXCEPT ![c] = "E"]
            /\ UNCHANGED channel
    /\ backlog' = [backlog EXCEPT ![p] = Tail(@)]
    /\ UNCHANGED <<pc, lockPath, nextInode, fd, holds, sockPath, ipc, applied, dropped,
                   crashes>>

\* The event loop of App::run collects every command try_recv returns and
\* hands each to process_event as CycleForward or CycleBackward.
Drain(p) ==
    /\ pc[p] = "running"
    /\ channel[p] # <<>>
    /\ applied' = applied \cup Range(channel[p])
    /\ channel' = [channel EXCEPT ![p] = <<>>]
    /\ UNCHANGED <<pc, lockPath, nextInode, fd, holds, sockPath, ipc, backlog, reply,
                   dropped, crashes>>

\* The process is killed: the kernel releases its flock and closes its
\* descriptors; the lock file and the socket file stay where they are.
\* Its queued commands are lost and its backlog reads end of file.
Crash(p) ==
    /\ pc[p] \notin {"start", "done", "crashed"}
    /\ crashes < MaxCrashes
    /\ pc' = [pc EXCEPT ![p] = "crashed"]
    /\ holds' = [holds EXCEPT ![p] = FALSE]
    /\ fd' = [fd EXCEPT ![p] = NoFile]
    /\ crashes' = crashes + 1
    /\ CloseBacklog(p)
    /\ dropped' = dropped \cup Range(channel[p])
    /\ channel' = [channel EXCEPT ![p] = <<>>]
    /\ UNCHANGED <<lockPath, nextInode, sockPath, ipc, applied>>

Step(p) ==
    \/ OpenLockFile(p) \/ TryLock(p) \/ RemoveStaleSocket(p) \/ Bind(p)
    \/ DropIpcServer(p) \/ UnlinkLockFile(p) \/ CloseLockFile(p)
    \/ Connect(p) \/ ReadReply(p) \/ Accept(p) \/ Drain(p)

Terminated ==
    /\ \A p \in Procs : pc[p] \in {"done", "crashed"}
    /\ UNCHANGED vars

Next == (\E p \in Procs : Step(p) \/ Crash(p)) \/ Terminated

\* Every process that is not killed runs to its end.
Spec == Init /\ [][Next]_vars /\ \A p \in Procs : WF_vars(Step(p))
====
