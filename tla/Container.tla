----------------------------- MODULE Container -----------------------------
(***************************************************************************)
(* The container launcher of Containers/container.c: the launcher's loop,  *)
(* the process each clone() starts, the checkpoint pipe between them, the  *)
(* one pair of network devices, the busyboxN directories, and SIGINT.      *)
(*                                                                         *)
(* Container k is the one launched with containerId = k.  Every process    *)
(* owns a copy of the launcher's memory and descriptors, as clone() is     *)
(* called without CLONE_VM and CLONE_FILES: a container inherits the write *)
(* end of the pipe, the SIGINT handler, and the vector as it is then.      *)
(*                                                                         *)
(* system() ignores SIGINT while its command runs, so a signal takes       *)
(* effect only between two steps of a process.                             *)
(***************************************************************************)
EXTENDS Integers, Sequences, FiniteSets

CONSTANTS
  MAX_PROCESS,
  SleepSuffices,  \* whether a new container's sleep(1) outlasts the launcher's part of the launch
  NULL

ASSUME LimitAssumption == MAX_PROCESS \in Nat \ {0}
ASSUME SleepAssumption == SleepSuffices \in BOOLEAN
ASSUME NullAssumption  == NULL \notin Int

VARIABLES
  ppc,          \* the launcher's program counter
  containers,   \* its vector of pids: a container, or -1 when clone() failed
  containerId,
  child_pid,
  at,           \* handleSigint's loop variable
  cpc,          \* each container's program counter
  root,         \* the root directory it has pivoted to: "own", or still "host"
  address,      \* the containers that have given veth1 an address
  writers,      \* the processes that hold the write end of checkpoint
  veth1,        \* whose namespace veth1 is in, NULL when there is no pair
  dirs,         \* the N for which a directory busyboxN exists
  uncopied,     \* history: the containers whose cp failed
  struck        \* history: the containers that have run handleSigint

launcherVars == <<ppc, containers, containerId, child_pid, at>>
childVars    == <<cpc, root, address, struck>>
worldVars    == <<writers, veth1, dirs, uncopied>>
vars == <<launcherVars, childVars, worldVars>>

\* One more than the limit allows, and the launcher itself.
Launcher == -1
Ids == 0..MAX_PROCESS
Live(k) == cpc[k] \in {"sleep", "wait", "net", "run"}
Goto(from, to) == ppc = from /\ ppc' = to

-----------------------------------------------------------------------------
(* main                                                                    *)

\* Mutant of GetLine: one container too many.
GetLineOffByOne ==
  /\ Len(containers) <= MAX_PROCESS
  /\ Goto("prompt", "copy")
  /\ UNCHANGED <<containers, containerId, child_pid, at, childVars, worldVars>>

\* A line of input or, as getline()'s -1 is not looked at, its end, after which
\* the last command is launched again and again.
GetLine ==
  /\ Len(containers) # MAX_PROCESS
  /\ Goto("prompt", "copy")
  /\ UNCHANGED <<containers, containerId, child_pid, at, childVars, worldVars>>

Refuse == ppc = "prompt" /\ Len(containers) = MAX_PROCESS /\ UNCHANGED vars

\* cp -R busybox busyboxN, whose failure is not looked at.
Copy(ok) ==
  /\ Goto("copy", "clone")
  /\ dirs' = IF ok THEN dirs \cup {containerId} ELSE dirs
  /\ uncopied' = IF ok THEN uncopied ELSE uncopied \cup {containerId}
  /\ containerId' = containerId + 1
  /\ UNCHANGED <<containers, child_pid, at, childVars, writers, veth1>>

Clone ==
  /\ Goto("clone", "add")
  /\ child_pid' = containerId - 1
  /\ cpc' = [cpc EXCEPT ![child_pid'] = "sleep"]
  /\ writers' = IF Launcher \in writers THEN writers \cup {child_pid'} ELSE writers
  /\ UNCHANGED <<containers, containerId, at, root, address, struck, veth1, dirs, uncopied>>

CloneFails ==
  /\ Goto("clone", "add")
  /\ child_pid' = -1
  /\ UNCHANGED <<containers, containerId, at, childVars, worldVars>>

\* ip link add veth0 type veth peer name veth1: fails when the names exist.
LinkAdd ==
  /\ Goto("add", "move")
  /\ veth1' = IF veth1 = NULL THEN Launcher ELSE veth1
  /\ UNCHANGED <<containers, containerId, child_pid, at, childVars, writers, dirs, uncopied>>

\* ip link set veth1 netns PID, then the host's end is set up.
LinkMove ==
  /\ Goto("move", "close")
  /\ veth1' = IF veth1 = Launcher /\ child_pid # -1 /\ Live(child_pid) THEN child_pid ELSE veth1
  /\ UNCHANGED <<containers, containerId, child_pid, at, childVars, writers, dirs, uncopied>>

CloseCheckpoint(from, to) ==
  /\ Goto(from, to)
  /\ writers' = writers \ {Launcher}
  /\ UNCHANGED <<containers, containerId, child_pid, at, childVars, veth1, dirs, uncopied>>

Push(from, to, pids) ==
  /\ Goto(from, to)
  /\ containers' = containers \o pids
  /\ UNCHANGED <<containerId, child_pid, at, childVars, worldVars>>

\* Mutants of Record: the pid is recorded before the pipe is closed; only a
\* container that could be started is recorded.
RecordFirst == Push("close", "push", <<child_pid>>) \/ CloseCheckpoint("push", "prompt")
RecordStarted ==
  \/ CloseCheckpoint("close", "push")
  \/ Push("push", "prompt", IF child_pid = -1 THEN << >> ELSE <<child_pid>>)

\* The pipe is closed, the container that waits may go on; its pid is recorded.
Record == CloseCheckpoint("close", "push") \/ Push("push", "prompt", <<child_pid>>)

-----------------------------------------------------------------------------
(* startContainer                                                          *)

\* The launcher is still setting up the network of container k.
Launching(k) == ppc \in {"add", "move", "close"} /\ child_pid = k

\* sleep(1); pivot_root, which fails when the directory is not there and whose
\* result is not looked at; the container's own write end is closed.
Pivot(k) ==
  /\ cpc[k] = "sleep" /\ ~(SleepSuffices /\ Launching(k))
  /\ cpc' = [cpc EXCEPT ![k] = "wait"]
  /\ root' = [root EXCEPT ![k] = IF k \in dirs THEN "own" ELSE "host"]
  /\ writers' = writers \ {k}
  /\ UNCHANGED <<launcherVars, address, struck, veth1, dirs, uncopied>>

\* Mutant of Checkpoint: read() is not waited for.
CheckpointSkipped(k) ==
  /\ cpc[k] = "wait"
  /\ cpc' = [cpc EXCEPT ![k] = "net"]
  /\ UNCHANGED <<launcherVars, root, address, struck, worldVars>>

\* read(checkpoint[0]): nobody writes, so it returns once no writer is left.
Checkpoint(k) ==
  /\ cpc[k] = "wait" /\ writers = {}
  /\ cpc' = [cpc EXCEPT ![k] = "net"]
  /\ UNCHANGED <<launcherVars, root, address, struck, worldVars>>

\* ip link set veth1 up; ip addr add ... dev veth1; chdir("/"); the users.
Configure(k) ==
  /\ cpc[k] = "net"
  /\ cpc' = [cpc EXCEPT ![k] = "run"]
  /\ address' = IF veth1 = k THEN address \cup {k} ELSE address
  /\ UNCHANGED <<launcherVars, root, struck, worldVars>>

\* The process ends: its namespace goes, veth1 with it, and veth0 with veth1.
Ends(k) ==
  /\ cpc' = [cpc EXCEPT ![k] = "ended"]
  /\ veth1' = IF veth1 = k THEN NULL ELSE veth1
  /\ writers' = writers \ {k}

CommandEnds(k) ==
  /\ cpc[k] = "run"
  /\ Ends(k)
  /\ UNCHANGED <<launcherVars, root, address, struck, dirs, uncopied>>

\* SIGINT in a container runs the inherited handler on the inherited vector,
\* which holds the earlier containers: they are not its children, so it waits
\* for none and removes their directories, which it sees up to its chdir("/").
Struck(k) ==
  /\ Live(k) /\ Ends(k)
  /\ dirs' = IF cpc[k] = "run" THEN dirs ELSE dirs \ (0..(k - 1))
  /\ struck' = struck \cup {k}
  /\ UNCHANGED <<launcherVars, root, address, uncopied>>

-----------------------------------------------------------------------------
(* handleSigint in the launcher                                            *)

Handling == ppc \in {"reap", "remove", "exited"}

Interrupt ==
  /\ ~Handling
  /\ ppc' = "reap" /\ at' = 0
  /\ UNCHANGED <<containers, containerId, child_pid, childVars, worldVars>>

\* The children waitpid(pid) may return, and whether it returns without one.
Awaited(pid) == {k \in Ids : pid \in {-1, k} /\ cpc[k] = "ended"}
NoChild(pid) == \A k \in Ids : pid \in {-1, k} => cpc[k] \in {"none", "reaped"}

\* Mutant of Wait: waitpid() does not block.
WaitNoHang ==
  /\ at < Len(containers) /\ Goto("reap", "remove")
  /\ UNCHANGED <<containers, containerId, child_pid, at, childVars, worldVars>>

Wait ==
  /\ at < Len(containers) /\ Goto("reap", "remove")
  /\ LET pid == containers[at + 1]
     IN  \/ \E k \in Awaited(pid) : cpc' = [cpc EXCEPT ![k] = "reaped"]
         \/ NoChild(pid) /\ UNCHANGED cpc
  /\ UNCHANGED <<containers, containerId, child_pid, at, root, address, struck, worldVars>>

\* Mutant of Remove: the index is one too high.
RemoveNext ==
  /\ Goto("remove", "reap")
  /\ dirs' = dirs \ {at + 1}
  /\ at' = at + 1
  /\ UNCHANGED <<containers, containerId, child_pid, childVars, writers, veth1, uncopied>>

\* rm -r busyboxI, where I is the index in the vector.
Remove ==
  /\ Goto("remove", "reap")
  /\ dirs' = dirs \ {at}
  /\ at' = at + 1
  /\ UNCHANGED <<containers, containerId, child_pid, childVars, writers, veth1, uncopied>>

Exit ==
  /\ at = Len(containers) /\ Goto("reap", "exited")
  /\ writers' = writers \ {Launcher}
  /\ UNCHANGED <<containers, containerId, child_pid, at, childVars, veth1, dirs, uncopied>>

-----------------------------------------------------------------------------
(* The specification                                                       *)

Init ==
  /\ ppc = "prompt" /\ containers = << >> /\ containerId = 0 /\ child_pid = -1 /\ at = 0
  /\ cpc = [k \in Ids |-> "none"] /\ root = [k \in Ids |-> "host"]
  /\ address = {} /\ struck = {}
  /\ writers = {Launcher} /\ veth1 = NULL /\ dirs = {} /\ uncopied = {}

Main == \/ GetLine \/ Refuse \/ Clone \/ CloneFails \/ LinkAdd \/ LinkMove \/ Record
        \/ \E ok \in BOOLEAN : Copy(ok)
HandleSigint == Wait \/ Remove \/ Exit
StartContainer(k) == Pivot(k) \/ Checkpoint(k) \/ Configure(k) \/ CommandEnds(k)

\* The launcher is gone and so are the containers.
Over == ppc = "exited" /\ (\A k \in Ids : ~Live(k)) /\ UNCHANGED vars

Next == \/ Main \/ Interrupt \/ HandleSigint
        \/ \E k \in Ids : StartContainer(k) \/ Struck(k)
        \/ Over

Spec == Init /\ [][Next]_vars

\* Processes are scheduled, and the command of a container ends in the end.
Fairness == WF_vars(HandleSigint) /\ \A k \in Ids : WF_vars(StartContainer(k))
FairSpec == Spec /\ Fairness

-----------------------------------------------------------------------------
(* Properties                                                              *)

\* Every variable holds a value of its type; at most MAX_PROCESS containers are
\* ever launched, so their names stay below MAX_PROCESS ("Limit number of
\* processes (Max 10 containers", Containers/README.md:6).
TypeOK ==
  /\ ppc \in {"prompt", "copy", "clone", "add", "move", "close", "push", "reap", "remove", "exited"}
  /\ containers \in Seq(0..(MAX_PROCESS - 1) \cup {-1})
  /\ containerId \in 0..MAX_PROCESS
  /\ child_pid \in 0..(MAX_PROCESS - 1) \cup {-1}
  /\ at \in 0..Len(containers)
  /\ cpc \in [Ids -> {"none", "sleep", "wait", "net", "run", "ended", "reaped"}]
  /\ root \in [Ids -> {"host", "own"}]
  /\ address \subseteq Ids /\ struck \subseteq Ids /\ uncopied \subseteq Ids
  /\ writers \subseteq Ids \cup {Launcher}
  /\ veth1 \in Ids \cup {Launcher, NULL}
  /\ dirs \subseteq Ids

\* The pipe makes the first container wait for its network: it runs its command
\* with an address, whatever the order of the two processes, unless the
\* launcher was interrupted (checkpoint, container.c:66-68 and 119).
FirstHasAddress == cpc[0] = "run" /\ ~Handling => 0 \in address

\* Every container runs its command with an address ("Launch multiple
\* containers concurrently", "Assign IP to container", Containers/README.md:4
\* and 7), as long as the launcher is not interrupted.
AddressAssigned == ~Handling => \A k \in Ids : cpc[k] = "run" => k \in address

\* An interrupted launcher leaves behind, as a process or as a directory, at
\* most the container it was about to record.
CleanExit ==
  /\ Len(containers) >= containerId - 1
  /\ ppc = "exited" => \A k \in Ids : Live(k) \/ k \in dirs => k >= Len(containers)

\* The launcher removes a directory only when the container in it has ended.
NotUnderfoot ==
  [][ppc = "remove" /\ ppc' = "reap" => \A k \in dirs \ dirs' : ~Live(k)]_vars

\* A container runs on a root of its own ("Container launches in a new root
\* partition", Containers/README.md:11), unless its copy failed or a later
\* container took a SIGINT before it had pivoted.
RootIsOwn ==
  \A k \in Ids : cpc[k] \in {"wait", "net", "run"} /\ root[k] = "host" =>
    k \in uncopied \/ \E j \in struck : j > k

\* A launcher that is interrupted exits: it never waits for a container that
\* waits for the launcher's end of the pipe to be closed.
InterruptEnds == ppc = "reap" ~> ppc = "exited"

=============================================================================
