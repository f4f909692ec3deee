-------------------------- MODULE ContainerProofs --------------------------
(***************************************************************************)
(* Proofs about Container, for every MAX_PROCESS and whether or not a      *)
(* container's sleep(1) is long enough.                                    *)
(***************************************************************************)
EXTENDS Container, SequenceTheorems, TLAPS

-----------------------------------------------------------------------------
(* The inductive invariant                                                 *)

\* The launcher's counters: containerId runs one ahead of the vector while a
\* container is being launched, and handleSigint's index stays within it.
Counted ==
  /\ ppc \in {"prompt", "copy"} => Len(containers) = containerId
  /\ ppc = "copy" => containerId < MAX_PROCESS
  /\ ppc \in {"clone", "add", "move", "close", "push"} => Len(containers) = containerId - 1
  /\ containerId - 1 <= Len(containers) /\ Len(containers) <= containerId
  /\ ppc = "remove" => at < Len(containers)
  /\ ppc = "exited" => at = Len(containers)

\* The vector's entry i is the pid of container i, or -1 when there never was
\* such a process; there is none beyond the one that is being launched.
Recorded ==
  /\ \A k \in Ids : cpc[k] # "none" => k < containerId /\ (ppc = "clone" => k < containerId - 1)
  /\ ppc \in {"add", "move", "close", "push"} =>
       child_pid = containerId - 1 \/ (child_pid = -1 /\ cpc[containerId - 1] = "none")
  /\ \A i \in 1..Len(containers) :
       containers[i] = i - 1 \/ (containers[i] = -1 /\ cpc[i - 1] = "none")

TypeInv == TypeOK /\ Counted /\ Recorded

\* handleSigint is done with the containers before its index.
Reaped ==
  /\ Handling => \A k \in Ids : k < at => ~Live(k) /\ k \notin dirs
  /\ ppc = "remove" => ~Live(at)

\* A directory is missing only for a reason.
Excused(k) == k \in uncopied \/ \E j \in struck : j > k
Rooted ==
  /\ ppc = "clone" => containerId - 1 \in dirs \cup uncopied
  /\ \A k \in Ids : cpc[k] = "sleep" => k \in dirs \/ Excused(k)
  /\ \A k \in Ids : cpc[k] \in {"wait", "net", "run"} => root[k] = "own" \/ Excused(k)

\* The first launch has come past ip link set veth1 netns.
Linked == containerId >= 2 \/ (containerId = 1 /\ ppc \in {"close", "push", "prompt", "copy"})

\* The pipe keeps the first container back until it has veth1, which nobody can
\* take from it afterwards.
Networked ==
  ~Handling =>
    /\ ~Linked => Launcher \in writers /\ veth1 = (IF ppc = "move" THEN Launcher ELSE NULL)
    /\ Linked /\ Live(0) => veth1 = 0
    /\ cpc[0] \in {"net", "run"} => Linked
    /\ cpc[0] = "run" => 0 \in address

IInv == TypeInv /\ Reaped /\ Rooted /\ Networked

-----------------------------------------------------------------------------
(* The steps                                                               *)

\* Every step is one of these; the launcher's refusal and the end of the run
\* change nothing.
LEMMA StepCases ==
  ASSUME [Next]_vars
  PROVE  \/ UNCHANGED vars
         \/ GetLine \/ (\E ok \in BOOLEAN : Copy(ok)) \/ Clone \/ CloneFails \/ LinkAdd \/ LinkMove
         \/ CloseCheckpoint("close", "push") \/ Push("push", "prompt", <<child_pid>>)
         \/ Interrupt \/ Wait \/ Remove \/ Exit
         \/ \E k \in Ids : Pivot(k) \/ Checkpoint(k) \/ Configure(k) \/ CommandEnds(k) \/ Struck(k)
BY DEF Next, Main, Refuse, Record, HandleSigint, StartContainer, Over

\* What is pushed comes last, and moves nothing.
LEMMA Pushed ==
  ASSUME NEW S, NEW s \in Seq(S), NEW e \in S
  PROVE  /\ s \o <<e>> \in Seq(S) /\ Len(s \o <<e>>) = Len(s) + 1
         /\ \A i \in 1..Len(s) : (s \o <<e>>)[i] = s[i]
         /\ (s \o <<e>>)[Len(s) + 1] = e
BY AppendIsConcat, AppendProperties

-----------------------------------------------------------------------------
(* Type correctness and the launcher's bookkeeping                         *)

\* The initial state is well typed.
LEMMA InitTypeInv == Init => TypeInv
<1> SUFFICES ASSUME Init PROVE TypeInv
  OBVIOUS
<1>1. containers \in Seq(0..(MAX_PROCESS - 1) \cup {-1}) /\ Len(containers) = 0
  BY EmptySeq DEF Init
<1> QED
  BY <1>1, LimitAssumption DEF Init, TypeInv, TypeOK, Counted, Recorded, Ids, Launcher

\* A step of containers that exist leaves the launcher's records true.
LEMMA RecordsKept ==
  ASSUME TypeOK, Counted, Recorded, UNCHANGED launcherVars,
         \A j \in Ids : cpc'[j] = "none" <=> cpc[j] = "none"
  PROVE  Recorded'
<1>1. Len(containers) \in Nat /\ \A i \in 1..Len(containers) : i - 1 \in Ids
  BY LenProperties, LimitAssumption DEF TypeOK, Counted, Ids
<1>2. ppc \in {"add", "move", "close", "push"} => containerId - 1 \in Ids
  BY <1>1, LimitAssumption DEF TypeOK, Counted, Ids
<1> QED
  BY <1>1, <1>2 DEF launcherVars, Recorded

\* Every step keeps the state well typed and the vector in step with the
\* containers that were started.
LEMMA NextTypeInv == TypeInv /\ [Next]_vars => TypeInv'
<1> SUFFICES ASSUME TypeInv, [Next]_vars PROVE TypeInv'
  OBVIOUS
<1> USE LimitAssumption DEF launcherVars, childVars, worldVars
<1>n. TypeOK /\ Counted /\ Recorded /\ Len(containers) \in Nat
  BY LenProperties DEF TypeInv, TypeOK
<1>line. ASSUME GetLine PROVE TypeInv'
  <2>1. TypeOK'
    BY <1>line, <1>n DEF GetLine, Goto, Live, TypeOK, Counted, Recorded, Ids, Launcher
  <2>2. Counted'
    BY <1>line, <1>n DEF GetLine, Goto, TypeOK, Counted, Recorded, Ids, Launcher
  <2>3. Recorded'
    BY <1>line, <1>n DEF GetLine, Goto, Live, TypeOK, Counted, Recorded, Ids, Launcher
  <2> QED
    BY <2>1, <2>2, <2>3 DEF TypeInv
<1>copy. ASSUME NEW ok \in BOOLEAN, Copy(ok) PROVE TypeInv'
  <2>1. TypeOK'
    BY <1>copy, <1>n DEF Copy, Goto, Live, TypeOK, Counted, Recorded, Ids, Launcher
  <2>2. Counted'
    BY <1>copy, <1>n DEF Copy, Goto, TypeOK, Counted, Recorded, Ids, Launcher
  <2>3. Recorded'
    BY <1>copy, <1>n DEF Copy, Goto, Live, TypeOK, Counted, Recorded, Ids, Launcher
  <2> QED
    BY <2>1, <2>2, <2>3 DEF TypeInv
<1>clone. ASSUME Clone PROVE TypeInv'
  <2>1. TypeOK'
    BY <1>clone, <1>n DEF Clone, Goto, Live, TypeOK, Counted, Recorded, Ids, Launcher
  <2>2. Counted'
    BY <1>clone, <1>n DEF Clone, Goto, TypeOK, Counted, Recorded, Ids, Launcher
  <2>3. Recorded'
    BY <1>clone, <1>n DEF Clone, Goto, Live, TypeOK, Counted, Recorded, Ids, Launcher
  <2> QED
    BY <2>1, <2>2, <2>3 DEF TypeInv
<1>fails. ASSUME CloneFails PROVE TypeInv'
  <2>1. TypeOK'
    BY <1>fails, <1>n DEF CloneFails, Goto, Live, TypeOK, Counted, Recorded, Ids, Launcher
  <2>2. Counted'
    BY <1>fails, <1>n DEF CloneFails, Goto, TypeOK, Counted, Recorded, Ids, Launcher
  <2>3. Recorded'
    BY <1>fails, <1>n DEF CloneFails, Goto, Live, TypeOK, Counted, Recorded, Ids, Launcher
  <2> QED
    BY <2>1, <2>2, <2>3 DEF TypeInv
<1>add. ASSUME LinkAdd PROVE TypeInv'
  <2>1. TypeOK'
    BY <1>add, <1>n DEF LinkAdd, Goto, Live, TypeOK, Counted, Recorded, Ids, Launcher
  <2>2. Counted'
    BY <1>add, <1>n DEF LinkAdd, Goto, TypeOK, Counted, Recorded, Ids, Launcher
  <2>3. Recorded'
    BY <1>add, <1>n DEF LinkAdd, Goto, Live, TypeOK, Counted, Recorded, Ids, Launcher
  <2> QED
    BY <2>1, <2>2, <2>3 DEF TypeInv
<1>move. ASSUME LinkMove PROVE TypeInv'
  <2>1. TypeOK'
    BY <1>move, <1>n DEF LinkMove, Goto, Live, TypeOK, Counted, Recorded, Ids, Launcher
  <2>2. Counted'
    BY <1>move, <1>n DEF LinkMove, Goto, TypeOK, Counted, Recorded, Ids, Launcher
  <2>3. Recorded'
    BY <1>move, <1>n DEF LinkMove, Goto, Live, TypeOK, Counted, Recorded, Ids, Launcher
  <2> QED
    BY <2>1, <2>2, <2>3 DEF TypeInv
<1>close. ASSUME CloseCheckpoint("close", "push") PROVE TypeInv'
  <2>1. TypeOK'
    BY <1>close, <1>n DEF CloseCheckpoint, Goto, Live, TypeOK, Counted, Recorded, Ids, Launcher
  <2>2. Counted'
    BY <1>close, <1>n DEF CloseCheckpoint, Goto, TypeOK, Counted, Recorded, Ids, Launcher
  <2>3. Recorded'
    BY <1>close, <1>n DEF CloseCheckpoint, Goto, Live, TypeOK, Counted, Recorded, Ids, Launcher
  <2> QED
    BY <2>1, <2>2, <2>3 DEF TypeInv
<1>push. ASSUME Push("push", "prompt", <<child_pid>>) PROVE TypeInv'
  <2> DEFINE Pids == 0..(MAX_PROCESS - 1) \cup {-1}
  <2>1. containers \in Seq(Pids) /\ child_pid \in Pids
    BY <1>n DEF TypeOK
  <2> HIDE DEF Pids
  <2>2. /\ containers' \in Seq(Pids) /\ Len(containers') = Len(containers) + 1
        /\ \A i \in 1..Len(containers) : containers'[i] = containers[i]
        /\ containers'[Len(containers) + 1] = child_pid
    BY <1>push, <2>1, Pushed DEF Push
  <2>3. TypeOK'
    BY <1>push, <1>n, <2>2 DEF Push, Goto, Pids, TypeOK, Ids, Launcher
  <2>4. Counted'
    BY <1>push, <1>n, <2>2 DEF Push, Goto, TypeOK, Counted, Ids
  <2>5. Recorded'
    <3>1. \A i \in 1..Len(containers') :
            containers'[i] = i - 1 \/ (containers'[i] = -1 /\ cpc'[i - 1] = "none")
      BY <1>push, <1>n, <2>2 DEF Push, Goto, Counted, Recorded
    <3> QED
      BY <1>push, <1>n, <3>1 DEF Push, Goto, Recorded, Ids
  <2> QED
    BY <2>3, <2>4, <2>5 DEF TypeInv
<1>interrupt. ASSUME Interrupt PROVE TypeInv'
  <2>1. TypeOK'
    BY <1>interrupt, <1>n DEF Interrupt, Live, TypeOK, Counted, Recorded, Ids, Launcher
  <2>2. Counted'
    BY <1>interrupt, <1>n DEF Interrupt, TypeOK, Counted, Recorded, Ids, Launcher
  <2>3. Recorded'
    BY <1>interrupt, <1>n DEF Interrupt, Live, TypeOK, Counted, Recorded, Ids, Launcher
  <2> QED
    BY <2>1, <2>2, <2>3 DEF TypeInv
<1>wait. ASSUME Wait PROVE TypeInv'
  <2>1. TypeOK'
    BY <1>wait, <1>n
       DEF Wait, Goto, Awaited, NoChild, Live, TypeOK, Counted, Recorded, Ids, Launcher
  <2>2. Counted'
    BY <1>wait, <1>n DEF Wait, Goto, Awaited, NoChild, TypeOK, Counted, Recorded, Ids, Launcher
  <2>3. Recorded'
    BY <1>wait, <1>n
       DEF Wait, Goto, Awaited, NoChild, Live, TypeOK, Counted, Recorded, Ids, Launcher
  <2> QED
    BY <2>1, <2>2, <2>3 DEF TypeInv
<1>remove. ASSUME Remove PROVE TypeInv'
  <2>1. TypeOK'
    BY <1>remove, <1>n DEF Remove, Goto, Live, TypeOK, Counted, Recorded, Ids, Launcher
  <2>2. Counted'
    BY <1>remove, <1>n DEF Remove, Goto, TypeOK, Counted, Recorded, Ids, Launcher
  <2>3. Recorded'
    BY <1>remove, <1>n DEF Remove, Goto, Live, TypeOK, Counted, Recorded, Ids, Launcher
  <2> QED
    BY <2>1, <2>2, <2>3 DEF TypeInv
<1>exit. ASSUME Exit PROVE TypeInv'
  <2>1. TypeOK'
    BY <1>exit, <1>n DEF Exit, Goto, Live, TypeOK, Counted, Recorded, Ids, Launcher
  <2>2. Counted'
    BY <1>exit, <1>n DEF Exit, Goto, TypeOK, Counted, Recorded, Ids, Launcher
  <2>3. Recorded'
    BY <1>exit, <1>n DEF Exit, Goto, Live, TypeOK, Counted, Recorded, Ids, Launcher
  <2> QED
    BY <2>1, <2>2, <2>3 DEF TypeInv
<1>pivot. ASSUME NEW k \in Ids, Pivot(k) PROVE TypeInv'
  <2>1. TypeOK'
    BY <1>pivot, <1>n DEF Pivot, Live, TypeOK, Counted, Recorded, Ids, Launcher
  <2>2. Counted'
    BY <1>pivot, <1>n DEF Pivot, TypeOK, Counted, Recorded, Ids, Launcher
  <2>3. \A j \in Ids : cpc'[j] = "none" <=> cpc[j] = "none"
    BY <1>pivot, <1>n DEF Pivot, Live, TypeOK
  <2>4. Recorded'
    BY <1>pivot, <1>n, <2>3, RecordsKept DEF Pivot
  <2> QED
    BY <2>1, <2>2, <2>4 DEF TypeInv
<1>pipe. ASSUME NEW k \in Ids, Checkpoint(k) PROVE TypeInv'
  <2>1. TypeOK'
    BY <1>pipe, <1>n DEF Checkpoint, Live, TypeOK, Counted, Recorded, Ids, Launcher
  <2>2. Counted'
    BY <1>pipe, <1>n DEF Checkpoint, TypeOK, Counted, Recorded, Ids, Launcher
  <2>3. \A j \in Ids : cpc'[j] = "none" <=> cpc[j] = "none"
    BY <1>pipe, <1>n DEF Checkpoint, Live, TypeOK
  <2>4. Recorded'
    BY <1>pipe, <1>n, <2>3, RecordsKept DEF Checkpoint
  <2> QED
    BY <2>1, <2>2, <2>4 DEF TypeInv
<1>configure. ASSUME NEW k \in Ids, Configure(k) PROVE TypeInv'
  <2>1. TypeOK'
    BY <1>configure, <1>n DEF Configure, Live, TypeOK, Counted, Recorded, Ids, Launcher
  <2>2. Counted'
    BY <1>configure, <1>n DEF Configure, TypeOK, Counted, Recorded, Ids, Launcher
  <2>3. \A j \in Ids : cpc'[j] = "none" <=> cpc[j] = "none"
    BY <1>configure, <1>n DEF Configure, Live, TypeOK
  <2>4. Recorded'
    BY <1>configure, <1>n, <2>3, RecordsKept DEF Configure
  <2> QED
    BY <2>1, <2>2, <2>4 DEF TypeInv
<1>ends. ASSUME NEW k \in Ids, CommandEnds(k) PROVE TypeInv'
  <2>1. TypeOK'
    BY <1>ends, <1>n DEF CommandEnds, Ends, Live, TypeOK, Counted, Recorded, Ids, Launcher
  <2>2. Counted'
    BY <1>ends, <1>n DEF CommandEnds, Ends, TypeOK, Counted, Recorded, Ids, Launcher
  <2>3. \A j \in Ids : cpc'[j] = "none" <=> cpc[j] = "none"
    BY <1>ends, <1>n DEF CommandEnds, Ends, Live, TypeOK
  <2>4. Recorded'
    BY <1>ends, <1>n, <2>3, RecordsKept DEF CommandEnds, Ends
  <2> QED
    BY <2>1, <2>2, <2>4 DEF TypeInv
<1>struck. ASSUME NEW k \in Ids, Struck(k) PROVE TypeInv'
  <2>1. TypeOK'
    BY <1>struck, <1>n DEF Struck, Ends, Live, TypeOK, Counted, Recorded, Ids, Launcher
  <2>2. Counted'
    BY <1>struck, <1>n DEF Struck, Ends, TypeOK, Counted, Recorded, Ids, Launcher
  <2>3. \A j \in Ids : cpc'[j] = "none" <=> cpc[j] = "none"
    BY <1>struck, <1>n DEF Struck, Ends, Live, TypeOK
  <2>4. Recorded'
    BY <1>struck, <1>n, <2>3, RecordsKept DEF Struck, Ends
  <2> QED
    BY <2>1, <2>2, <2>4 DEF TypeInv
<1>stutter. ASSUME UNCHANGED vars PROVE TypeInv'
  BY <1>stutter DEF vars, TypeInv, TypeOK, Counted, Recorded, Ids, Launcher
<1> QED
  BY <1>line, <1>copy, <1>clone, <1>fails, <1>add, <1>move, <1>close, <1>push, <1>interrupt,
     <1>wait, <1>remove, <1>exit, <1>pivot, <1>pipe, <1>configure, <1>ends, <1>struck,
     <1>stutter, StepCases

\* Type correctness for every limit: never more than MAX_PROCESS containers.
THEOREM TypeCorrect == Spec => []TypeOK
<1>1. TypeInv => TypeOK
  BY DEF TypeInv
<1> QED
  BY <1>1, InitTypeInv, NextTypeInv, PTL DEF Spec

-----------------------------------------------------------------------------
(* handleSigint                                                            *)

\* Every step keeps the containers before handleSigint's index dead and their
\* directories gone.
LEMMA NextReaped ==
  ASSUME TypeInv, Reaped, [Next]_vars
  PROVE  Reaped'
<1> USE LimitAssumption, NullAssumption DEF launcherVars, childVars, worldVars
<1>n. TypeOK /\ Counted /\ Recorded /\ Len(containers) \in Nat
  BY LenProperties DEF TypeInv, TypeOK
<1>line. ASSUME GetLine PROVE Reaped'
  BY <1>line, <1>n
     DEF GetLine, Goto, Reaped, Handling, Live, TypeOK, Counted, Recorded, Ids, Launcher
<1>copy. ASSUME NEW ok \in BOOLEAN, Copy(ok) PROVE Reaped'
  BY <1>copy, <1>n DEF Copy, Goto, Reaped, Handling, Live, TypeOK, Counted, Recorded, Ids, Launcher
<1>clone. ASSUME Clone PROVE Reaped'
  BY <1>clone, <1>n
     DEF Clone, Goto, Reaped, Handling, Live, TypeOK, Counted, Recorded, Ids, Launcher
<1>fails. ASSUME CloneFails PROVE Reaped'
  BY <1>fails, <1>n
     DEF CloneFails, Goto, Reaped, Handling, Live, TypeOK, Counted, Recorded, Ids, Launcher
<1>add. ASSUME LinkAdd PROVE Reaped'
  BY <1>add, <1>n
     DEF LinkAdd, Goto, Reaped, Handling, Live, TypeOK, Counted, Recorded, Ids, Launcher
<1>move. ASSUME LinkMove PROVE Reaped'
  BY <1>move, <1>n
     DEF LinkMove, Goto, Reaped, Handling, Live, TypeOK, Counted, Recorded, Ids, Launcher
<1>close. ASSUME CloseCheckpoint("close", "push") PROVE Reaped'
  BY <1>close, <1>n
     DEF CloseCheckpoint, Goto, Reaped, Handling, Live, TypeOK, Counted, Recorded, Ids, Launcher
<1>push. ASSUME Push("push", "prompt", <<child_pid>>) PROVE Reaped'
  BY <1>push, <1>n DEF Push, Goto, Reaped, Handling, Live, TypeOK, Counted, Recorded, Ids, Launcher
<1>interrupt. ASSUME Interrupt PROVE Reaped'
  BY <1>interrupt, <1>n
     DEF Interrupt, Reaped, Handling, Live, TypeOK, Counted, Recorded, Ids, Launcher
<1>wait. ASSUME Wait PROVE Reaped'
  <2>1. /\ ppc = "reap" /\ ppc' = "remove" /\ at < Len(containers)
        /\ at' = at /\ dirs' = dirs /\ containers' = containers
    BY <1>wait DEF Wait, Goto
  <2>2. at + 1 \in 1..Len(containers) /\ at \in Ids
    BY <1>n, <2>1 DEF TypeOK, Counted, Ids
  <2>3. \A j \in Ids : ~Live(j) => ~Live(j)'
    BY <1>wait, <1>n DEF Wait, Awaited, Live, TypeOK
  <2>4. ~Live(at)'
    <3>1. CASE containers[at + 1] = -1 /\ cpc[at] = "none"
      BY <2>1, <2>2, <2>3, <3>1 DEF Live
    <3>2. CASE containers[at + 1] = at
      BY <1>wait, <1>n, <2>1, <2>2, <3>2 DEF Wait, Awaited, NoChild, Live, TypeOK, Ids
    <3> QED
      BY <1>n, <2>2, <3>1, <3>2 DEF Recorded, TypeOK
  <2> QED
    BY <2>1, <2>3, <2>4 DEF Reaped, Handling
<1>remove. ASSUME Remove PROVE Reaped'
  <2>1. /\ ppc = "remove" /\ ppc' = "reap" /\ cpc' = cpc
        /\ at' = at + 1 /\ dirs' = dirs \ {at}
    BY <1>remove DEF Remove, Goto
  <2>2. \A k \in Ids : k < at + 1 => k < at \/ k = at
    BY <1>n DEF TypeOK, Ids
  <2> QED
    BY <2>1, <2>2 DEF Reaped, Handling, Live
<1>exit. ASSUME Exit PROVE Reaped'
  BY <1>exit, <1>n DEF Exit, Goto, Reaped, Handling, Live, TypeOK, Counted, Recorded, Ids, Launcher
<1>pivot. ASSUME NEW k \in Ids, Pivot(k) PROVE Reaped'
  BY <1>pivot, <1>n DEF Pivot, Reaped, Handling, Live, TypeOK, Counted, Recorded, Ids, Launcher
<1>pipe. ASSUME NEW k \in Ids, Checkpoint(k) PROVE Reaped'
  BY <1>pipe, <1>n DEF Checkpoint, Reaped, Handling, Live, TypeOK, Counted, Recorded, Ids, Launcher
<1>configure. ASSUME NEW k \in Ids, Configure(k) PROVE Reaped'
  BY <1>configure, <1>n
     DEF Configure, Reaped, Handling, Live, TypeOK, Counted, Recorded, Ids, Launcher
<1>ends. ASSUME NEW k \in Ids, CommandEnds(k) PROVE Reaped'
  BY <1>ends, <1>n
     DEF CommandEnds, Ends, Reaped, Handling, Live, TypeOK, Counted, Recorded, Ids, Launcher
<1>struck. ASSUME NEW k \in Ids, Struck(k) PROVE Reaped'
  BY <1>struck, <1>n
     DEF Struck, Ends, Reaped, Handling, Live, TypeOK, Counted, Recorded, Ids, Launcher
<1>stutter. ASSUME UNCHANGED vars PROVE Reaped'
  BY <1>stutter DEF vars, Reaped, Handling, Live, TypeOK, Counted, Recorded, Ids, Launcher
<1> QED
  BY <1>line, <1>copy, <1>clone, <1>fails, <1>add, <1>move, <1>close, <1>push, <1>interrupt,
     <1>wait, <1>remove, <1>exit, <1>pivot, <1>pipe, <1>configure, <1>ends, <1>struck,
     <1>stutter, StepCases

-----------------------------------------------------------------------------
(* The containers' directories                                             *)

\* Every step keeps the reason for a missing directory.
LEMMA NextRooted ==
  ASSUME TypeInv, Reaped, Rooted, [Next]_vars
  PROVE  Rooted'
<1> USE LimitAssumption, NullAssumption DEF launcherVars, childVars, worldVars
<1>n. TypeOK /\ Counted /\ Recorded /\ Len(containers) \in Nat
  BY LenProperties DEF TypeInv, TypeOK
<1>line. ASSUME GetLine PROVE Rooted'
  BY <1>line, <1>n
     DEF GetLine, Goto, Rooted, Excused, Live, TypeOK, Counted, Recorded, Ids, Launcher
<1>copy. ASSUME NEW ok \in BOOLEAN, Copy(ok) PROVE Rooted'
  <2>1. /\ ppc' = "clone" /\ containerId' = containerId + 1 /\ containerId' - 1 = containerId
        /\ UNCHANGED <<cpc, root, struck>>
    BY <1>copy, <1>n DEF Copy, Goto, TypeOK
  <2>2. containerId \in dirs' \cup uncopied' /\ dirs \subseteq dirs' /\ uncopied \subseteq uncopied'
    BY <1>copy DEF Copy
  <2> QED
    BY <2>1, <2>2 DEF Rooted, Excused
<1>clone. ASSUME Clone PROVE Rooted'
  <2>1. /\ ppc = "clone" /\ ppc' = "add" /\ cpc' = [cpc EXCEPT ![containerId - 1] = "sleep"]
        /\ UNCHANGED <<root, dirs, uncopied, struck>>
    BY <1>clone DEF Clone, Goto
  <2> QED
    BY <1>n, <2>1 DEF Rooted, Excused, TypeOK
<1>fails. ASSUME CloneFails PROVE Rooted'
  BY <1>fails, <1>n
     DEF CloneFails, Goto, Rooted, Excused, Live, TypeOK, Counted, Recorded, Ids, Launcher
<1>add. ASSUME LinkAdd PROVE Rooted'
  BY <1>add, <1>n DEF LinkAdd, Goto, Rooted, Excused, Live, TypeOK, Counted, Recorded, Ids, Launcher
<1>move. ASSUME LinkMove PROVE Rooted'
  BY <1>move, <1>n
     DEF LinkMove, Goto, Rooted, Excused, Live, TypeOK, Counted, Recorded, Ids, Launcher
<1>close. ASSUME CloseCheckpoint("close", "push") PROVE Rooted'
  BY <1>close, <1>n
     DEF CloseCheckpoint, Goto, Rooted, Excused, Live, TypeOK, Counted, Recorded, Ids, Launcher
<1>push. ASSUME Push("push", "prompt", <<child_pid>>) PROVE Rooted'
  BY <1>push, <1>n DEF Push, Goto, Rooted, Excused, Live, TypeOK, Counted, Recorded, Ids, Launcher
<1>interrupt. ASSUME Interrupt PROVE Rooted'
  BY <1>interrupt, <1>n
     DEF Interrupt, Rooted, Excused, Live, TypeOK, Counted, Recorded, Ids, Launcher
<1>wait. ASSUME Wait PROVE Rooted'
  BY <1>wait, <1>n
     DEF Wait, Goto, Awaited, NoChild, Rooted, Excused, Live, TypeOK, Counted, Recorded, Ids,
         Launcher
<1>remove. ASSUME Remove PROVE Rooted'
  <2>1. /\ ppc = "remove" /\ ppc' = "reap" /\ dirs' = dirs \ {at} /\ ~Live(at)
        /\ UNCHANGED <<cpc, root, struck, uncopied>>
    BY <1>remove DEF Remove, Goto, Reaped
  <2> QED
    BY <2>1 DEF Rooted, Excused, Live
<1>exit. ASSUME Exit PROVE Rooted'
  BY <1>exit, <1>n DEF Exit, Goto, Rooted, Excused, Live, TypeOK, Counted, Recorded, Ids, Launcher
<1>pivot. ASSUME NEW k \in Ids, Pivot(k) PROVE Rooted'
  BY <1>pivot, <1>n DEF Pivot, Rooted, Excused, Live, TypeOK, Counted, Recorded, Ids, Launcher
<1>pipe. ASSUME NEW k \in Ids, Checkpoint(k) PROVE Rooted'
  BY <1>pipe, <1>n DEF Checkpoint, Rooted, Excused, Live, TypeOK, Counted, Recorded, Ids, Launcher
<1>configure. ASSUME NEW k \in Ids, Configure(k) PROVE Rooted'
  BY <1>configure, <1>n
     DEF Configure, Rooted, Excused, Live, TypeOK, Counted, Recorded, Ids, Launcher
<1>ends. ASSUME NEW k \in Ids, CommandEnds(k) PROVE Rooted'
  BY <1>ends, <1>n
     DEF CommandEnds, Ends, Rooted, Excused, Live, TypeOK, Counted, Recorded, Ids, Launcher
<1>struck. ASSUME NEW k \in Ids, Struck(k) PROVE Rooted'
  <2>1. /\ cpc[k] # "none" /\ struck' = struck \cup {k} /\ uncopied' = uncopied /\ root' = root
        /\ dirs \ dirs' \subseteq 0..(k - 1) /\ dirs' \subseteq dirs
        /\ ppc' = ppc /\ containerId' = containerId
    BY <1>struck DEF Struck, Ends, Live
  <2>2. \A j \in Ids : Excused(j) => Excused(j)'
    BY <2>1 DEF Excused
  <2>3. \A j \in Ids : j \in dirs => j \in dirs' \/ Excused(j)'
    BY <2>1 DEF Excused, Ids
  <2>4. ppc = "clone" => containerId - 1 \notin 0..(k - 1)
    BY <1>n, <2>1 DEF Recorded, TypeOK, Ids
  <2>5. \A j \in Ids : cpc'[j] = cpc[j] \/ cpc'[j] = "ended"
    BY <1>struck, <1>n DEF Struck, Ends, TypeOK
  <2>6. Rooted!1'
    BY <2>1, <2>4 DEF Rooted
  <2> QED
    BY <2>1, <2>2, <2>3, <2>5, <2>6 DEF Rooted
<1>stutter. ASSUME UNCHANGED vars PROVE Rooted'
  BY <1>stutter DEF vars, Rooted, Excused, Live, TypeOK, Counted, Recorded, Ids, Launcher
<1> QED
  BY <1>line, <1>copy, <1>clone, <1>fails, <1>add, <1>move, <1>close, <1>push, <1>interrupt,
     <1>wait, <1>remove, <1>exit, <1>pivot, <1>pipe, <1>configure, <1>ends, <1>struck,
     <1>stutter, StepCases

-----------------------------------------------------------------------------
(* The pipe and the network                                                *)

\* Every step keeps the first container behind the pipe until veth1 is its own.
LEMMA NextNetworked ==
  ASSUME TypeInv, Networked, [Next]_vars
  PROVE  Networked'
<1> USE LimitAssumption, NullAssumption DEF launcherVars, childVars, worldVars
<1>n. TypeOK /\ Counted /\ Recorded /\ Len(containers) \in Nat
  BY LenProperties DEF TypeInv, TypeOK
<1>line. ASSUME GetLine PROVE Networked'
  BY <1>line, <1>n
     DEF GetLine, Goto, Networked, Linked, Handling, Live, TypeOK, Counted, Recorded, Ids, Launcher
<1>copy. ASSUME NEW ok \in BOOLEAN, Copy(ok) PROVE Networked'
  BY <1>copy, <1>n
     DEF Copy, Goto, Networked, Linked, Handling, Live, TypeOK, Counted, Recorded, Ids, Launcher
<1>clone. ASSUME Clone PROVE Networked'
  BY <1>clone, <1>n
     DEF Clone, Goto, Networked, Linked, Handling, Live, TypeOK, Counted, Recorded, Ids, Launcher
<1>fails. ASSUME CloneFails PROVE Networked'
  BY <1>fails, <1>n
     DEF CloneFails, Goto, Networked, Linked, Handling, Live, TypeOK, Counted, Recorded, Ids,
         Launcher
<1>add. ASSUME LinkAdd PROVE Networked'
  BY <1>add, <1>n
     DEF LinkAdd, Goto, Networked, Linked, Handling, Live, TypeOK, Counted, Recorded, Ids, Launcher
<1>move. ASSUME LinkMove PROVE Networked'
  BY <1>move, <1>n
     DEF LinkMove, Goto, Networked, Linked, Handling, Live, TypeOK, Counted, Recorded, Ids, Launcher
<1>close. ASSUME CloseCheckpoint("close", "push") PROVE Networked'
  BY <1>close, <1>n
     DEF CloseCheckpoint, Goto, Networked, Linked, Handling, Live, TypeOK, Counted, Recorded, Ids,
         Launcher
<1>push. ASSUME Push("push", "prompt", <<child_pid>>) PROVE Networked'
  BY <1>push, <1>n
     DEF Push, Goto, Networked, Linked, Handling, Live, TypeOK, Counted, Recorded, Ids, Launcher
<1>interrupt. ASSUME Interrupt PROVE Networked'
  BY <1>interrupt, <1>n
     DEF Interrupt, Networked, Linked, Handling, Live, TypeOK, Counted, Recorded, Ids, Launcher
<1>wait. ASSUME Wait PROVE Networked'
  BY <1>wait, <1>n
     DEF Wait, Goto, Awaited, NoChild, Networked, Linked, Handling, Live, TypeOK, Counted,
         Recorded, Ids, Launcher
<1>remove. ASSUME Remove PROVE Networked'
  BY <1>remove, <1>n
     DEF Remove, Goto, Networked, Linked, Handling, Live, TypeOK, Counted, Recorded, Ids, Launcher
<1>exit. ASSUME Exit PROVE Networked'
  BY <1>exit, <1>n
     DEF Exit, Goto, Networked, Linked, Handling, Live, TypeOK, Counted, Recorded, Ids, Launcher
<1>pivot. ASSUME NEW k \in Ids, Pivot(k) PROVE Networked'
  BY <1>pivot, <1>n
     DEF Pivot, Networked, Linked, Handling, Live, TypeOK, Counted, Recorded, Ids, Launcher
<1>pipe. ASSUME NEW k \in Ids, Checkpoint(k) PROVE Networked'
  BY <1>pipe, <1>n
     DEF Checkpoint, Networked, Linked, Handling, Live, TypeOK, Counted, Recorded, Ids, Launcher
<1>configure. ASSUME NEW k \in Ids, Configure(k) PROVE Networked'
  BY <1>configure, <1>n
     DEF Configure, Networked, Linked, Handling, Live, TypeOK, Counted, Recorded, Ids, Launcher
<1>ends. ASSUME NEW k \in Ids, CommandEnds(k) PROVE Networked'
  BY <1>ends, <1>n
     DEF CommandEnds, Ends, Networked, Linked, Handling, Live, TypeOK, Counted, Recorded, Ids,
         Launcher
<1>struck. ASSUME NEW k \in Ids, Struck(k) PROVE Networked'
  BY <1>struck, <1>n
     DEF Struck, Ends, Networked, Linked, Handling, Live, TypeOK, Counted, Recorded, Ids, Launcher
<1>stutter. ASSUME UNCHANGED vars PROVE Networked'
  BY <1>stutter
     DEF vars, Networked, Linked, Handling, Live, TypeOK, Counted, Recorded, Ids, Launcher
<1> QED
  BY <1>line, <1>copy, <1>clone, <1>fails, <1>add, <1>move, <1>close, <1>push, <1>interrupt,
     <1>wait, <1>remove, <1>exit, <1>pivot, <1>pipe, <1>configure, <1>ends, <1>struck,
     <1>stutter, StepCases

-----------------------------------------------------------------------------
(* The theorems                                                            *)

\* The initial state satisfies the inductive invariant.
LEMMA InitIInv == Init => IInv
<1> SUFFICES ASSUME Init PROVE IInv
  OBVIOUS
<1>1. Reaped /\ Rooted
  BY LimitAssumption DEF Init, Reaped, Rooted, Handling, Live, Ids
<1>2. Networked
  BY LimitAssumption DEF Init, Networked, Linked, Live, Ids, Launcher
<1> QED
  BY <1>1, <1>2, InitTypeInv DEF IInv

\* Every step keeps the inductive invariant.
LEMMA NextIInv == IInv /\ [Next]_vars => IInv'
BY NextTypeInv, NextReaped, NextRooted, NextNetworked DEF IInv

\* The inductive invariant holds throughout.
THEOREM Invariance == Spec => []IInv
BY InitIInv, NextIInv, PTL DEF Spec

\* The checkpoint pipe does its work for the first container, whatever the order
\* of the two processes and however short the container's sleep(1) is: it runs
\* its command with an address.
THEOREM PipeHoldsFirstBack == Spec => []FirstHasAddress
<1>1. IInv => FirstHasAddress
  BY DEF IInv, Networked, FirstHasAddress
<1> QED
  BY <1>1, Invariance, PTL

\* handleSigint leaves nothing of a container it knows of: waitpid(-1) for an
\* entry whose clone() failed may reap a container of another entry, and still
\* every recorded container has ended and its directory is gone.
THEOREM NothingLeftBehind == Spec => []CleanExit
<1>1. IInv => CleanExit
  <2> SUFFICES ASSUME IInv PROVE CleanExit
    OBVIOUS
  <2>1. TypeOK /\ Counted /\ Reaped /\ Len(containers) \in Nat
    BY LenProperties DEF IInv, TypeInv, TypeOK
  <2> QED
    BY <2>1 DEF CleanExit, Counted, Reaped, Handling, TypeOK, Ids
<1> QED
  BY <1>1, Invariance, PTL

\* A container that runs on the host's root was never copied, or a SIGINT in a
\* later container removed its directory: nothing else takes it away in time.
THEOREM OwnRoot == Spec => []RootIsOwn
<1>1. IInv => RootIsOwn
  BY DEF IInv, Rooted, Excused, RootIsOwn
<1> QED
  BY <1>1, Invariance, PTL

\* rm -r never removes the root of a container that is still there.
THEOREM RemovesOnlyTheDead == Spec => NotUnderfoot
<1>1. IInv /\ [Next]_vars =>
        [ppc = "remove" /\ ppc' = "reap" => \A k \in dirs \ dirs' : ~Live(k)]_vars
  <2> SUFFICES ASSUME IInv, [Next]_vars, ppc = "remove", ppc' = "reap", NEW k \in dirs \ dirs'
               PROVE  ~Live(k)
    OBVIOUS
  <2>1. Remove
    BY StepCases
       DEF vars, launcherVars, GetLine, Copy, Clone, CloneFails, LinkAdd, LinkMove, CloseCheckpoint,
           Push, Interrupt, Handling, Wait, Exit, Goto, Pivot, Checkpoint, Configure, CommandEnds,
           Struck
  <2>2. dirs' = dirs \ {at}
    BY <2>1 DEF Remove
  <2>3. ~Live(at)
    BY DEF IInv, Reaped
  <2> QED
    BY <2>2, <2>3
<1> QED
  BY <1>1, Invariance, PTL DEF Spec, NotUnderfoot

=============================================================================
