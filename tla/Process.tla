------------------------------ MODULE Process -------------------------------
(***************************************************************************)
(* smd_proc.h: a program with one thread that creates, joins and destroys  *)
(* child processes.  What each process has open of a pipe is what counts:  *)
(* a child that reads its input to the end waits until every write end of  *)
(* it is closed, in whatever process that may be.                          *)
(***************************************************************************)
EXTENDS Integers

CONSTANTS Handles,      \* the program's struct process_s
          Pids, Parent,
          Platforms,    \* of which TRUE stands for POSIX, FALSE for Windows
          Programs,     \* what a child may be
          FlushesFirst, \* the program flushes its files before it creates a child
          MaxCreates, MaxWrites  \* bounds on calls of process_create, writes to a child

ASSUME ProcessesAssumption == Parent \notin Pids
ASSUME PlatformsAssumption == Platforms \subseteq BOOLEAN
\* A filter reads its input to the end and exits.  A writer writes more to stdout
\* or stderr than a pipe holds.  A missing program cannot be run.
ASSUME ProgramsAssumption == Programs \subseteq {"filter", "writer", "missing"}
ASSUME FlushesFirstAssumption == FlushesFirst \in BOOLEAN
ASSUME BoundsAssumption == MaxCreates \in Nat /\ MaxWrites \in Nat

VARIABLES posix,
          process,  \* the struct of each handle: the create it is from (0 for none), its
                    \* pid or hProcess, whether stdout and stderr are combined, whether
                    \* stdin_file is open; and whether the program has joined it
          at,       \* the parent: "idle", "forked" in process_create or "waiting" in
                    \* process_join
          current,  \* the handle of that call
          ends,     \* who has which end of a pipe: <<process, pipe, "r" or "w">>
          kids,     \* the processes the kernel knows
          buffer,   \* what the FILE before a pipe holds back
          arrived,  \* what came out of the write ends of a pipe
          full,     \* the pipes that hold all the output they can
          written,  \* history: what the program wrote into that FILE
          creates   \* history: the calls of process_create

vars == <<posix, process, at, current, ends, kids, buffer, arrived, full, written, creates>>

\* The pipes of the n-th call of process_create.
Streams == {"in", "out", "err"}
Pipes == (1..MaxCreates) \X Streams
In(n) == <<n, "in">>
Outputs(n, combined) == {<<n, "out">>, <<n, IF combined THEN "out" ELSE "err">>}

NoProcess == [no |-> 0, pid |-> Parent, combined |-> FALSE, stdin |-> FALSE, joined |-> FALSE]
NoCopy == [p \in Pipes |-> 0]
NoKid == [state |-> "none", program |-> "none", no |-> 0, combined |-> FALSE,
          on |-> "in", copy |-> NoCopy]

Init ==
  /\ posix \in Platforms
  /\ process = [h \in Handles |-> NoProcess]
  /\ at = "idle" /\ current \in Handles
  /\ ends = {} /\ kids = [k \in Pids |-> NoKid]
  /\ buffer = NoCopy /\ arrived = NoCopy /\ written = NoCopy
  /\ full = {} /\ creates = 0

Opened == {h \in Handles : process[h].no # 0}
Alive == {k \in Pids : kids[k].state \in {"forked", "running", "blocked"}}
Having(p, e) == {o \in Pids \cup {Parent} : <<o, p, e>> \in ends}
EndsOf(o) == {x \in ends : x[1] = o}

-----------------------------------------------------------------------------
(* process_create *)

\* The ends a new process is given: on POSIX what the parent has, on Windows what
\* SetHandleInformation has not taken out.
Inherited(x) == posix \/ (x[2][2] = "in") = (x[3] = "r")

New(o, streams) == {<<o, <<creates + 1, s>>, e>> : s \in streams, e \in {"r", "w"}}

MayCreate(h) ==
  /\ at = "idle" /\ h \notin Opened /\ creates < MaxCreates
  /\ FlushesFirst => buffer = NoCopy

\* Mutant: the result of fork is stored before it is looked at.
CreateFailsUnchecked(h, streams) ==
  /\ MayCreate(h)
  /\ ends' = ends \cup New(Parent, streams)
  /\ creates' = creates + 1
  /\ process' = [process EXCEPT ![h].pid = -1]
  /\ UNCHANGED <<posix, at, current, kids, buffer, arrived, full, written>>

\* A pipe or the new process fails; the pipes made before it stay open.
CreateFails(h, streams) ==
  /\ MayCreate(h)
  /\ ends' = ends \cup New(Parent, streams)
  /\ creates' = creates + 1
  /\ UNCHANGED <<posix, process, at, current, kids, buffer, arrived, full, written>>

\* fork, or CreateProcessA.
Forks(h, combined, program) ==
  /\ MayCreate(h)
  /\ posix \/ program # "missing"
  /\ creates' = creates + 1
  /\ \E k \in Pids :
       /\ kids[k].state = "none"
       /\ kids' = [kids EXCEPT ![k] =
            [state |-> IF posix THEN "forked" ELSE "running", program |-> program,
             no |-> creates + 1, combined |-> combined, on |-> "in",
             copy |-> IF posix THEN buffer ELSE NoCopy]]
       /\ process' = [process EXCEPT ![h] =
            [no |-> creates + 1, pid |-> k, combined |-> combined, stdin |-> TRUE,
             joined |-> FALSE]]
       /\ LET mine == EndsOf(Parent)
                        \cup New(Parent, IF combined THEN {"in", "out"} ELSE Streams)
          IN ends' = ends \cup mine
                       \cup {<<k, x[2], x[3]>> : x \in {y \in mine : Inherited(y)}}
  /\ at' = "forked" /\ current' = h
  /\ UNCHANGED <<posix, buffer, arrived, full, written>>

\* Mutant: the write ends of the output stay open.
ParentClosesInput(n, combined) == {<<Parent, In(n), "r">>}

\* The ends the parent closes after the fork; on Windows it closes none.
ParentCloses(n, combined) ==
  IF posix THEN {<<Parent, In(n), "r">>} \cup {<<Parent, p, "w">> : p \in Outputs(n, combined)}
           ELSE {}

CreateReturn ==
  /\ at = "forked" /\ at' = "idle"
  /\ ends' = ends \ ParentCloses(process[current].no, process[current].combined)
  /\ UNCHANGED <<posix, process, current, kids, buffer, arrived, full, written, creates>>

-----------------------------------------------------------------------------
(* The child: process_create after the fork, then the program it runs. *)

\* Mutant: the child keeps the write end of its stdin.
KidClosesOutput(k) == {<<k, p, "r">> : p \in Outputs(kids[k].no, kids[k].combined)}

KidCloses(k) ==
  {<<k, In(kids[k].no), "w">>} \cup {<<k, p, "r">> : p \in Outputs(kids[k].no, kids[k].combined)}

KidSide(k) ==
  /\ kids[k].state = "forked"
  /\ kids' = [kids EXCEPT ![k].state = "running"]
  /\ ends' = ends \ KidCloses(k)
  /\ UNCHANGED <<posix, process, at, current, buffer, arrived, full, written, creates>>

\* Windows keeps what it knows of a process as long as there is a handle to it.
Exit(k) ==
  /\ kids' = IF posix \/ \E h \in Opened : process[h].pid = k
             THEN [kids EXCEPT ![k].state = "zombie", ![k].copy = NoCopy]
             ELSE [kids EXCEPT ![k] = NoKid]
  /\ ends' = ends \ EndsOf(k)

\* exec failed: exit writes out what the child's copies of the FILEs held back.
ExecFails(k) ==
  /\ kids[k].state = "running" /\ kids[k].program = "missing"
  /\ Exit(k)
  /\ arrived' = [p \in Pipes |->
       IF <<k, p, "w">> \in ends /\ Having(p, "r") # {} THEN arrived[p] + kids[k].copy[p]
                                                        ELSE arrived[p]]
  /\ UNCHANGED <<posix, process, at, current, buffer, full, written, creates>>

KidFills(k) ==
  /\ kids[k].state = "running" /\ kids[k].program = "writer"
  /\ \E p \in Outputs(kids[k].no, kids[k].combined) :
       /\ p \notin full
       /\ full' = full \cup {p}
       /\ kids' = [kids EXCEPT ![k].state = "blocked", ![k].on = p[2]]
  /\ UNCHANGED <<posix, process, at, current, ends, buffer, arrived, written, creates>>

\* A filter at the end of its input; a writer that was read from, or that nobody
\* can read from any more.
KidExits(k) ==
  /\ \/ /\ kids[k].state = "running" /\ kids[k].program = "filter"
        /\ Having(In(kids[k].no), "w") = {}
     \/ /\ kids[k].state = "blocked"
        /\ \/ <<kids[k].no, kids[k].on>> \notin full
           \/ Having(<<kids[k].no, kids[k].on>>, "r") = {}
  /\ Exit(k)
  /\ UNCHANGED <<posix, process, at, current, buffer, arrived, full, written, creates>>

-----------------------------------------------------------------------------
(* The program: what it does with the files, process_join and process_destroy. *)

\* What is flushed reaches the pipe if anybody can read it.
Flushed(p) ==
  /\ arrived' = IF Having(p, "r") # {} THEN [arrived EXCEPT ![p] = @ + buffer[p]] ELSE arrived
  /\ buffer' = [buffer EXCEPT ![p] = 0]

Write(h) ==
  /\ at = "idle" /\ h \in Opened /\ process[h].stdin
  /\ written[In(process[h].no)] < MaxWrites
  /\ written' = [written EXCEPT ![In(process[h].no)] = @ + 1]
  /\ buffer' = [buffer EXCEPT ![In(process[h].no)] = @ + 1]
  /\ UNCHANGED <<posix, process, at, current, ends, kids, arrived, full, creates>>

Flush(h) ==
  /\ at = "idle" /\ h \in Opened /\ process[h].stdin /\ buffer[In(process[h].no)] > 0
  /\ Flushed(In(process[h].no))
  /\ UNCHANGED <<posix, process, at, current, ends, kids, full, written, creates>>

Read(h) ==
  /\ at = "idle" /\ h \in Opened
  /\ \E p \in Outputs(process[h].no, process[h].combined) \cap full : full' = full \ {p}
  /\ UNCHANGED <<posix, process, at, current, ends, kids, buffer, arrived, written, creates>>

\* Mutant: the descriptor is closed without the FILE.
CloseStdinUnflushed(h) ==
  /\ ends' = ends \ {<<Parent, In(process[h].no), "w">>}
  /\ buffer' = [buffer EXCEPT ![In(process[h].no)] = 0]
  /\ UNCHANGED arrived

CloseStdin(h) ==
  IF process[h].stdin
  THEN /\ Flushed(In(process[h].no))
       /\ ends' = ends \ {<<Parent, In(process[h].no), "w">>}
  ELSE UNCHANGED <<ends, buffer, arrived>>

JoinCall(h) ==
  /\ at = "idle" /\ h \in Opened /\ ~process[h].joined
  /\ CloseStdin(h)
  /\ process' = [process EXCEPT ![h].stdin = FALSE]
  /\ at' = "waiting" /\ current' = h
  /\ UNCHANGED <<posix, kids, full, written, creates>>

\* Mutant: any child that has exited will do.
AwaitedAny(k) == kids[k].state = "zombie"

Awaited(k) == k = process[current].pid /\ kids[k].state = "zombie"

\* waitpid reaps the child, WaitForSingleObject does not.
JoinReturn ==
  /\ at = "waiting" /\ at' = "idle"
  /\ \E k \in Pids :
       /\ Awaited(k)
       /\ kids' = IF posix THEN [kids EXCEPT ![k] = NoKid] ELSE kids
  /\ process' = [process EXCEPT ![current].joined = TRUE]
  /\ UNCHANGED <<posix, current, ends, buffer, arrived, full, written, creates>>

Destroy(h) ==
  /\ at = "idle" /\ h \in Opened
  /\ \E k \in Pids :
       /\ k = process[h].pid
       /\ kids' = IF ~posix /\ kids[k].state = "zombie" THEN [kids EXCEPT ![k] = NoKid] ELSE kids
  /\ IF process[h].stdin
     THEN Flushed(In(process[h].no)) ELSE UNCHANGED <<buffer, arrived>>
  /\ ends' = ends \ ({<<Parent, p, "r">> : p \in Outputs(process[h].no, process[h].combined)}
                       \cup {<<Parent, In(process[h].no), "w">>})
  /\ process' = [process EXCEPT ![h] = NoProcess]
  /\ UNCHANGED <<posix, at, current, full, written, creates>>

-----------------------------------------------------------------------------

\* The pipes made by the time a create fails.
Made == {{}, {"in"}, {"in", "out"}, Streams}

KidStep(k) == KidSide(k) \/ ExecFails(k) \/ KidFills(k) \/ KidExits(k)

Call ==
  \E h \in Handles :
    \/ \E made \in Made : CreateFails(h, made)
    \/ \E combined \in BOOLEAN, program \in Programs : Forks(h, combined, program)
    \/ Write(h) \/ Flush(h) \/ Read(h) \/ JoinCall(h) \/ Destroy(h)

Next == Call \/ CreateReturn \/ JoinReturn \/ \E k \in Pids : KidStep(k)

Spec == Init /\ [][Next]_vars

\* The program runs in the end, and so does every child that can.
FairSpec ==
  /\ Spec
  /\ WF_vars(CreateReturn) /\ WF_vars(JoinReturn)
  /\ \A k \in Pids : WF_vars(KidStep(k))

-----------------------------------------------------------------------------

Processes == [no : 0..MaxCreates, pid : Pids \cup {Parent}, combined : BOOLEAN,
              stdin : BOOLEAN, joined : BOOLEAN]
Kids == [state : {"none", "forked", "running", "blocked", "zombie"},
         program : Programs \cup {"none"}, no : 0..MaxCreates, combined : BOOLEAN,
         on : Streams, copy : [Pipes -> Nat]]
Ends == (Pids \cup {Parent}) \X Pipes \X {"r", "w"}

TypeOK ==
  /\ posix \in BOOLEAN /\ at \in {"idle", "forked", "waiting"} /\ current \in Handles
  /\ process \in [Handles -> Processes] /\ kids \in [Pids -> Kids] /\ ends \subseteq Ends
  /\ buffer \in [Pipes -> Nat] /\ arrived \in [Pipes -> Nat] /\ written \in [Pipes -> Nat]
  /\ full \subseteq Pipes /\ creates \in 0..MaxCreates

(***************************************************************************)
(* process_join's waitpid (493) is given a pid the system may give out     *)
(* again.  The pid of a handle that was not joined is its own child's,     *)
(* which nobody has reaped, so that no join waits for, or takes away, the  *)
(* child of another handle.                                                *)
(***************************************************************************)
HandlesOwnTheirChildren ==
  \A h \in Opened :
    ~process[h].joined => /\ process[h].pid \in Pids
                          /\ kids[process[h].pid].state # "none"
                          /\ kids[process[h].pid].no = process[h].no

(***************************************************************************)
(* "The file returned can be read from by the parent process to read data  *)
(* from the standard output of the child process" (183-184).  On POSIX the *)
(* parent and the children close what they do not use (387-438), so that   *)
(* once all children have exited such a file has an end.                   *)
(***************************************************************************)
OutputEnds ==
  posix /\ at # "forked" /\ Alive = {} =>
    \A h \in Opened : \A p \in Outputs(process[h].no, process[h].combined) :
      Having(p, "w") = {}

(***************************************************************************)
(* "The file returned can be written to by the parent process to feed data *)
(* to the standard input of the process" (174-175).  A child is fed what   *)
(* was written, once, and all of it by the time its input ends.            *)
(***************************************************************************)
InputIntact ==
  \A k \in Alive :
    LET p == In(kids[k].no) IN
    /\ arrived[p] <= written[p]
    /\ Having(p, "w") = {} => arrived[p] = written[p]

(***************************************************************************)
(* "Wait for a process to finish execution" (201).  process_join closes    *)
(* the child's input first (488-491).  A child that reads its input to the *)
(* end then exits and is joined, unless on POSIX a child created later is  *)
(* still there: that one has inherited the write end.                      *)
(***************************************************************************)
JoinReturns ==
  \A h \in Handles :
    LET awaited == process[h].pid
        Waiting == at = "waiting" /\ current = h
    IN Waiting /\ kids[awaited].program # "writer"
         /\ (posix => \A k \in Alive : kids[k].no <= process[h].no)
       ~> ~Waiting
=============================================================================
