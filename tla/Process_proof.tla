---------------------------- MODULE Process_proof ----------------------------
(* Theorems about Process, for any handles, pids, programs and platforms. *)
EXTENDS Process, TLAPS

\* A process the kernel knows is from some call of process_create.
KidsNumbered == \A k \in Pids : kids[k].state # "none" => kids[k].no # 0

TypeInv == TypeOK /\ KidsNumbered

\* The pipes of a create are pipes.
LEMMA PipesTyped ==
  ASSUME NEW n \in 1..MaxCreates, NEW c \in BOOLEAN
  PROVE  /\ In(n) \in Pipes /\ Outputs(n, c) \subseteq Pipes
         /\ \A p \in Outputs(n, c) : p[2] \in Streams
BY BoundsAssumption DEF In, Outputs, Pipes, Streams

\* The records a slot starts from are of their types.
LEMMA RecordsTyped ==
  /\ NoCopy \in [Pipes -> Nat]
  /\ NoProcess \in Processes
  /\ NoKid \in Kids
  /\ NoKid.state = "none"
BY BoundsAssumption DEF NoCopy, NoProcess, NoKid, Streams, Processes, Kids

\* The fields of the records, and the records made from them.
LEMMA KidFields ==
  ASSUME NEW r \in Kids
  PROVE  /\ r.no \in 0..MaxCreates /\ r.combined \in BOOLEAN /\ r.copy \in [Pipes -> Nat]
         /\ r.on \in Streams /\ r.program \in Programs \cup {"none"}
BY DEF Kids

\* What is made of the record of a child as it goes on, exits or fills a pipe is one.
LEMMA KidChanges ==
  ASSUME NEW r \in Kids
  PROVE  /\ [r EXCEPT !.state = "running"] \in Kids
         /\ [r EXCEPT !.state = "zombie", !.copy = NoCopy] \in Kids
         /\ \A s \in Streams : [r EXCEPT !.state = "blocked", !.on = s] \in Kids
BY RecordsTyped DEF Kids

\* It keeps the number of its create.
LEMMA KidKeeps ==
  ASSUME NEW r \in Kids, NEW s
  PROVE  /\ [r EXCEPT !.state = "running"].no = r.no
         /\ [r EXCEPT !.state = "running"].state = "running"
         /\ [r EXCEPT !.state = "zombie", !.copy = NoCopy].no = r.no
         /\ [r EXCEPT !.state = "zombie", !.copy = NoCopy].state = "zombie"
         /\ [r EXCEPT !.state = "blocked", !.on = s].no = r.no
         /\ [r EXCEPT !.state = "blocked", !.on = s].state = "blocked"
BY DEF Kids

\* The record fork makes for a child is one.
LEMMA KidMade ==
  ASSUME NEW n \in 0..MaxCreates, NEW c \in BOOLEAN, NEW program \in Programs,
         NEW copy \in [Pipes -> Nat], NEW s \in {"forked", "running"}
  PROVE  [state |-> s, program |-> program, no |-> n, combined |-> c, on |-> "in",
          copy |-> copy] \in Kids
BY DEF Kids, Streams

\* The fields of the struct of a handle.
LEMMA ProcessFields ==
  ASSUME NEW r \in Processes
  PROVE  r.no \in 0..MaxCreates /\ r.combined \in BOOLEAN /\ r.pid \in Pids \cup {Parent}
BY DEF Processes

\* What is made of it as its child is waited for is one.
LEMMA ProcessChanges ==
  ASSUME NEW r \in Processes
  PROVE  /\ [r EXCEPT !.stdin = FALSE] \in Processes
         /\ [r EXCEPT !.joined = TRUE] \in Processes
BY DEF Processes

\* It keeps its number and its pid.
LEMMA ProcessKeeps ==
  ASSUME NEW r \in Processes
  PROVE  /\ [r EXCEPT !.stdin = FALSE].no = r.no /\ [r EXCEPT !.stdin = FALSE].pid = r.pid
         /\ [r EXCEPT !.stdin = FALSE].joined = r.joined
         /\ [r EXCEPT !.joined = TRUE].no = r.no /\ [r EXCEPT !.joined = TRUE].pid = r.pid
         /\ [r EXCEPT !.joined = TRUE].joined
BY DEF Processes

\* The program starts with the types of TypeInv.
LEMMA TypeInvInit == Init => TypeInv
<1>1. Init => TypeOK
  BY RecordsTyped, PlatformsAssumption, BoundsAssumption DEF Init, TypeOK
<1>2. Init => KidsNumbered
  BY RecordsTyped DEF Init, KidsNumbered
<1>3. QED
  BY <1>1, <1>2 DEF TypeInv

\* A process that stays known keeps its number.
LEMMA NumberKept ==
  ASSUME TypeInv, NEW k \in Pids, NEW r, r.no # 0, kids' = [kids EXCEPT ![k] = r]
  PROVE  KidsNumbered'
BY DEF TypeInv, TypeOK, KidsNumbered

\* What a child does as it exits.
LEMMA ExitTyped ==
  ASSUME TypeInv, NEW k \in Pids, Exit(k), kids[k].state # "none"
  PROVE  /\ kids' \in [Pids -> Kids]
         /\ KidsNumbered'
         /\ ends' \subseteq Ends
<1>1. ends' \subseteq Ends
  BY DEF Exit, TypeInv, TypeOK
<1>2. CASE kids' = [kids EXCEPT ![k].state = "zombie", ![k].copy = NoCopy]
  <2>1. kids' = [kids EXCEPT ![k] = [kids[k] EXCEPT !.state = "zombie", !.copy = NoCopy]]
    BY <1>2
  <2>2. QED
    BY <1>1, <2>1, KidChanges, KidKeeps DEF TypeInv, TypeOK, KidsNumbered
<1>3. CASE kids' = [kids EXCEPT ![k] = NoKid]
  BY <1>1, <1>3, RecordsTyped DEF TypeInv, TypeOK, KidsNumbered
<1>4. QED
  BY <1>2, <1>3 DEF Exit

\* Flushing a file leaves the files and the pipes natural numbers of writes.
LEMMA FlushedTyped ==
  ASSUME TypeInv, NEW p \in Pipes, Flushed(p)
  PROVE  arrived' \in [Pipes -> Nat] /\ buffer' \in [Pipes -> Nat]
BY DEF Flushed, TypeInv, TypeOK

\* A step of a child keeps the types.
LEMMA KidStepTyped ==
  ASSUME TypeInv, NEW k \in Pids, KidStep(k)
  PROVE  TypeInv'
<1>1. CASE KidSide(k)
  <2>1. ends' \subseteq Ends
    BY <1>1 DEF KidSide, TypeInv, TypeOK
  <2>2. kids' = [kids EXCEPT ![k] = [kids[k] EXCEPT !.state = "running"]]
    BY <1>1 DEF KidSide
  <2>3. kids' \in [Pids -> Kids]
    BY <2>2, KidChanges DEF TypeInv, TypeOK
  <2>4. KidsNumbered'
    <3>1. kids[k].no # 0 /\ kids[k] \in Kids
      BY <1>1 DEF KidSide, TypeInv, TypeOK, KidsNumbered
    <3>2. [kids[k] EXCEPT !.state = "running"].no # 0
      BY <3>1, KidKeeps
    <3>3. QED
      BY <2>2, <3>2, NumberKept
  <2>5. QED
    BY <1>1, <2>1, <2>3, <2>4 DEF KidSide, TypeInv, TypeOK
<1>2. CASE ExecFails(k)
  <2>1. arrived' \in [Pipes -> Nat]
    BY <1>2, KidFields DEF ExecFails, TypeInv, TypeOK
  <2>2. QED
    BY <1>2, <2>1, ExitTyped DEF ExecFails, TypeInv, TypeOK
<1>3. CASE KidFills(k)
  <2>1. kids[k].no \in 1..MaxCreates /\ kids[k].combined \in BOOLEAN
    BY <1>3, KidFields, BoundsAssumption DEF KidFills, TypeInv, TypeOK, KidsNumbered
  <2>2. PICK p \in Outputs(kids[k].no, kids[k].combined) :
          /\ full' = full \cup {p}
          /\ kids' = [kids EXCEPT ![k].state = "blocked", ![k].on = p[2]]
    BY <1>3 DEF KidFills
  <2>3. p \in Pipes /\ p[2] \in Streams
    BY <2>1, PipesTyped
  <2>4. kids' \in [Pids -> Kids]
    BY <2>2, <2>3, KidChanges DEF TypeInv, TypeOK
  <2>5. KidsNumbered'
    <3>1. kids[k].no # 0 /\ kids[k] \in Kids
      BY <2>1 DEF TypeInv, TypeOK
    <3>2. kids' = [kids EXCEPT ![k] = [kids[k] EXCEPT !.state = "blocked", !.on = p[2]]]
      BY <2>2
    <3>3. [kids[k] EXCEPT !.state = "blocked", !.on = p[2]].no # 0
      BY <3>1, KidKeeps
    <3>4. QED
      BY <3>2, <3>3, NumberKept
  <2>6. QED
    BY <1>3, <2>2, <2>3, <2>4, <2>5 DEF KidFills, TypeInv, TypeOK
<1>4. CASE KidExits(k)
  BY <1>4, ExitTyped DEF KidExits, TypeInv, TypeOK
<1>5. QED
  BY <1>1, <1>2, <1>3, <1>4 DEF KidStep

\* So does a call of the program.
LEMMA CallTyped ==
  ASSUME TypeInv, Call
  PROVE  TypeInv'
<1>1. PICK h \in Handles :
        \/ \E made \in Made : CreateFails(h, made)
        \/ \E combined \in BOOLEAN, program \in Programs : Forks(h, combined, program)
        \/ Write(h) \/ Flush(h) \/ Read(h) \/ JoinCall(h) \/ Destroy(h)
  BY DEF Call
<1>2. h \in Opened => process[h].no \in 1..MaxCreates /\ In(process[h].no) \in Pipes
  BY PipesTyped, ProcessFields, BoundsAssumption DEF Opened, TypeInv, TypeOK
<1>3. ASSUME NEW made \in Made, CreateFails(h, made) PROVE TypeInv'
  <2>1. creates + 1 \in 1..MaxCreates /\ made \subseteq Streams
    BY <1>3, BoundsAssumption DEF CreateFails, MayCreate, TypeInv, TypeOK, Made, Streams
  <2>2. New(Parent, made) \subseteq Ends
    BY <2>1 DEF New, Pipes, Ends
  <2>3. QED
    BY <1>3, <2>1, <2>2 DEF CreateFails, TypeInv, TypeOK, KidsNumbered
<1>4. ASSUME NEW combined \in BOOLEAN, NEW program \in Programs, Forks(h, combined, program)
      PROVE  TypeInv'
  <2>1. creates + 1 \in 1..MaxCreates
    BY <1>4, BoundsAssumption DEF Forks, MayCreate, TypeInv, TypeOK
  <2>2. PICK k \in Pids :
          /\ kids' = [kids EXCEPT ![k] =
               [state |-> IF posix THEN "forked" ELSE "running", program |-> program,
                no |-> creates + 1, combined |-> combined, on |-> "in",
                copy |-> IF posix THEN buffer ELSE NoCopy]]
          /\ process' = [process EXCEPT ![h] =
               [no |-> creates + 1, pid |-> k, combined |-> combined, stdin |-> TRUE,
                joined |-> FALSE]]
          /\ LET mine == EndsOf(Parent)
                           \cup New(Parent, IF combined THEN {"in", "out"} ELSE Streams)
             IN ends' = ends \cup mine
                          \cup {<<k, x[2], x[3]>> : x \in {y \in mine : Inherited(y)}}
    BY <1>4 DEF Forks
  <2>3. ends' \subseteq Ends
    <3> DEFINE mine == EndsOf(Parent)
                         \cup New(Parent, IF combined THEN {"in", "out"} ELSE Streams)
    <3>1. mine \subseteq Ends
      <4>1. EndsOf(Parent) \subseteq Ends
        BY DEF EndsOf, TypeInv, TypeOK
      <4>2. \A s \in Streams : <<creates + 1, s>> \in Pipes
        BY <2>1 DEF Pipes
      <4>3. New(Parent, IF combined THEN {"in", "out"} ELSE Streams) \subseteq Ends
        BY <4>2 DEF New, Streams, Ends
      <4>4. QED
        BY <4>1, <4>3
    <3>2. ends' = ends \cup mine
                     \cup {<<k, x[2], x[3]>> : x \in {y \in mine : Inherited(y)}}
      BY <2>2
    <3>3. \A x \in mine : <<k, x[2], x[3]>> \in Ends
      BY <3>1 DEF Ends
    <3> HIDE DEF mine
    <3>4. QED
      BY <3>1, <3>2, <3>3 DEF TypeInv, TypeOK
  <2>4. kids' \in [Pids -> Kids]
    <3> DEFINE newKid ==
          [state |-> IF posix THEN "forked" ELSE "running", program |-> program,
           no |-> creates + 1, combined |-> combined, on |-> "in",
           copy |-> IF posix THEN buffer ELSE NoCopy]
    <3>1. (IF posix THEN buffer ELSE NoCopy) \in [Pipes -> Nat]
      BY RecordsTyped DEF TypeInv, TypeOK
    <3>2. newKid \in Kids
      <4>1. creates + 1 \in 0..MaxCreates
        BY <2>1
      <4>2. \A c \in [Pipes -> Nat], s \in {"forked", "running"} :
              [state |-> s, program |-> program, no |-> creates + 1, combined |-> combined,
               on |-> "in", copy |-> c] \in Kids
        BY <4>1, KidMade
      <4>3. QED
        BY <3>1, <4>2
    <3>3. kids' = [kids EXCEPT ![k] = newKid]
      BY <2>2
    <3> HIDE DEF newKid
    <3>4. QED
      BY <3>2, <3>3 DEF TypeInv, TypeOK
  <2>5. process' \in [Handles -> Processes]
    <3> DEFINE newProcess ==
          [no |-> creates + 1, pid |-> k, combined |-> combined, stdin |-> TRUE,
           joined |-> FALSE]
    <3>1. newProcess \in Processes
      BY <2>1 DEF Processes
    <3>2. process' = [process EXCEPT ![h] = newProcess]
      BY <2>2
    <3> HIDE DEF newProcess
    <3>3. QED
      BY <3>1, <3>2 DEF TypeInv, TypeOK
  <2>6. KidsNumbered'
    <3> DEFINE newKid ==
          [state |-> IF posix THEN "forked" ELSE "running", program |-> program,
           no |-> creates + 1, combined |-> combined, on |-> "in",
           copy |-> IF posix THEN buffer ELSE NoCopy]
    <3>1. newKid.no # 0
      BY <2>1
    <3>2. kids' = [kids EXCEPT ![k] = newKid]
      BY <2>2
    <3> HIDE DEF newKid
    <3>3. QED
      BY <3>1, <3>2, NumberKept
  <2>7. QED
    BY <1>4, <2>1, <2>3, <2>4, <2>5, <2>6 DEF Forks, TypeInv, TypeOK
<1>5. CASE Write(h)
  BY <1>5, <1>2 DEF Write, TypeInv, TypeOK, KidsNumbered
<1>6. CASE Flush(h)
  BY <1>6, <1>2, FlushedTyped DEF Flush, TypeInv, TypeOK, KidsNumbered
<1>7. CASE Read(h)
  BY <1>7 DEF Read, TypeInv, TypeOK, KidsNumbered
<1>8. CASE JoinCall(h)
  <2>1. /\ arrived' \in [Pipes -> Nat] /\ buffer' \in [Pipes -> Nat]
        /\ ends' \subseteq Ends
    BY <1>8, <1>2, FlushedTyped DEF JoinCall, CloseStdin, TypeInv, TypeOK
  <2>2. process' \in [Handles -> Processes]
    <3>1. process' = [process EXCEPT ![h] = [process[h] EXCEPT !.stdin = FALSE]]
      BY <1>8 DEF JoinCall
    <3>2. QED
      BY <3>1, ProcessChanges DEF TypeInv, TypeOK
  <2>3. QED
    BY <1>8, <2>1, <2>2 DEF JoinCall, TypeInv, TypeOK, KidsNumbered
<1>9. CASE Destroy(h)
  <2>1. arrived' \in [Pipes -> Nat] /\ buffer' \in [Pipes -> Nat]
    BY <1>9, <1>2, FlushedTyped DEF Destroy, TypeInv, TypeOK
  <2>2. PICK k \in Pids :
          kids' = IF ~posix /\ kids[k].state = "zombie" THEN [kids EXCEPT ![k] = NoKid] ELSE kids
    BY <1>9 DEF Destroy
  <2>3. ends' \subseteq Ends
    BY <1>9 DEF Destroy, TypeInv, TypeOK
  <2>4. process' \in [Handles -> Processes]
    BY <1>9, RecordsTyped DEF Destroy, TypeInv, TypeOK
  <2>5. QED
    BY <1>9, <2>1, <2>2, <2>3, <2>4, RecordsTyped DEF Destroy, TypeInv, TypeOK, KidsNumbered
<1>10. QED
  BY <1>1, <1>3, <1>4, <1>5, <1>6, <1>7, <1>8, <1>9

\* So does every step.
LEMMA TypeInvNext == TypeInv /\ [Next]_vars => TypeInv'
<1> SUFFICES ASSUME TypeInv, [Next]_vars PROVE TypeInv'
  OBVIOUS
<1>1. CASE Call
  BY <1>1, CallTyped
<1>2. CASE CreateReturn
  BY <1>2 DEF CreateReturn, TypeInv, TypeOK, KidsNumbered
<1>3. CASE JoinReturn
  <2>1. PICK k \in Pids : kids' = IF posix THEN [kids EXCEPT ![k] = NoKid] ELSE kids
    BY <1>3 DEF JoinReturn
  <2>2. kids' \in [Pids -> Kids] /\ KidsNumbered'
    BY <2>1, RecordsTyped DEF TypeInv, TypeOK, KidsNumbered
  <2>3. process' = [process EXCEPT ![current] = [process[current] EXCEPT !.joined = TRUE]]
    BY <1>3 DEF JoinReturn
  <2>4. process' \in [Handles -> Processes]
    BY <2>3, ProcessChanges DEF TypeInv, TypeOK
  <2>5. QED
    BY <1>3, <2>2, <2>4 DEF JoinReturn, TypeInv, TypeOK
<1>4. ASSUME NEW k \in Pids, KidStep(k) PROVE TypeInv'
  BY <1>4, KidStepTyped
<1>5. CASE UNCHANGED vars
  BY <1>5 DEF vars, TypeInv, TypeOK, KidsNumbered
<1>6. QED
  BY <1>1, <1>2, <1>3, <1>4, <1>5 DEF Next

(* The variables keep their types: no pipe but those of a create, no pid but those *)
(* the system gives out.                                                            *)
THEOREM TypeOKInvariant == Spec => []TypeOK
<1>1. TypeInv => TypeOK
  BY DEF TypeInv
<1>2. QED
  BY <1>1, TypeInvInit, TypeInvNext, PTL DEF Spec

-----------------------------------------------------------------------------
(* The pid of a handle is its own child's as long as somebody may wait for it.     *)

OwnsChild(h) ==
  /\ process[h].pid \in Pids
  /\ kids[process[h].pid].state # "none"
  /\ kids[process[h].pid].no = process[h].no

\* On Windows the handle keeps the process known, on POSIX only until it is reaped.
MayWait(h) == h \in Opened /\ (posix => ~process[h].joined)

Owned == \A h \in Handles : MayWait(h) => OwnsChild(h)

\* No two handles are of the same call.
Numbered ==
  /\ \A h \in Handles : process[h].no <= creates
  /\ \A g, h \in Opened : process[g].no = process[h].no => g = h

WaitsForOpened == at = "waiting" => current \in Opened /\ ~process[current].joined

OwnInv == TypeInv /\ Owned /\ Numbered /\ WaitsForOpened

\* At the start no handle is open.
LEMMA OwnInvInit == Init => OwnInv
<1> SUFFICES ASSUME Init PROVE OwnInv
  OBVIOUS
<1>1. Opened = {} /\ \A h \in Handles : process[h].no = 0
  BY DEF Init, Opened, NoProcess
<1>2. QED
  BY <1>1, TypeInvInit DEF Init, OwnInv, Owned, MayWait, Numbered, WaitsForOpened

\* Of one child there is one handle.
LEMMA OneHandle ==
  ASSUME OwnInv, NEW g \in Handles, NEW h \in Handles, MayWait(g), MayWait(h),
         process[g].pid = process[h].pid
  PROVE  g = h
BY DEF OwnInv, Owned, OwnsChild, MayWait, Numbered

\* A step that changes no number of a handle, and no child anybody may wait for.
LEMMA OwnedKept ==
  ASSUME OwnInv, posix' = posix, creates' >= creates, creates' \in Int,
         \A h \in Handles : process'[h].no # 0 =>
           /\ process'[h].no = process[h].no /\ process'[h].pid = process[h].pid
           /\ process[h].joined => process'[h].joined,
         \A h \in Handles : (MayWait(h) /\ MayWait(h)') =>
           /\ kids'[process[h].pid].state # "none"
           /\ kids'[process[h].pid].no = kids[process[h].pid].no
  PROVE  Owned' /\ Numbered'
<1>1. \A h \in Handles : process[h].no \in Int /\ creates \in Int /\ creates >= 0
  BY ProcessFields, BoundsAssumption DEF OwnInv, TypeInv, TypeOK
<1>2. Numbered'
  BY <1>1 DEF OwnInv, Numbered, Opened
<1>3. Owned'
  <2> SUFFICES ASSUME NEW h \in Handles, MayWait(h)' PROVE OwnsChild(h)'
    BY DEF Owned
  <2>1. MayWait(h) /\ process'[h].no # 0
    BY DEF MayWait, Opened
  <2>2. OwnsChild(h)
    BY <2>1 DEF OwnInv, Owned
  <2>3. QED
    BY <2>1, <2>2 DEF OwnsChild
<1>4. QED
  BY <1>2, <1>3

\* Nor does a child forget who it is before its handle lets go of it.
LEMMA KidStepKnown ==
  ASSUME TypeInv, NEW k \in Pids, KidStep(k), NEW h \in Opened, process[h].pid \in Pids,
         kids[process[h].pid].state # "none"
  PROVE  /\ kids'[process[h].pid].state # "none"
         /\ kids'[process[h].pid].no = kids[process[h].pid].no
<1>1. CASE process[h].pid # k
  BY <1>1 DEF KidStep, KidSide, ExecFails, KidFills, KidExits, Exit, TypeInv, TypeOK
<1>2. CASE process[h].pid = k
  <2>1. kids[k] \in Kids
    BY DEF TypeInv, TypeOK
  <2>2. CASE KidSide(k)
    <3>1. kids' = [kids EXCEPT ![k] = [kids[k] EXCEPT !.state = "running"]]
      BY <2>2 DEF KidSide
    <3>2. QED
      BY <1>2, <2>1, <3>1, KidKeeps DEF TypeInv, TypeOK
  <2>3. CASE KidFills(k)
    <3>1. PICK p : kids' = [kids EXCEPT ![k] = [kids[k] EXCEPT !.state = "blocked", !.on = p[2]]]
      BY <2>3 DEF KidFills
    <3>2. QED
      BY <1>2, <2>1, <3>1, KidKeeps DEF TypeInv, TypeOK
  <2>4. CASE Exit(k)
    <3>1. kids' = [kids EXCEPT ![k] = [kids[k] EXCEPT !.state = "zombie", !.copy = NoCopy]]
      BY <1>2, <2>4 DEF Exit
    <3>2. QED
      BY <1>2, <2>1, <3>1, KidKeeps DEF TypeInv, TypeOK
  <2>5. QED
    BY <2>2, <2>3, <2>4 DEF KidStep, ExecFails, KidExits
<1>3. QED
  BY <1>1, <1>2

\* Every step keeps OwnInv: one case per action, the handles and their children in each.
LEMMA OwnInvNext == OwnInv /\ [Next]_vars => OwnInv'
<1> SUFFICES ASSUME OwnInv, [Next]_vars PROVE OwnInv'
  OBVIOUS
<1>1. TypeInv' /\ TypeInv /\ creates \in Int /\ creates' \in Int
  BY TypeInvNext, BoundsAssumption DEF OwnInv, TypeInv, TypeOK
<1>2. ASSUME UNCHANGED <<posix, process, kids>>, creates' >= creates
      PROVE  Owned' /\ Numbered'
  <2>1. \A h \in Handles : MayWait(h) => OwnsChild(h)
    BY DEF OwnInv, Owned
  <2>2. /\ \A h \in Handles : /\ process'[h].no = process[h].no
                              /\ process'[h].pid = process[h].pid
                              /\ process[h].joined => process'[h].joined
        /\ \A h \in Handles : MayWait(h) => /\ kids'[process[h].pid].state # "none"
                                           /\ kids'[process[h].pid].no = kids[process[h].pid].no
    BY <1>2, <2>1 DEF OwnsChild
  <2>3. QED
    BY <1>1, <1>2, <2>2, OwnedKept
<1>3. CASE Call
  <2>1. PICK h \in Handles :
          \/ \E made \in Made : CreateFails(h, made)
          \/ \E combined \in BOOLEAN, program \in Programs : Forks(h, combined, program)
          \/ Write(h) \/ Flush(h) \/ Read(h) \/ JoinCall(h) \/ Destroy(h)
    BY <1>3 DEF Call
  <2>2. at = "idle"
    BY <2>1 DEF CreateFails, Forks, MayCreate, Write, Flush, Read, JoinCall, Destroy
  <2>3. ASSUME NEW made \in Made, CreateFails(h, made) PROVE OwnInv'
    BY <1>1, <1>2, <2>2, <2>3 DEF CreateFails, OwnInv, WaitsForOpened
  <2>4. ASSUME NEW combined \in BOOLEAN, NEW program \in Programs, Forks(h, combined, program)
        PROVE  OwnInv'
    <3>1. PICK k \in Pids :
            /\ kids[k].state = "none"
            /\ kids' = [kids EXCEPT ![k] =
                 [state |-> IF posix THEN "forked" ELSE "running", program |-> program,
                  no |-> creates + 1, combined |-> combined, on |-> "in",
                  copy |-> IF posix THEN buffer ELSE NoCopy]]
            /\ process' = [process EXCEPT ![h] =
                 [no |-> creates + 1, pid |-> k, combined |-> combined, stdin |-> TRUE,
                  joined |-> FALSE]]
      BY <2>4 DEF Forks
    <3>2. h \notin Opened /\ creates' = creates + 1 /\ posix' = posix
      BY <2>4 DEF Forks, MayCreate
    <3>3. /\ kids'[k].no = creates + 1 /\ kids'[k].state # "none"
          /\ process'[h].no = creates + 1 /\ process'[h].pid = k
      BY <3>1 DEF OwnInv, TypeInv, TypeOK
    <3>4. \A g \in Handles : g # h => process'[g] = process[g]
      BY <3>1 DEF OwnInv, TypeInv, TypeOK
    <3>5. \A j \in Pids : j # k => kids'[j] = kids[j]
      BY <3>1 DEF OwnInv, TypeInv, TypeOK
    <3>6. \A g \in Handles : process[g].no \in Int /\ process[g].no <= creates
      BY ProcessFields DEF OwnInv, Numbered, TypeInv, TypeOK
    <3>7. Numbered'
      BY <1>1, <3>2, <3>3, <3>4, <3>6 DEF OwnInv, Numbered, Opened
    <3>8. Owned'
      <4> SUFFICES ASSUME NEW g \in Handles, MayWait(g)' PROVE OwnsChild(g)'
        BY DEF Owned
      <4>1. CASE g = h
        BY <3>3, <4>1 DEF OwnsChild
      <4>2. CASE g # h
        <5>1. MayWait(g)
          BY <3>2, <3>4, <4>2 DEF MayWait, Opened
        <5>2. OwnsChild(g)
          BY <5>1 DEF OwnInv, Owned
        <5>3. process[g].pid # k
          BY <3>1, <5>2 DEF OwnsChild
        <5>4. QED
          BY <3>4, <3>5, <4>2, <5>2, <5>3 DEF OwnsChild
      <4>3. QED
        BY <4>1, <4>2
    <3>9. QED
      BY <1>1, <2>4, <3>7, <3>8 DEF Forks, OwnInv, WaitsForOpened
  <2>5. CASE Write(h) \/ Flush(h) \/ Read(h)
    BY <1>1, <1>2, <2>2, <2>5 DEF Write, Flush, Read, OwnInv, WaitsForOpened
  <2>6. CASE JoinCall(h)
    <3>1. process' = [process EXCEPT ![h] = [process[h] EXCEPT !.stdin = FALSE]]
      BY <2>6 DEF JoinCall
    <3>2. /\ process[h] \in Processes
          /\ \A g \in Handles : g # h => process'[g] = process[g]
          /\ process'[h] = [process[h] EXCEPT !.stdin = FALSE]
      BY <3>1 DEF OwnInv, TypeInv, TypeOK
    <3>3. \A g \in Handles : /\ process'[g].no = process[g].no
                            /\ process'[g].pid = process[g].pid
                            /\ process'[g].joined = process[g].joined
      <4>1. /\ process'[h].no = process[h].no
            /\ process'[h].pid = process[h].pid
            /\ process'[h].joined = process[h].joined
        BY <3>2, ProcessKeeps, Zenon
      <4>2. QED
        BY <3>2, <4>1, Zenon
    <3>4. Owned' /\ Numbered'
      <4>1. \A g \in Handles : MayWait(g) => OwnsChild(g)
        BY DEF OwnInv, Owned
      <4>2. kids' = kids /\ posix' = posix /\ creates' = creates
        BY <2>6 DEF JoinCall
      <4>3. \A g \in Handles : MayWait(g) => /\ kids'[process[g].pid].state # "none"
                                            /\ kids'[process[g].pid].no = kids[process[g].pid].no
        BY <4>1, <4>2 DEF OwnsChild
      <4>4. QED
        BY <1>1, <3>3, <4>2, <4>3, OwnedKept
    <3>5. WaitsForOpened'
      BY <2>6, <3>3 DEF JoinCall, WaitsForOpened, Opened
    <3>6. QED
      BY <1>1, <3>4, <3>5 DEF OwnInv
  <2>7. CASE Destroy(h)
    <3>1. process' = [process EXCEPT ![h] = NoProcess] /\ h \in Opened
      BY <2>7 DEF Destroy
    <3>2. process'[h].no = 0 /\ \A g \in Handles \ {h} : process'[g] = process[g]
      BY <3>1 DEF OwnInv, TypeInv, TypeOK, NoProcess
    <3>3. \/ kids' = kids
          \/ ~posix /\ kids' = [kids EXCEPT ![process[h].pid] = NoKid]
      BY <2>7 DEF Destroy
    <3>4. ASSUME NEW g \in Handles \ {h}, MayWait(g)
          PROVE  kids'[process[g].pid] = kids[process[g].pid]
      <4>1. OwnsChild(g)
        BY <3>4 DEF OwnInv, Owned
      <4>2. ~posix => process[g].pid # process[h].pid
        BY <3>1, <3>4, OneHandle DEF MayWait
      <4>3. QED
        BY <3>3, <4>1, <4>2 DEF OwnsChild, OwnInv, TypeInv, TypeOK
    <3>5. \A g \in Handles \ {h} : MayWait(g) => OwnsChild(g)
      BY DEF OwnInv, Owned
    <3>6. Owned' /\ Numbered'
      <4>1. posix' = posix /\ creates' = creates
        BY <2>7 DEF Destroy
      <4>2. \A g \in Handles \ {h} :
              MayWait(g) => /\ kids'[process[g].pid].state # "none"
                            /\ kids'[process[g].pid].no = kids[process[g].pid].no
        BY <3>4, <3>5 DEF OwnsChild
      <4>3. ~MayWait(h)'
        BY <3>2 DEF MayWait, Opened
      <4>4. QED
        BY <1>1, <3>2, <4>1, <4>2, <4>3, OwnedKept
    <3>7. QED
      BY <1>1, <2>7, <3>6 DEF Destroy, OwnInv, WaitsForOpened
  <2>8. QED
    BY <2>1, <2>3, <2>4, <2>5, <2>6, <2>7
<1>4. CASE CreateReturn
  BY <1>1, <1>2, <1>4 DEF CreateReturn, OwnInv, WaitsForOpened
<1>5. CASE JoinReturn
  <2>1. current \in Opened /\ ~process[current].joined
    BY <1>5 DEF JoinReturn, OwnInv, WaitsForOpened
  <2>2. process' = [process EXCEPT ![current] = [process[current] EXCEPT !.joined = TRUE]]
    BY <1>5 DEF JoinReturn
  <2>3. /\ process[current] \in Processes /\ current \in Handles
        /\ \A g \in Handles : g # current => process'[g] = process[g]
        /\ process'[current] = [process[current] EXCEPT !.joined = TRUE]
    BY <2>2 DEF OwnInv, TypeInv, TypeOK
  <2>4. \A g \in Handles : process'[g].no # 0 =>
          /\ process'[g].no = process[g].no /\ process'[g].pid = process[g].pid
          /\ process[g].joined => process'[g].joined
    <3>1. /\ process'[current].no = process[current].no
          /\ process'[current].pid = process[current].pid
          /\ process'[current].joined
      BY <2>3, ProcessKeeps
    <3>2. SUFFICES ASSUME NEW g \in Handles
                   PROVE  /\ process'[g].no = process[g].no /\ process'[g].pid = process[g].pid
                          /\ process[g].joined => process'[g].joined
      OBVIOUS
    <3>3. CASE g = current
      BY <3>1, <3>3
    <3>4. CASE g # current
      BY <2>3, <3>4
    <3>5. QED
      BY <3>3, <3>4
  <2>5. process'[current].joined
    BY <2>3, ProcessKeeps
  <2>6. kids' = IF posix THEN [kids EXCEPT ![process[current].pid] = NoKid] ELSE kids
    BY <1>5 DEF JoinReturn, Awaited
  <2>7. ASSUME NEW g \in Handles, MayWait(g), posix => ~process'[g].joined
        PROVE  kids'[process[g].pid] = kids[process[g].pid]
    <3>1. CASE posix
      <4>1. g # current /\ MayWait(current) /\ OwnsChild(g)
        BY <2>1, <2>5, <2>7, <3>1 DEF MayWait, OwnInv, Owned
      <4>2. process[g].pid # process[current].pid
        BY <2>3, <2>7, <4>1, OneHandle
      <4>3. QED
        BY <2>6, <4>1, <4>2 DEF OwnsChild, OwnInv, TypeInv, TypeOK
    <3>2. CASE ~posix
      BY <2>6, <3>2
    <3>3. QED
      BY <3>1, <3>2
  <2>8. \A g \in Handles : MayWait(g) => OwnsChild(g)
    BY DEF OwnInv, Owned
  <2>9. Owned' /\ Numbered'
    <3>1. posix' = posix /\ creates' = creates
      BY <1>5 DEF JoinReturn
    <3>2. \A g \in Handles :
            (MayWait(g) /\ MayWait(g)') => /\ kids'[process[g].pid].state # "none"
                                          /\ kids'[process[g].pid].no = kids[process[g].pid].no
      BY <2>7, <2>8, <3>1 DEF OwnsChild, MayWait
    <3>3. creates' \in Int /\ creates' >= creates
      BY <1>1, <3>1
    <3>4. QED
      BY <2>4, <3>1, <3>2, <3>3, OwnedKept
  <2>10. QED
    BY <1>1, <1>5, <2>9 DEF JoinReturn, OwnInv, WaitsForOpened
<1>6. ASSUME NEW k \in Pids, KidStep(k) PROVE OwnInv'
  <2>1. UNCHANGED <<posix, process, at, current, creates>>
    BY <1>6 DEF KidStep, KidSide, ExecFails, KidFills, KidExits
  <2>2. ASSUME NEW h \in Handles, MayWait(h)
        PROVE  /\ kids'[process[h].pid].state # "none"
               /\ kids'[process[h].pid].no = kids[process[h].pid].no
    <3>1. OwnsChild(h) /\ h \in Opened
      BY <2>2 DEF OwnInv, Owned, MayWait
    <3>2. QED
      BY <1>1, <1>6, <3>1, KidStepKnown DEF OwnsChild
  <2>3. Owned' /\ Numbered'
    BY <1>1, <2>1, <2>2, OwnedKept
  <2>4. QED
    BY <1>1, <2>1, <2>3 DEF OwnInv, WaitsForOpened, Opened
<1>7. CASE UNCHANGED vars
  BY <1>1, <1>2, <1>7 DEF vars, OwnInv, WaitsForOpened, Opened
<1>8. QED
  BY <1>3, <1>4, <1>5, <1>6, <1>7 DEF Next

(* Whatever exits, fails or is given out again in whatever order: a handle that    *)
(* may be joined has the pid of its own child, whom nobody has reaped, so that     *)
(* waitpid in process_join never takes the child of another handle.                *)
THEOREM HandlesKeepTheirChildren == Spec => []HandlesOwnTheirChildren
<1>1. OwnInv => HandlesOwnTheirChildren
  BY DEF OwnInv, Owned, MayWait, OwnsChild, HandlesOwnTheirChildren, Opened
<1>2. QED
  BY <1>1, OwnInvInit, OwnInvNext, PTL DEF Spec

-----------------------------------------------------------------------------
(* What a step does to the children and to the ends. *)

\* What else stays of the struct of a handle as its child is waited for.
LEMMA ProcessKeepsMore ==
  ASSUME NEW r \in Processes
  PROVE  /\ [r EXCEPT !.stdin = FALSE].combined = r.combined
         /\ [r EXCEPT !.stdin = FALSE].stdin = FALSE
         /\ [r EXCEPT !.joined = TRUE].combined = r.combined
         /\ [r EXCEPT !.joined = TRUE].stdin = r.stdin
BY DEF Processes

\* What stays of the record of a child that goes on, and of one that exits.
LEMMA KidKeepsMore ==
  ASSUME NEW r \in Kids, NEW s
  PROVE  /\ [r EXCEPT !.state = "running"].copy = r.copy
         /\ [r EXCEPT !.state = "blocked", !.on = s].copy = r.copy
         /\ [r EXCEPT !.state = "zombie", !.copy = NoCopy].copy = NoCopy
BY DEF Kids

\* An output is of the create it is numbered for, and is no input.
LEMMA OutputsApart ==
  ASSUME NEW n, NEW c, NEW p \in Outputs(n, c)
  PROVE  p[1] = n /\ p[2] # "in" /\ \A m : p # In(m)
BY DEF Outputs, In

\* The inputs of two creates are two pipes.
LEMMA InputsApart ==
  ASSUME NEW m, NEW n, In(m) = In(n)
  PROVE  m = n
<1>1. In(m)[1] = m /\ In(n)[1] = n
  BY DEF In
<1>2. QED
  BY <1>1

\* The child k takes a step and is still there after it.
GoesOn(k) ==
  /\ k \in Alive' /\ kids'[k].no = kids[k].no /\ kids'[k].copy = kids[k].copy
  /\ ends' = ends \/ ends' = ends \ KidCloses(k)
  /\ arrived' = arrived

\* It exits, and its ends are closed.
Exits(k) ==
  /\ k \notin Alive' /\ kids'[k].copy = NoCopy
  /\ ends' = ends \ EndsOf(k)
  /\ kids[k].copy = NoCopy => arrived' = arrived

\* A step of a child is one of the two, and touches no other process.
LEMMA KidStepShape ==
  ASSUME TypeInv, NEW k \in Pids, KidStep(k)
  PROVE  /\ k \in Alive
         /\ \A j \in Pids \ {k} : kids'[j] = kids[j]
         /\ UNCHANGED <<posix, process, at, current, buffer, written, creates>>
         /\ GoesOn(k) \/ Exits(k)
<1>1. kids[k] \in Kids /\ kids \in [Pids -> Kids] /\ arrived \in [Pipes -> Nat]
  BY DEF TypeInv, TypeOK
<1>2. UNCHANGED <<posix, process, at, current, buffer, written, creates>>
  BY DEF KidStep, KidSide, ExecFails, KidFills, KidExits
<1>3. k \in Alive
  BY DEF KidStep, KidSide, ExecFails, KidFills, KidExits, Alive
<1>4. \A j \in Pids \ {k} : kids'[j] = kids[j]
  BY <1>1 DEF KidStep, KidSide, ExecFails, KidFills, KidExits, Exit
<1>5. CASE KidSide(k)
  <2>1. kids'[k] = [kids[k] EXCEPT !.state = "running"]
    BY <1>1, <1>5 DEF KidSide
  <2>2. /\ kids'[k].state = "running" /\ kids'[k].no = kids[k].no
        /\ kids'[k].copy = kids[k].copy
    BY <1>1, <2>1, KidKeeps, KidKeepsMore
  <2>3. GoesOn(k)
    BY <1>5, <2>2 DEF KidSide, GoesOn, Alive
  <2>4. QED
    BY <1>2, <1>3, <1>4, <2>3
<1>6. CASE KidFills(k)
  <2>1. PICK p : kids' = [kids EXCEPT ![k] = [kids[k] EXCEPT !.state = "blocked", !.on = p[2]]]
    BY <1>6 DEF KidFills
  <2>2. /\ kids'[k].state = "blocked" /\ kids'[k].no = kids[k].no
        /\ kids'[k].copy = kids[k].copy
    BY <1>1, <2>1, KidKeeps, KidKeepsMore
  <2>3. GoesOn(k)
    BY <1>6, <2>2 DEF KidFills, GoesOn, Alive
  <2>4. QED
    BY <1>2, <1>3, <1>4, <2>3
<1>7. CASE Exit(k) /\ (KidExits(k) \/ ExecFails(k))
  <2>1. \/ kids'[k] = [kids[k] EXCEPT !.state = "zombie", !.copy = NoCopy]
        \/ kids'[k] = NoKid
    <3>1. \/ kids' = [kids EXCEPT ![k] = [kids[k] EXCEPT !.state = "zombie", !.copy = NoCopy]]
          \/ kids' = [kids EXCEPT ![k] = NoKid]
      BY <1>7 DEF Exit
    <3>2. QED
      BY <1>1, <3>1
  <2>2. kids'[k].state \in {"zombie", "none"} /\ kids'[k].copy = NoCopy
    <3>1. NoKid.state = "none" /\ NoKid.copy = NoCopy
      BY DEF NoKid
    <3>2. /\ [kids[k] EXCEPT !.state = "zombie", !.copy = NoCopy].state = "zombie"
          /\ [kids[k] EXCEPT !.state = "zombie", !.copy = NoCopy].copy = NoCopy
      BY <1>1, KidKeeps, KidKeepsMore
    <3>3. QED
      BY <2>1, <3>1, <3>2
  <2>3. ends' = ends \ EndsOf(k)
    BY <1>7 DEF Exit
  <2>4. ASSUME kids[k].copy = NoCopy PROVE arrived' = arrived
    <3>1. CASE KidExits(k)
      BY <3>1 DEF KidExits
    <3>2. CASE ExecFails(k)
      <4>1. \A p \in Pipes : kids[k].copy[p] = 0 /\ arrived[p] \in Nat
        BY <1>1, <2>4 DEF NoCopy
      <4>2. arrived' = [p \in Pipes |->
              IF <<k, p, "w">> \in ends /\ Having(p, "r") # {} THEN arrived[p] + kids[k].copy[p]
                                                               ELSE arrived[p]]
        BY <3>2 DEF ExecFails
      <4>3. arrived' = [p \in Pipes |-> arrived[p]]
        BY <4>1, <4>2
      <4>4. QED
        BY <1>1, <4>3
    <3>3. QED
      BY <1>7, <3>1, <3>2
  <2>5. Exits(k)
    BY <2>2, <2>3, <2>4 DEF Exits, Alive
  <2>6. QED
    BY <1>2, <1>3, <1>4, <2>5
<1>8. QED
  BY <1>5, <1>6, <1>7 DEF KidStep, KidExits, ExecFails

\* The new child k of handle h, and the ends it and the parent have after the fork.
Born(h, c, k) ==
  /\ k \notin Alive
  /\ kids'[k].state \in {"forked", "running"} /\ kids'[k].no = creates + 1
  /\ kids'[k].copy = IF posix THEN buffer ELSE NoCopy
  /\ \A j \in Pids \ {k} : kids'[j] = kids[j]
  /\ process'[h].no = creates + 1 /\ process'[h].stdin /\ process'[h].combined = c
  /\ \A g \in Handles \ {h} : process'[g] = process[g]
  /\ ends \subseteq ends'
  /\ <<Parent, In(creates + 1), "w">> \in ends' /\ <<k, In(creates + 1), "r">> \in ends'
  /\ \A x \in ends' : x \in ends \/ x[1] = k \/ (x[1] = Parent /\ x[2][1] = creates + 1)

\* A fork brings such a child into being.
LEMMA ForkShape ==
  ASSUME TypeInv, NEW h \in Handles, NEW c \in BOOLEAN, NEW program \in Programs,
         Forks(h, c, program)
  PROVE  \E k \in Pids : Born(h, c, k)
<1> DEFINE newKid(k) ==
      [state |-> IF posix THEN "forked" ELSE "running", program |-> program,
       no |-> creates + 1, combined |-> c, on |-> "in",
       copy |-> IF posix THEN buffer ELSE NoCopy]
           newProcess(k) ==
      [no |-> creates + 1, pid |-> k, combined |-> c, stdin |-> TRUE, joined |-> FALSE]
           streams == IF c THEN {"in", "out"} ELSE Streams
           mine == EndsOf(Parent) \cup New(Parent, streams)
<1>1. PICK k \in Pids :
        /\ kids[k].state = "none"
        /\ kids' = [kids EXCEPT ![k] = newKid(k)]
        /\ process' = [process EXCEPT ![h] = newProcess(k)]
        /\ ends' = ends \cup mine \cup {<<k, x[2], x[3]>> : x \in {y \in mine : Inherited(y)}}
  BY DEF Forks
<1>2. kids \in [Pids -> Kids] /\ process \in [Handles -> Processes]
  BY DEF TypeInv, TypeOK
<1>3. /\ kids'[k] = newKid(k) /\ \A j \in Pids \ {k} : kids'[j] = kids[j]
      /\ process'[h] = newProcess(k) /\ \A g \in Handles \ {h} : process'[g] = process[g]
  BY <1>1, <1>2
<1>4. /\ newKid(k).state \in {"forked", "running"} /\ newKid(k).no = creates + 1
      /\ newKid(k).copy = IF posix THEN buffer ELSE NoCopy
      /\ newProcess(k).no = creates + 1 /\ newProcess(k).stdin /\ newProcess(k).combined = c
  OBVIOUS
<1>5. "in" \in streams
  BY DEF Streams
<1>6. /\ <<Parent, In(creates + 1), "w">> \in New(Parent, streams)
      /\ <<Parent, In(creates + 1), "r">> \in New(Parent, streams)
  BY <1>5 DEF New, In
<1>7. Inherited(<<Parent, In(creates + 1), "r">>)
  BY DEF Inherited, In
<1>8. <<k, In(creates + 1), "r">> \in {<<k, x[2], x[3]>> : x \in {y \in mine : Inherited(y)}}
  <2> DEFINE y == <<Parent, In(creates + 1), "r">>
  <2>1. y \in mine /\ Inherited(y) /\ y[2] = In(creates + 1) /\ y[3] = "r"
    BY <1>6, <1>7
  <2>2. <<k, y[2], y[3]>> = <<k, In(creates + 1), "r">>
    BY <2>1
  <2> HIDE DEF y, mine
  <2>3. QED
    BY <2>1, <2>2
<1>9. \A x \in mine : x \in ends \/ (x[1] = Parent /\ x[2][1] = creates + 1)
  <2>1. \A x \in EndsOf(Parent) : x \in ends
    BY DEF EndsOf
  <2>2. \A x \in New(Parent, streams) : x[1] = Parent /\ x[2][1] = creates + 1
    <3> HIDE DEF streams
    <3>1. QED
      BY DEF New
  <2>3. QED
    BY <2>1, <2>2
<1>10. \A x \in {<<k, z[2], z[3]>> : z \in {y \in mine : Inherited(y)}} : x[1] = k
  <2> HIDE DEF mine
  <2>1. QED
    OBVIOUS
<1>11. <<Parent, In(creates + 1), "w">> \in mine
  BY <1>6
<1> HIDE DEF mine
<1>12. /\ ends \subseteq ends'
       /\ <<Parent, In(creates + 1), "w">> \in ends' /\ <<k, In(creates + 1), "r">> \in ends'
       /\ \A x \in ends' : x \in ends \/ x[1] = k \/ (x[1] = Parent /\ x[2][1] = creates + 1)
  BY <1>1, <1>8, <1>9, <1>10, <1>11
<1>13. k \notin Alive
  BY <1>1 DEF Alive
<1> HIDE DEF newKid, newProcess
<1>14. QED
  BY <1>3, <1>4, <1>12, <1>13 DEF Born

\* The rest of the parent's steps bring no child to life and end none.
LEMMA ParentStepShape ==
  ASSUME OwnInv, NEW h \in Handles,
         \/ \E made \in Made : CreateFails(h, made)
         \/ Write(h) \/ Flush(h) \/ Read(h) \/ JoinCall(h) \/ Destroy(h)
         \/ CreateReturn \/ JoinReturn \/ UNCHANGED vars
  PROVE  /\ Alive' = Alive
         /\ \A j \in Pids : kids'[j] = kids[j] \/ (j \notin Alive /\ kids'[j] = NoKid)
         /\ posix' = posix
<1>1. kids \in [Pids -> Kids] /\ NoKid.state = "none"
  BY RecordsTyped DEF OwnInv, TypeInv, TypeOK
<1>2. posix' = posix
  BY DEF CreateFails, Write, Flush, Read, JoinCall, Destroy, CreateReturn, JoinReturn, vars
<1>3. \A j \in Pids : kids'[j] = kids[j] \/ (j \notin Alive /\ kids'[j] = NoKid)
  <2>1. CASE JoinReturn
    BY <1>1, <2>1 DEF JoinReturn, Awaited, Alive
  <2>2. CASE Destroy(h)
    BY <1>1, <2>2 DEF Destroy, Alive
  <2>3. CASE UNCHANGED kids
    BY <2>3
  <2>4. QED
    BY <2>1, <2>2, <2>3 DEF CreateFails, Write, Flush, Read, JoinCall, CreateReturn, vars
<1>4. Alive' = Alive
  BY <1>1, <1>3 DEF Alive
<1>5. QED
  BY <1>2, <1>3, <1>4

\* What they do to the handles: no number or choice of a handle changes while it is open.
LEMMA ParentHandles ==
  ASSUME OwnInv, NEW h \in Handles,
         \/ \E made \in Made : CreateFails(h, made)
         \/ Write(h) \/ Flush(h) \/ Read(h) \/ JoinCall(h) \/ Destroy(h)
         \/ CreateReturn \/ JoinReturn \/ UNCHANGED vars
  PROVE  \A g \in Handles : process'[g].no # 0 =>
           /\ process'[g].no = process[g].no /\ process'[g].combined = process[g].combined
           /\ process'[g].stdin => process[g].stdin
<1>1. process \in [Handles -> Processes] /\ NoProcess.no = 0 /\ current \in Handles
  BY DEF OwnInv, TypeInv, TypeOK, NoProcess
<1>2. CASE JoinCall(h)
  <2>1. process' = [process EXCEPT ![h] = [process[h] EXCEPT !.stdin = FALSE]]
    BY <1>2 DEF JoinCall
  <2>2. /\ process[h] \in Processes /\ \A g \in Handles \ {h} : process'[g] = process[g]
        /\ process'[h] = [process[h] EXCEPT !.stdin = FALSE]
    BY <1>1, <2>1
  <2>3. /\ process'[h].no = process[h].no /\ process'[h].combined = process[h].combined
        /\ process'[h].stdin = FALSE
    BY <2>2, ProcessKeeps, ProcessKeepsMore
  <2>4. QED
    BY <2>2, <2>3
<1>3. CASE JoinReturn
  <2>1. process' = [process EXCEPT ![current] = [process[current] EXCEPT !.joined = TRUE]]
    BY <1>3 DEF JoinReturn
  <2>2. /\ process[current] \in Processes
        /\ \A g \in Handles \ {current} : process'[g] = process[g]
        /\ process'[current] = [process[current] EXCEPT !.joined = TRUE]
    BY <1>1, <2>1
  <2>3. /\ process'[current].no = process[current].no
        /\ process'[current].combined = process[current].combined
        /\ process'[current].stdin = process[current].stdin
    BY <2>2, ProcessKeeps, ProcessKeepsMore
  <2>4. SUFFICES ASSUME NEW g \in Handles
                 PROVE  /\ process'[g].no = process[g].no
                        /\ process'[g].combined = process[g].combined
                        /\ process'[g].stdin = process[g].stdin
    OBVIOUS
  <2>5. CASE g = current
    BY <2>3, <2>5
  <2>6. CASE g # current
    BY <2>2, <2>6
  <2>7. QED
    BY <2>5, <2>6
<1>4. CASE Destroy(h)
  BY <1>1, <1>4 DEF Destroy
<1>5. CASE UNCHANGED process
  BY <1>5
<1>6. QED
  BY <1>2, <1>3, <1>4, <1>5 DEF CreateFails, Write, Flush, Read, CreateReturn, vars

\* And to the ends: a create that fails makes some of its own, the others make none.
LEMMA ParentEnds ==
  ASSUME NEW h,
         \/ \E made \in Made : CreateFails(h, made)
         \/ Write(h) \/ Flush(h) \/ Read(h) \/ JoinCall(h) \/ Destroy(h)
         \/ CreateReturn \/ JoinReturn \/ UNCHANGED vars
  PROVE  \A x \in ends' : \/ x \in ends
                          \/ /\ at = "idle" /\ creates' = creates + 1
                             /\ x[1] = Parent /\ x[2][1] = creates + 1
<1>1. ASSUME NEW made \in Made, CreateFails(h, made)
      PROVE  \A x \in ends' : \/ x \in ends
                              \/ /\ at = "idle" /\ creates' = creates + 1
                                 /\ x[1] = Parent /\ x[2][1] = creates + 1
  <2>1. ends' = ends \cup New(Parent, made) /\ at = "idle" /\ creates' = creates + 1
    BY <1>1 DEF CreateFails, MayCreate
  <2>2. \A x \in New(Parent, made) : x[1] = Parent /\ x[2][1] = creates + 1
    BY DEF New
  <2>3. QED
    BY <2>1, <2>2
<1>2. CASE Write(h) \/ Flush(h) \/ Read(h) \/ JoinReturn \/ UNCHANGED vars
  BY <1>2 DEF Write, Flush, Read, JoinReturn, vars
<1>3. CASE JoinCall(h)
  BY <1>3 DEF JoinCall, CloseStdin
<1>4. CASE Destroy(h)
  BY <1>4 DEF Destroy
<1>5. CASE CreateReturn
  BY <1>5 DEF CreateReturn
<1>6. QED
  BY <1>1, <1>2, <1>3, <1>4, <1>5

-----------------------------------------------------------------------------
(* Who can write into an output *)

\* A process that has exited has nothing open.
DeadHaveNothing == \A x \in ends : x[1] \in Alive \cup {Parent}

\* On POSIX the parent has a write end of an output only until process_create returns.
ParentWrites ==
  posix => \A h \in Opened : \A p \in Outputs(process[h].no, process[h].combined) :
             <<Parent, p, "w">> \in ends => at = "forked" /\ current = h

WritersInv == DeadHaveNothing /\ ParentWrites

\* No handle there is already is of the create that is under way.
LEMMA NumbersBelow ==
  ASSUME OwnInv, NEW g \in Handles, NEW c, NEW p \in Outputs(process[g].no, c)
  PROVE  p[1] # creates + 1
<1>1. process[g].no \in Int /\ creates \in Int /\ process[g].no <= creates
  BY ProcessFields, BoundsAssumption DEF OwnInv, Numbered, TypeInv, TypeOK
<1>2. p[1] = process[g].no
  BY OutputsApart
<1>3. QED
  BY <1>1, <1>2

\* A fork gives write ends of outputs to the new child and, until it returns, the parent.
LEMMA WritersForked ==
  ASSUME OwnInv, WritersInv, NEW h \in Handles, NEW c \in BOOLEAN, NEW program \in Programs,
         Forks(h, c, program)
  PROVE  WritersInv'
<1>1. PICK k \in Pids : Born(h, c, k)
  BY ForkShape DEF OwnInv
<1>2. Alive \subseteq Alive' /\ k \in Alive'
  BY <1>1 DEF Born, Alive
<1>3. \A x \in ends' : x \in ends \/ x[1] = k \/ (x[1] = Parent /\ x[2][1] = creates + 1)
  BY <1>1 DEF Born
<1>4. at = "idle" /\ at' = "forked" /\ current' = h /\ posix' = posix
  BY DEF Forks, MayCreate
<1>5. DeadHaveNothing'
  BY <1>2, <1>3 DEF WritersInv, DeadHaveNothing
<1>6. ParentWrites'
  <2> SUFFICES ASSUME posix, NEW g \in Opened',
                      NEW p \in Outputs(process'[g].no, process'[g].combined),
                      <<Parent, p, "w">> \in ends'
               PROVE  g = h
    BY <1>4 DEF ParentWrites
  <2>1. SUFFICES ASSUME g # h PROVE FALSE
    OBVIOUS
  <2>2. g \in Handles /\ process'[g] = process[g] /\ g \in Opened
    BY <1>1, <2>1 DEF Born, Opened
  <2>3. Parent # k /\ p[1] # creates + 1
    BY <2>2, ProcessesAssumption, NumbersBelow
  <2> DEFINE x == <<Parent, p, "w">>
  <2>4. x[1] = Parent /\ x[2] = p
    OBVIOUS
  <2>5. x \in ends
    <3>1. x \in ends'
      OBVIOUS
    <3> HIDE DEF x
    <3>2. QED
      BY <1>3, <2>3, <2>4, <3>1
  <2>6. QED
    BY <1>4, <2>2, <2>5 DEF WritersInv, ParentWrites
<1>7. QED
  BY <1>5, <1>6 DEF WritersInv

\* The rest of what the parent does gives nobody a write end of an output in use.
LEMMA WritersParent ==
  ASSUME OwnInv, WritersInv, NEW h \in Handles,
         \/ \E made \in Made : CreateFails(h, made)
         \/ Write(h) \/ Flush(h) \/ Read(h) \/ JoinCall(h) \/ Destroy(h)
         \/ CreateReturn \/ JoinReturn \/ UNCHANGED vars
  PROVE  WritersInv'
<1>1. Alive' = Alive /\ posix' = posix
  BY ParentStepShape
<1>2. \A x \in ends' : \/ x \in ends
                       \/ at = "idle" /\ x[1] = Parent /\ x[2][1] = creates + 1
  BY ParentEnds
<1>3. \A g \in Handles : process'[g].no # 0 =>
        process'[g].no = process[g].no /\ process'[g].combined = process[g].combined
  BY ParentHandles
<1>4. DeadHaveNothing'
  BY <1>1, <1>2 DEF WritersInv, DeadHaveNothing
<1>5. ParentWrites'
  <2> SUFFICES ASSUME posix, NEW g \in Opened',
                      NEW p \in Outputs(process'[g].no, process'[g].combined),
                      <<Parent, p, "w">> \in ends'
               PROVE  at' = "forked" /\ current' = g
    BY <1>1 DEF ParentWrites
  <2>1. /\ g \in Handles /\ g \in Opened
        /\ process'[g].no = process[g].no /\ process'[g].combined = process[g].combined
    BY <1>3 DEF Opened
  <2>2. p \in Outputs(process[g].no, process[g].combined) /\ p[1] # creates + 1
    BY <2>1, NumbersBelow
  <2> DEFINE x == <<Parent, p, "w">>
  <2>3. x[2] = p
    OBVIOUS
  <2>4. x \in ends
    <3>1. x \in ends'
      OBVIOUS
    <3> HIDE DEF x
    <3>2. QED
      BY <1>2, <2>2, <2>3, <3>1
  <2>5. at = "forked" /\ current = g
    BY <2>1, <2>2, <2>4 DEF WritersInv, ParentWrites
  <2>6. ~CreateReturn
    <3>1. SUFFICES ASSUME CreateReturn PROVE x \in ParentCloses(process[g].no, process[g].combined)
      BY <2>5 DEF CreateReturn
    <3>2. QED
      BY <2>2 DEF ParentCloses
  <2>7. UNCHANGED vars
    BY <2>5, <2>6 DEF CreateFails, MayCreate, Write, Flush, Read, JoinCall, Destroy, JoinReturn
  <2>8. QED
    BY <2>5, <2>7 DEF vars
<1>6. QED
  BY <1>4, <1>5 DEF WritersInv

\* A child takes its ends with it as it exits.
LEMMA WritersKid ==
  ASSUME OwnInv, WritersInv, NEW k \in Pids, KidStep(k)
  PROVE  WritersInv'
<1>1. /\ \A j \in Pids \ {k} : kids'[j] = kids[j]
      /\ UNCHANGED <<posix, process, at, current>>
      /\ GoesOn(k) \/ Exits(k)
  BY KidStepShape DEF OwnInv
<1>2. ends' \subseteq ends
  BY <1>1 DEF GoesOn, Exits
<1>3. DeadHaveNothing'
  <2>1. CASE GoesOn(k)
    <3>1. Alive \subseteq Alive'
      BY <1>1, <2>1 DEF GoesOn, Alive
    <3>2. QED
      BY <1>2, <3>1 DEF WritersInv, DeadHaveNothing
  <2>2. CASE Exits(k)
    <3>1. \A x \in ends' : x \in ends /\ x[1] # k
      BY <2>2 DEF Exits, EndsOf
    <3>2. Alive \ {k} \subseteq Alive'
      BY <1>1 DEF Alive
    <3>3. QED
      BY <3>1, <3>2 DEF WritersInv, DeadHaveNothing
  <2>3. QED
    BY <1>1, <2>1, <2>2
<1>4. ParentWrites'
  BY <1>1, <1>2 DEF WritersInv, ParentWrites, Opened
<1>5. QED
  BY <1>3, <1>4 DEF WritersInv

\* A step is a fork, another step of the parent, or a step of a child.
LEMMA StepCases ==
  ASSUME TypeOK, [Next]_vars
  PROVE  \/ \E h \in Handles, c \in BOOLEAN, program \in Programs : Forks(h, c, program)
         \/ \E h \in Handles :
              \/ \E made \in Made : CreateFails(h, made)
              \/ Write(h) \/ Flush(h) \/ Read(h) \/ JoinCall(h) \/ Destroy(h)
              \/ CreateReturn \/ JoinReturn \/ UNCHANGED vars
         \/ \E k \in Pids : KidStep(k)
<1>1. CASE Call
  BY <1>1 DEF Call
<1>2. CASE CreateReturn \/ JoinReturn \/ UNCHANGED vars
  BY <1>2 DEF TypeOK
<1>3. QED
  BY <1>1, <1>2 DEF Next

\* smd_proc.h:183-184, 387-438: on POSIX, however many children were forked over each other
\* and in whatever order they and the parent got round to closing their ends, nobody is left
\* who could write into an output once every child has exited and process_create is over.
THEOREM OutputsComeToAnEnd == Spec => []OutputEnds
<1>1. Init => WritersInv
  BY DEF Init, WritersInv, DeadHaveNothing, ParentWrites
<1>2. OwnInv /\ WritersInv /\ [Next]_vars => WritersInv'
  <2> SUFFICES ASSUME OwnInv, WritersInv, [Next]_vars PROVE WritersInv'
    OBVIOUS
  <2>1. TypeOK
    BY DEF OwnInv, TypeInv
  <2>2. QED
    BY <2>1, StepCases, WritersForked, WritersParent, WritersKid
<1>3. WritersInv => OutputEnds
  <2> SUFFICES ASSUME WritersInv, posix, at # "forked", Alive = {}, NEW h \in Opened,
                      NEW p \in Outputs(process[h].no, process[h].combined),
                      NEW o \in Pids \cup {Parent}, <<o, p, "w">> \in ends
               PROVE  FALSE
    BY DEF OutputEnds, Having
  <2>1. <<o, p, "w">>[1] = o
    OBVIOUS
  <2>2. o = Parent
    BY <2>1 DEF WritersInv, DeadHaveNothing
  <2>3. QED
    BY <2>2 DEF WritersInv, ParentWrites
<1>4. QED
  BY <1>1, <1>2, <1>3, OwnInvInit, OwnInvNext, PTL DEF Spec

-----------------------------------------------------------------------------
(* What becomes of what is written to a child *)

\* A program that flushes its files before it forks gives no child a copy of what they hold.
NothingCopied == \A k \in Pids : kids[k].copy = NoCopy

\* What was written to a child that may still read is on its way or in the FILE.
Feeds ==
  \A k \in Alive :
    LET p == In(kids[k].no) IN
    <<k, p, "r">> \in ends /\ arrived[p] + buffer[p] = written[p]

\* A FILE that holds anything is the open stdin of a handle.
BufferHeld ==
  \A p \in Pipes : buffer[p] # 0 => \E h \in Opened : process[h].stdin /\ p = In(process[h].no)

\* Behind an open stdin the parent has the write end.
StdinOpen == \A h \in Opened : process[h].stdin => <<Parent, In(process[h].no), "w">> \in ends

\* Nothing has gone through the pipes of a create to come.
Fresh == \A n \in 1..MaxCreates : n > creates => arrived[In(n)] = 0 /\ written[In(n)] = 0

InputInv == NothingCopied /\ Feeds /\ BufferHeld /\ StdinOpen /\ Fresh

\* The number of an open handle is of a create, and its input is a pipe.
LEMMA NumberTyped ==
  ASSUME OwnInv, NEW h \in Opened
  PROVE  /\ process[h].no \in 1..MaxCreates /\ process[h].no <= creates
         /\ In(process[h].no) \in Pipes
BY PipesTyped, ProcessFields, BoundsAssumption DEF OwnInv, Numbered, TypeInv, TypeOK, Opened

\* So is that of a child.
LEMMA AliveTyped ==
  ASSUME TypeInv, NEW k \in Alive
  PROVE  kids[k].no \in 1..MaxCreates /\ In(kids[k].no) \in Pipes
BY PipesTyped, KidFields, BoundsAssumption DEF TypeInv, TypeOK, KidsNumbered, Alive

\* Flushing an input that a child may read moves what the FILE holds into the pipe.
LEMMA FlushedFeeds ==
  ASSUME TypeInv, Feeds, NEW p \in Pipes, Flushed(p), written' = written
  PROVE  /\ \A k \in Alive : LET q == In(kids[k].no) IN arrived'[q] + buffer'[q] = written'[q]
         /\ \A q \in Pipes : buffer'[q] # 0 => buffer[q] # 0
         /\ buffer'[p] = 0
         /\ \A q \in Pipes \ {p} : arrived'[q] = arrived[q]
<1>1. arrived \in [Pipes -> Nat] /\ buffer \in [Pipes -> Nat]
  BY DEF TypeInv, TypeOK
<1>2. /\ buffer'[p] = 0
      /\ \A q \in Pipes \ {p} : arrived'[q] = arrived[q] /\ buffer'[q] = buffer[q]
      /\ Having(p, "r") # {} => arrived'[p] = arrived[p] + buffer[p]
  BY <1>1 DEF Flushed
<1>3. ASSUME NEW k \in Alive
      PROVE  LET q == In(kids[k].no) IN arrived'[q] + buffer'[q] = written'[q]
  <2> DEFINE q == In(kids[k].no)
  <2>1. q \in Pipes /\ <<k, q, "r">> \in ends /\ arrived[q] + buffer[q] = written[q]
    BY AliveTyped DEF Feeds
  <2>2. CASE q = p
    <3>1. k \in Having(p, "r")
      BY <2>1, <2>2 DEF Having, Alive
    <3>2. arrived'[p] = arrived[p] + buffer[p]
      BY <1>2, <3>1
    <3>3. arrived[p] + buffer[p] \in Nat
      BY <1>1
    <3> HIDE DEF q
    <3>4. arrived'[q] + buffer'[q] = written'[q]
      BY <1>2, <2>1, <2>2, <3>2, <3>3
    <3>5. QED
      BY <3>4 DEF q
  <2>3. CASE q # p
    <3> HIDE DEF q
    <3>1. arrived'[q] + buffer'[q] = written'[q]
      BY <1>2, <2>1, <2>3
    <3>2. QED
      BY <3>1 DEF q
  <2>4. QED
    BY <2>2, <2>3
<1>4. QED
  BY <1>2, <1>3

\* A child's step takes only its own ends and no read end of an input it goes on to read.
LEMMA InputKid ==
  ASSUME OwnInv, InputInv, NEW k \in Pids, KidStep(k)
  PROVE  InputInv'
<1>1. /\ k \in Alive
      /\ \A j \in Pids \ {k} : kids'[j] = kids[j]
      /\ UNCHANGED <<posix, process, buffer, written, creates>>
      /\ GoesOn(k) \/ Exits(k)
  BY KidStepShape DEF OwnInv
<1>2. kids[k].copy = NoCopy
  BY DEF InputInv, NothingCopied
<1>3. arrived' = arrived /\ kids'[k].copy = NoCopy
  BY <1>1, <1>2 DEF GoesOn, Exits
<1>4. \A x \in ends : x[1] # k => x \in ends'
  BY <1>1 DEF GoesOn, Exits, KidCloses, EndsOf
<1>5. NothingCopied'
  BY <1>1, <1>3 DEF InputInv, NothingCopied
<1>6. Feeds'
  <2> SUFFICES ASSUME NEW j \in Alive'
               PROVE  /\ <<j, In(kids'[j].no), "r">> \in ends'
                      /\ arrived[In(kids'[j].no)] + buffer[In(kids'[j].no)] = written[In(kids'[j].no)]
    BY <1>1, <1>3 DEF Feeds
  <2>1. j \in Alive /\ kids'[j].no = kids[j].no
    <3>1. CASE j = k
      BY <1>1, <3>1 DEF GoesOn, Exits
    <3>2. CASE j # k
      BY <1>1, <3>2 DEF Alive
    <3>3. QED
      BY <3>1, <3>2
  <2>2. /\ <<j, In(kids[j].no), "r">> \in ends
        /\ arrived[In(kids[j].no)] + buffer[In(kids[j].no)] = written[In(kids[j].no)]
    BY <2>1 DEF InputInv, Feeds
  <2>3. <<j, In(kids[j].no), "r">> \in ends'
    <3>1. CASE j = k
      <4>1. ends' = ends \/ ends' = ends \ KidCloses(k)
        BY <1>1, <3>1 DEF GoesOn, Exits
      <4>2. <<k, In(kids[k].no), "r">> \notin KidCloses(k)
        BY OutputsApart DEF KidCloses
      <4>3. QED
        BY <2>2, <3>1, <4>1, <4>2
    <3>2. CASE j # k
      <4> DEFINE x == <<j, In(kids[j].no), "r">>
      <4>1. x \in ends /\ x[1] # k
        BY <2>2, <3>2
      <4> HIDE DEF x
      <4>2. x \in ends'
        BY <1>4, <4>1
      <4>3. QED
        BY <4>2 DEF x
    <3>3. QED
      BY <3>1, <3>2
  <2>4. QED
    BY <2>1, <2>2, <2>3
<1>7. BufferHeld' /\ Fresh'
  BY <1>1, <1>3 DEF InputInv, BufferHeld, Fresh, Opened
<1>8. StdinOpen'
  <2> SUFFICES ASSUME NEW h \in Opened, process[h].stdin
               PROVE  <<Parent, In(process[h].no), "w">> \in ends'
    BY <1>1 DEF StdinOpen, Opened
  <2> DEFINE x == <<Parent, In(process[h].no), "w">>
  <2>1. x \in ends /\ x[1] # k
    BY ProcessesAssumption DEF InputInv, StdinOpen
  <2> HIDE DEF x
  <2>2. x \in ends'
    BY <1>4, <2>1
  <2>3. QED
    BY <2>2 DEF x
<1>9. QED
  BY <1>5, <1>6, <1>7, <1>8 DEF InputInv

\* The new child of a program that has flushed its files begins with nothing written to it.
LEMMA InputForked ==
  ASSUME FlushesFirst, OwnInv, InputInv, NEW h \in Handles, NEW c \in BOOLEAN,
         NEW program \in Programs, Forks(h, c, program)
  PROVE  InputInv'
<1>1. PICK k \in Pids : Born(h, c, k)
  BY ForkShape DEF OwnInv
<1>2. /\ UNCHANGED <<buffer, arrived, written>> /\ creates' = creates + 1
      /\ buffer = NoCopy /\ h \notin Opened /\ creates < MaxCreates
  BY DEF Forks, MayCreate
<1>3. creates \in Nat /\ creates + 1 \in 1..MaxCreates
  BY <1>2, BoundsAssumption DEF OwnInv, TypeInv, TypeOK
<1>4. \A p \in Pipes : buffer[p] = 0
  BY <1>2 DEF NoCopy
<1>5. NothingCopied'
  <2>1. kids'[k].copy = NoCopy
    BY <1>1, <1>2 DEF Born
  <2>2. QED
    BY <1>1, <2>1 DEF Born, InputInv, NothingCopied
<1>6. Feeds'
  <2> SUFFICES ASSUME NEW j \in Alive'
               PROVE  /\ <<j, In(kids'[j].no), "r">> \in ends'
                      /\ arrived[In(kids'[j].no)] + buffer[In(kids'[j].no)] = written[In(kids'[j].no)]
    BY <1>2 DEF Feeds
  <2>1. CASE j = k
    <3>1. kids'[j].no = creates + 1 /\ <<j, In(creates + 1), "r">> \in ends'
      BY <1>1, <2>1 DEF Born
    <3>2. In(creates + 1) \in Pipes
      BY <1>3 DEF In, Pipes, Streams
    <3>3. /\ arrived[In(creates + 1)] = 0 /\ written[In(creates + 1)] = 0
          /\ buffer[In(creates + 1)] = 0
      BY <1>3, <1>4, <3>2 DEF InputInv, Fresh
    <3>4. QED
      BY <3>1, <3>3
  <2>2. CASE j # k
    <3>1. j \in Alive /\ kids'[j] = kids[j]
      BY <1>1, <2>2 DEF Born, Alive
    <3>2. QED
      BY <1>1, <3>1 DEF Born, InputInv, Feeds
  <2>3. QED
    BY <2>1, <2>2
<1>7. BufferHeld'
  BY <1>2, <1>4 DEF BufferHeld
<1>8. StdinOpen'
  <2> SUFFICES ASSUME NEW g \in Opened', process'[g].stdin
               PROVE  <<Parent, In(process'[g].no), "w">> \in ends'
    BY DEF StdinOpen
  <2>1. CASE g = h
    BY <1>1, <2>1 DEF Born
  <2>2. CASE g # h
    <3>1. g \in Opened /\ process'[g] = process[g]
      BY <1>1, <2>2 DEF Born, Opened
    <3>2. QED
      BY <1>1, <3>1 DEF Born, InputInv, StdinOpen
  <2>3. QED
    BY <2>1, <2>2
<1>9. Fresh'
  BY <1>2, <1>3 DEF InputInv, Fresh
<1>10. QED
  BY <1>5, <1>6, <1>7, <1>8, <1>9 DEF InputInv

\* A step of the parent other than a fork writes to a child, flushes what was written to one,
\* or leaves alone what the files hold and what has come out of them.
LEMMA ParentData ==
  ASSUME OwnInv, NEW h \in Handles,
         \/ \E made \in Made : CreateFails(h, made)
         \/ Write(h) \/ Flush(h) \/ Read(h) \/ JoinCall(h) \/ Destroy(h)
         \/ CreateReturn \/ JoinReturn \/ UNCHANGED vars
  PROVE  \/ Write(h)
         \/ h \in Opened /\ process[h].stdin /\ Flushed(In(process[h].no)) /\ written' = written
         \/ UNCHANGED <<buffer, arrived, written>>
<1>1. CASE JoinCall(h)
  BY <1>1 DEF JoinCall, CloseStdin
<1>2. CASE Destroy(h)
  BY <1>2 DEF Destroy
<1>3. CASE Flush(h)
  BY <1>3 DEF Flush
<1>4. QED
  BY <1>1, <1>2, <1>3 DEF CreateFails, Read, CreateReturn, JoinReturn, vars

\* An open stdin stays open unless it is flushed and its write end closed.
LEMMA ParentStdin ==
  ASSUME OwnInv, NEW h \in Handles,
         \/ \E made \in Made : CreateFails(h, made)
         \/ Write(h) \/ Flush(h) \/ Read(h) \/ JoinCall(h) \/ Destroy(h)
         \/ CreateReturn \/ JoinReturn \/ UNCHANGED vars,
         NEW g \in Opened, process[g].stdin
  PROVE  \/ process'[g].no = process[g].no /\ process'[g].stdin
         \/ /\ g = h /\ Flushed(In(process[g].no))
            /\ <<Parent, In(process[g].no), "w">> \notin ends'
<1>1. process \in [Handles -> Processes] /\ g \in Handles
  BY DEF OwnInv, TypeInv, TypeOK, Opened
<1>2. CASE JoinCall(h)
  BY <1>1, <1>2 DEF JoinCall, CloseStdin
<1>3. CASE Destroy(h)
  BY <1>1, <1>3 DEF Destroy
<1>4. CASE JoinReturn
  <2>1. process' = [process EXCEPT ![current] = [process[current] EXCEPT !.joined = TRUE]]
    BY <1>4 DEF JoinReturn
  <2>2. CASE g = current
    <3>1. process[g] \in Processes /\ process'[g] = [process[g] EXCEPT !.joined = TRUE]
      BY <1>1, <2>1, <2>2
    <3>2. process'[g].no = process[g].no /\ process'[g].stdin = process[g].stdin
      BY <3>1 DEF Processes
    <3>3. QED
      BY <3>2
  <2>3. CASE g # current
    BY <1>1, <2>1, <2>3
  <2>4. QED
    BY <2>2, <2>3
<1>5. CASE UNCHANGED process
  BY <1>5
<1>6. QED
  BY <1>2, <1>3, <1>4, <1>5 DEF CreateFails, Write, Flush, Read, CreateReturn, vars

\* The parent closes ends of its own only, and the write end of an input only with its stdin.
LEMMA ParentCloseEnds ==
  ASSUME OwnInv, NEW h \in Handles,
         \/ \E made \in Made : CreateFails(h, made)
         \/ Write(h) \/ Flush(h) \/ Read(h) \/ JoinCall(h) \/ Destroy(h)
         \/ CreateReturn \/ JoinReturn \/ UNCHANGED vars
  PROVE  /\ \A x \in ends \ ends' : x[1] = Parent
         /\ \A n : <<Parent, In(n), "w">> \in ends \ ends' =>
              In(n) = In(process[h].no) /\ (JoinCall(h) \/ Destroy(h))
<1>1. CASE JoinCall(h)
  <2>1. ends' = ends \/ ends' = ends \ {<<Parent, In(process[h].no), "w">>}
    BY <1>1 DEF JoinCall, CloseStdin
  <2>2. QED
    BY <1>1, <2>1
<1>2. CASE Destroy(h)
  <2> DEFINE outs == {<<Parent, p, "r">> : p \in Outputs(process[h].no, process[h].combined)}
  <2>1. ends' = ends \ (outs \cup {<<Parent, In(process[h].no), "w">>})
    BY <1>2 DEF Destroy
  <2>2. \A x \in outs : x[1] = Parent /\ x[3] = "r"
    OBVIOUS
  <2>3. \A n : <<Parent, In(n), "w">> \notin outs
    BY <2>2
  <2> HIDE DEF outs
  <2>4. QED
    BY <1>2, <2>1, <2>2, <2>3
<1>3. CASE CreateReturn
  <2> DEFINE n0 == process[current].no
             outs == {<<Parent, p, "w">> : p \in Outputs(n0, process[current].combined)}
  <2>1. \/ ends' = ends
        \/ ends' = ends \ ({<<Parent, In(n0), "r">>} \cup outs)
    BY <1>3 DEF CreateReturn, ParentCloses
  <2>2. \A x \in outs : x[1] = Parent /\ \A n : x[2] # In(n)
    BY OutputsApart
  <2>3. \A n : <<Parent, In(n), "w">> \notin outs
    BY <2>2
  <2>4. <<Parent, In(n0), "r">>[1] = Parent
    OBVIOUS
  <2>5. \A n : <<Parent, In(n), "w">> # <<Parent, In(n0), "r">>
    OBVIOUS
  <2> HIDE DEF outs, n0
  <2>6. QED
    BY <2>1, <2>2, <2>3, <2>4, <2>5
<1>4. CASE ends \subseteq ends'
  BY <1>4
<1>5. QED
  BY <1>1, <1>2, <1>3, <1>4 DEF CreateFails, Write, Flush, Read, JoinReturn, vars

\* The input that is flushed or written to is none of a create to come.
LEMMA InputsBelow ==
  ASSUME OwnInv, NEW h \in Opened, NEW n \in 1..MaxCreates, n > creates
  PROVE  In(n) \in Pipes \ {In(process[h].no)}
<1>1. process[h].no \in 1..MaxCreates /\ process[h].no <= creates
  BY NumberTyped
<1>2. n # process[h].no
  BY <1>1, BoundsAssumption DEF OwnInv, TypeInv, TypeOK
<1>3. In(n) \in Pipes
  BY DEF In, Pipes, Streams
<1>4. QED
  BY <1>2, <1>3, InputsApart

\* Whatever the parent does with its files between two creates, nothing of what it wrote is
\* lost on the way to a child that may still read it.
LEMMA InputParent ==
  ASSUME OwnInv, InputInv, NEW h \in Handles,
         \/ \E made \in Made : CreateFails(h, made)
         \/ Write(h) \/ Flush(h) \/ Read(h) \/ JoinCall(h) \/ Destroy(h)
         \/ CreateReturn \/ JoinReturn \/ UNCHANGED vars
  PROVE  InputInv'
<1>1. /\ Alive' = Alive
      /\ \A j \in Pids : kids'[j] = kids[j] \/ (j \notin Alive /\ kids'[j] = NoKid)
  BY ParentStepShape
<1>2. \A g \in Handles : process'[g].no # 0 =>
        process'[g].no = process[g].no /\ (process'[g].stdin => process[g].stdin)
  BY ParentHandles
<1>3. \/ Write(h)
      \/ h \in Opened /\ process[h].stdin /\ Flushed(In(process[h].no)) /\ written' = written
      \/ UNCHANGED <<buffer, arrived, written>>
  BY ParentData
<1>4. /\ TypeInv /\ creates \in Int /\ creates' \in Int /\ creates' >= creates
      /\ buffer \in [Pipes -> Nat] /\ arrived \in [Pipes -> Nat] /\ written \in [Pipes -> Nat]
  BY BoundsAssumption DEF OwnInv, TypeInv, TypeOK, CreateFails, Write, Flush, Read, JoinCall,
     Destroy, CreateReturn, JoinReturn, vars
<1>5. NothingCopied'
  <2>1. NoKid.copy = NoCopy
    BY DEF NoKid
  <2>2. QED
    BY <1>1, <2>1 DEF InputInv, NothingCopied
<1>6. Feeds'
  <2>1. \A k \in Alive : LET q == In(kids[k].no) IN arrived'[q] + buffer'[q] = written'[q]
    <3>1. CASE Write(h)
      <4>1. h \in Opened /\ arrived' = arrived
        BY <3>1 DEF Write
      <4> DEFINE p == In(process[h].no)
      <4>2. p \in Pipes
        BY <4>1, NumberTyped
      <4>3. /\ written'[p] = written[p] + 1 /\ buffer'[p] = buffer[p] + 1
            /\ \A q \in Pipes \ {p} : written'[q] = written[q] /\ buffer'[q] = buffer[q]
        BY <1>4, <3>1, <4>2 DEF Write
      <4> HIDE DEF p
      <4>4. SUFFICES ASSUME NEW q \in Pipes, arrived[q] + buffer[q] = written[q]
                     PROVE  arrived'[q] + buffer'[q] = written'[q]
        BY <1>4, AliveTyped DEF InputInv, Feeds
      <4>5. arrived[q] \in Nat /\ buffer[q] \in Nat /\ written[q] \in Nat
        BY <1>4
      <4>6. QED
        BY <4>1, <4>3, <4>4, <4>5
    <3>2. CASE h \in Opened /\ Flushed(In(process[h].no)) /\ written' = written
      BY <1>4, <3>2, NumberTyped, FlushedFeeds DEF InputInv
    <3>3. CASE UNCHANGED <<buffer, arrived, written>>
      BY <3>3 DEF InputInv, Feeds
    <3>4. QED
      BY <1>3, <3>1, <3>2, <3>3
  <2>2. \A k \in Alive : <<k, In(kids[k].no), "r">> \in ends'
    <3> TAKE k \in Alive
    <3> DEFINE x == <<k, In(kids[k].no), "r">>
    <3>1. x \in ends /\ x[1] # Parent
      BY ProcessesAssumption DEF InputInv, Feeds, Alive
    <3> HIDE DEF x
    <3>2. x \in ends'
      BY <3>1, ParentCloseEnds
    <3>3. QED
      BY <3>2 DEF x
  <2>3. \A k \in Alive : kids'[k] = kids[k]
    BY <1>1 DEF Alive
  <2>4. QED
    BY <1>1, <2>1, <2>2, <2>3 DEF Feeds
<1>7. BufferHeld'
  <2> SUFFICES ASSUME NEW p \in Pipes, buffer'[p] # 0
               PROVE  \E g \in Opened' : process'[g].stdin /\ p = In(process'[g].no)
    BY DEF BufferHeld
  <2>1. ASSUME buffer[p] # 0, Flushed(In(process[h].no)) /\ h \in Opened => p # In(process[h].no)
        PROVE  \E g \in Opened' : process'[g].stdin /\ p = In(process'[g].no)
    <3>1. PICK g \in Opened : process[g].stdin /\ p = In(process[g].no)
      BY <2>1 DEF InputInv, BufferHeld
    <3>2. process'[g].no = process[g].no /\ process'[g].stdin
      BY <2>1, <3>1, ParentStdin
    <3>3. g \in Opened'
      BY <3>2 DEF Opened
    <3>4. QED
      BY <3>1, <3>2, <3>3
  <2>2. CASE Write(h)
    <3>1. h \in Opened' /\ process' = process /\ process[h].stdin
      BY <2>2 DEF Write, Opened
    <3>2. CASE p = In(process[h].no)
      BY <3>1, <3>2
    <3>3. CASE p # In(process[h].no)
      <4>1. buffer'[p] = buffer[p]
        BY <1>4, <2>2, <3>3 DEF Write
      <4>2. QED
        BY <2>1, <3>3, <4>1
    <3>4. QED
      BY <3>2, <3>3
  <2>3. CASE h \in Opened /\ Flushed(In(process[h].no)) /\ written' = written
    <3>1. In(process[h].no) \in Pipes
      BY <2>3, NumberTyped
    <3>2. buffer[p] # 0 /\ p # In(process[h].no)
      BY <1>4, <2>3, <3>1, FlushedFeeds DEF InputInv
    <3>3. QED
      BY <2>1, <3>2
  <2>4. CASE UNCHANGED <<buffer, arrived, written>>
    <3>1. buffer[p] # 0
      BY <2>4
    <3>2. Flushed(In(process[h].no)) /\ h \in Opened => buffer'[In(process[h].no)] = 0
      BY <1>4, NumberTyped DEF Flushed
    <3>3. QED
      BY <2>1, <3>1, <3>2
  <2>5. QED
    BY <1>3, <2>2, <2>3, <2>4
<1>8. StdinOpen'
  <2> SUFFICES ASSUME NEW g \in Opened', process'[g].stdin
               PROVE  <<Parent, In(process'[g].no), "w">> \in ends'
    BY DEF StdinOpen
  <2>1. g \in Opened /\ process[g].stdin /\ process'[g].no = process[g].no
    BY <1>2 DEF Opened
  <2>2. <<Parent, In(process[g].no), "w">> \in ends
    BY <2>1 DEF InputInv, StdinOpen
  <2>3. SUFFICES ASSUME <<Parent, In(process[g].no), "w">> \notin ends' PROVE FALSE
    BY <2>1
  <2>4. In(process[g].no) = In(process[h].no) /\ (JoinCall(h) \/ Destroy(h))
    BY <2>2, <2>3, ParentCloseEnds
  <2>5. g = h
    <3>1. process[g].no = process[h].no /\ h \in Opened
      BY <2>4, InputsApart DEF JoinCall, Destroy
    <3>2. QED
      BY <2>1, <3>1 DEF OwnInv, Numbered
  <2>6. process \in [Handles -> Processes]
    BY <1>4 DEF TypeInv, TypeOK
  <2>7. CASE JoinCall(h)
    <3>1. process' = [process EXCEPT ![h] = [process[h] EXCEPT !.stdin = FALSE]]
      BY <2>7 DEF JoinCall
    <3>2. process[h] \in Processes /\ process'[h] = [process[h] EXCEPT !.stdin = FALSE]
      BY <2>6, <3>1
    <3>3. process'[h].stdin = FALSE
      BY <3>2, ProcessKeepsMore
    <3>4. QED
      BY <2>5, <3>3
  <2>8. CASE Destroy(h)
    BY <2>5, <2>6, <2>8 DEF Destroy, Opened, NoProcess
  <2>9. QED
    BY <2>4, <2>7, <2>8
<1>9. Fresh'
  <2> SUFFICES ASSUME NEW n \in 1..MaxCreates, n > creates'
               PROVE  arrived'[In(n)] = 0 /\ written'[In(n)] = 0
    BY DEF Fresh
  <2>1. n > creates
    BY <1>4
  <2>2. arrived[In(n)] = 0 /\ written[In(n)] = 0
    BY <2>1 DEF InputInv, Fresh
  <2>3. CASE Write(h)
    <3>1. h \in Opened /\ arrived' = arrived
      BY <2>3 DEF Write
    <3>2. In(n) \in Pipes \ {In(process[h].no)}
      BY <2>1, <3>1, InputsBelow
    <3>3. written'[In(n)] = written[In(n)]
      BY <1>4, <2>3, <3>2 DEF Write
    <3>4. QED
      BY <2>2, <3>1, <3>3
  <2>4. CASE h \in Opened /\ Flushed(In(process[h].no)) /\ written' = written
    <3>1. In(n) \in Pipes \ {In(process[h].no)} /\ In(process[h].no) \in Pipes
      BY <2>1, <2>4, InputsBelow, NumberTyped
    <3>2. arrived'[In(n)] = arrived[In(n)]
      BY <1>4, <2>4, <3>1, FlushedFeeds DEF InputInv
    <3>3. QED
      BY <2>2, <2>4, <3>2
  <2>5. CASE UNCHANGED <<buffer, arrived, written>>
    BY <2>2, <2>5
  <2>6. QED
    BY <1>3, <2>3, <2>4, <2>5
<1>10. QED
  BY <1>5, <1>6, <1>7, <1>8, <1>9 DEF InputInv

\* smd_proc.h:174-175: what is written into the stdin file of a process is what its child is
\* fed, once, and all of it by the time its input ends, whatever else was created, joined or
\* destroyed meanwhile; of a program that flushes its files before it creates a child.  Of one
\* that does not, the run process_input shows the opposite.
THEOREM ChildrenAreFedIntact ==
  ASSUME FlushesFirst
  PROVE  Spec => []InputIntact
<1>1. Init => InputInv
  <2> SUFFICES ASSUME Init PROVE InputInv
    OBVIOUS
  <2>1. Alive = {} /\ Opened = {}
    BY DEF Init, Alive, Opened, NoKid, NoProcess
  <2>2. NothingCopied
    BY DEF Init, NothingCopied, NoKid
  <2>3. \A p \in Pipes : buffer[p] = 0 /\ arrived[p] = 0 /\ written[p] = 0
    BY DEF Init, NoCopy
  <2>4. \A n \in 1..MaxCreates : In(n) \in Pipes
    BY DEF In, Pipes, Streams
  <2>5. QED
    BY <2>1, <2>2, <2>3, <2>4 DEF InputInv, Feeds, BufferHeld, StdinOpen, Fresh
<1>2. OwnInv /\ InputInv /\ [Next]_vars => InputInv'
  <2> SUFFICES ASSUME OwnInv, InputInv, [Next]_vars PROVE InputInv'
    OBVIOUS
  <2>1. TypeOK
    BY DEF OwnInv, TypeInv
  <2>2. QED
    BY <2>1, StepCases, InputForked, InputParent, InputKid
<1>3. OwnInv /\ InputInv => InputIntact
  <2> SUFFICES ASSUME OwnInv, InputInv, NEW k \in Alive
               PROVE  LET p == In(kids[k].no) IN
                      /\ arrived[p] <= written[p]
                      /\ Having(p, "w") = {} => arrived[p] = written[p]
    BY DEF InputIntact
  <2> DEFINE p == In(kids[k].no)
  <2>1. p \in Pipes /\ arrived[p] + buffer[p] = written[p]
    BY AliveTyped DEF OwnInv, InputInv, Feeds
  <2>2. arrived[p] \in Nat /\ buffer[p] \in Nat /\ written[p] \in Nat
    BY <2>1 DEF OwnInv, TypeInv, TypeOK
  <2>3. buffer[p] # 0 => Parent \in Having(p, "w")
    BY <2>1 DEF InputInv, BufferHeld, StdinOpen, Having
  <2> HIDE DEF p
  <2>4. arrived[p] <= written[p] /\ (Having(p, "w") = {} => arrived[p] = written[p])
    BY <2>1, <2>2, <2>3
  <2>5. QED
    BY <2>4 DEF p
<1>4. QED
  BY <1>1, <1>2, <1>3, OwnInvInit, OwnInvNext, PTL DEF Spec

-----------------------------------------------------------------------------
(* What a join waits for *)

\* The ends are of creates so far.
EndsMade == \A x \in ends : x[2][1] <= creates

\* So are the children, no two of the same create.
KidsApart ==
  /\ \A k \in Alive : kids[k].no <= creates
  /\ \A j, k \in Alive : kids[j].no = kids[k].no => j = k

\* A child that can write into the input of a create was forked by a later one, or is that
\* input's own reader and has not come to closing its copy; on Windows there is none.
InputWriters ==
  \A n \in 1..MaxCreates : \A o \in Pids :
    <<o, In(n), "w">> \in ends =>
      posix /\ (kids[o].no > n \/ (kids[o].no = n /\ kids[o].state = "forked"))

\* The parent can write into an input as long as stdin is open, and waits without.
ParentFeeds ==
  /\ \A h \in Opened : <<Parent, In(process[h].no), "w">> \in ends => process[h].stdin
  /\ at = "waiting" => ~process[current].stdin

JoinInv == EndsMade /\ KidsApart /\ InputWriters /\ ParentFeeds

\* What the new child inherits: no end of a create to come, and on Windows no write end of
\* an input.
LEMMA ForkInherits ==
  ASSUME TypeInv, EndsMade, NEW h \in Handles, NEW c \in BOOLEAN, NEW program \in Programs,
         Forks(h, c, program), NEW k \in Pids, Born(h, c, k)
  PROVE  /\ posix => kids'[k].state = "forked"
         /\ \A x \in ends' \ ends :
              /\ x[2][1] <= creates + 1
              /\ x[1] = k /\ x[2][2] = "in" /\ x[3] = "w" => posix
<1> DEFINE streams == IF c THEN {"in", "out"} ELSE Streams
           mine == EndsOf(Parent) \cup New(Parent, streams)
           copies(j) == {<<j, x[2], x[3]>> : x \in {y \in mine : Inherited(y)}}
<1>1. PICK j \in Pids :
        /\ kids' = [kids EXCEPT ![j] =
             [state |-> IF posix THEN "forked" ELSE "running", program |-> program,
              no |-> creates + 1, combined |-> c, on |-> "in",
              copy |-> IF posix THEN buffer ELSE NoCopy]]
        /\ ends' = ends \cup mine \cup copies(j)
  BY DEF Forks
<1>2. kids \in [Pids -> Kids] /\ creates \in Int
  BY BoundsAssumption DEF TypeInv, TypeOK
<1>3. k = j
  <2>1. SUFFICES ASSUME k # j PROVE FALSE
    OBVIOUS
  <2>2. kids'[k] = kids[k]
    BY <1>1, <1>2, <2>1
  <2>3. QED
    BY <2>2 DEF Born, Alive
<1>4. posix => kids'[k].state = "forked"
  BY <1>1, <1>2, <1>3
<1>5. \A x \in mine : x[2][1] <= creates + 1 /\ (x \notin ends => x[1] = Parent)
  <2>1. \A x \in EndsOf(Parent) : x \in ends /\ x[2][1] <= creates
    BY DEF EndsOf, EndsMade
  <2>2. \A x \in EndsOf(Parent) : x[2][1] \in Int
    <3>1. \A x \in Ends : x[2][1] \in Int
      BY BoundsAssumption DEF Ends, Pipes
    <3>2. QED
      BY <3>1 DEF EndsOf, TypeInv, TypeOK
  <2>3. \A x \in New(Parent, streams) : x[1] = Parent /\ x[2][1] = creates + 1
    <3> HIDE DEF streams
    <3>1. QED
      BY DEF New
  <2> HIDE DEF streams
  <2>4. \A x \in EndsOf(Parent) : x[2][1] <= creates + 1
    BY <1>2, <2>1, <2>2
  <2>5. creates + 1 <= creates + 1
    BY <1>2
  <2>6. QED
    BY <2>1, <2>3, <2>4, <2>5
<1> HIDE DEF mine
<1>6. \A x \in copies(k) : /\ x[2][1] <= creates + 1
                           /\ x[2][2] = "in" /\ x[3] = "w" => posix
  <2> SUFFICES ASSUME NEW y \in mine, Inherited(y)
               PROVE  /\ <<k, y[2], y[3]>>[2][1] <= creates + 1
                      /\ <<k, y[2], y[3]>>[2][2] = "in" /\ <<k, y[2], y[3]>>[3] = "w" => posix
    OBVIOUS
  <2>1. y[2][1] <= creates + 1
    BY <1>5
  <2>2. y[2][2] = "in" /\ y[3] = "w" => posix
    BY DEF Inherited
  <2>3. QED
    BY <2>1, <2>2
<1>7. k # Parent
  BY ProcessesAssumption
<1> HIDE DEF copies
<1>8. QED
  BY <1>1, <1>3, <1>4, <1>5, <1>6, <1>7

\* A fork gives write ends of inputs to a child later than they are.
LEMMA JoinForked ==
  ASSUME OwnInv, WritersInv, JoinInv, NEW h \in Handles, NEW c \in BOOLEAN,
         NEW program \in Programs, Forks(h, c, program)
  PROVE  JoinInv'
<1>1. PICK k \in Pids : Born(h, c, k)
  BY ForkShape DEF OwnInv
<1>2. /\ posix => kids'[k].state = "forked"
      /\ \A x \in ends' \ ends : /\ x[2][1] <= creates + 1
                                 /\ x[1] = k /\ x[2][2] = "in" /\ x[3] = "w" => posix
  BY <1>1, ForkInherits DEF OwnInv, JoinInv
<1>3. creates' = creates + 1 /\ posix' = posix /\ at' = "forked"
  BY DEF Forks
<1>4. creates \in Int /\ ends \subseteq Ends /\ kids \in [Pids -> Kids]
  BY BoundsAssumption DEF OwnInv, TypeInv, TypeOK
<1>5. EndsMade'
  <2>1. \A x \in Ends : x[2][1] \in Int
    BY BoundsAssumption DEF Ends, Pipes
  <2>2. QED
    BY <1>2, <1>3, <1>4, <2>1 DEF JoinInv, EndsMade
<1>6. /\ kids'[k].no = creates + 1
      /\ \A j \in Alive' \ {k} : j \in Alive /\ kids'[j] = kids[j]
  BY <1>1 DEF Born, Alive
<1>7. \A j \in Alive : kids[j].no \in Int /\ kids[j].no <= creates
  BY <1>4, KidFields, BoundsAssumption DEF JoinInv, KidsApart, Alive
<1>8. KidsApart'
  <2>1. \A j \in Alive' \ {k} : kids'[j].no \in Int /\ kids'[j].no <= creates
    BY <1>6, <1>7
  <2>2. \A j \in Alive' : kids'[j].no <= creates'
    BY <1>3, <1>4, <1>6, <2>1
  <2>3. \A j \in Alive' \ {k} : kids'[j].no # kids'[k].no
    BY <1>4, <1>6, <2>1
  <2>4. \A i, j \in Alive' \ {k} : kids'[i].no = kids'[j].no => i = j
    BY <1>6 DEF JoinInv, KidsApart
  <2>5. QED
    BY <2>2, <2>3, <2>4 DEF KidsApart
<1>9. InputWriters'
  <2> SUFFICES ASSUME NEW n \in 1..MaxCreates, NEW o \in Pids, <<o, In(n), "w">> \in ends'
               PROVE  posix /\ (\/ kids'[o].no > n
                                \/ kids'[o].no = n /\ kids'[o].state = "forked")
    BY <1>3 DEF InputWriters
  <2> DEFINE x == <<o, In(n), "w">>
  <2>1. x \in ends' /\ x[1] = o /\ x[2] = In(n) /\ x[3] = "w"
    OBVIOUS
  <2>2. In(n)[1] = n /\ In(n)[2] = "in"
    BY DEF In
  <2>3. x \in ends => o \in Alive
    <3>1. o # Parent
      BY ProcessesAssumption
    <3> HIDE DEF x
    <3>2. QED
      BY <2>1, <3>1 DEF WritersInv, DeadHaveNothing
  <2>4. CASE x \in ends
    <3>1. o # k /\ kids'[o] = kids[o]
      BY <1>1, <2>3, <2>4 DEF Born
    <3>2. QED
      BY <2>4, <3>1 DEF JoinInv, InputWriters
  <2>5. CASE x \notin ends
    <3>1. o # Parent
      BY ProcessesAssumption
    <3> HIDE DEF x
    <3>2. o = k
      BY <1>1, <2>1, <2>5, <3>1 DEF Born
    <3>3. n <= creates + 1 /\ posix
      BY <1>2, <2>1, <2>2, <2>5, <3>2
    <3>4. kids'[k].state = "forked"
      BY <1>2, <3>3
    <3>5. QED
      BY <1>4, <1>6, <3>2, <3>3, <3>4
  <2>6. QED
    BY <2>4, <2>5
<1>10. ParentFeeds'
  <2> SUFFICES ASSUME NEW g \in Opened', <<Parent, In(process'[g].no), "w">> \in ends'
               PROVE  process'[g].stdin
    BY <1>3 DEF ParentFeeds
  <2>1. CASE g = h
    BY <1>1, <2>1 DEF Born
  <2>2. CASE g # h
    <3>1. g \in Opened /\ process'[g] = process[g]
      BY <1>1, <2>2 DEF Born, Opened
    <3> DEFINE x == <<Parent, In(process[g].no), "w">>
    <3>2. x \in ends' /\ x[1] = Parent /\ x[2][1] = process[g].no
      BY <3>1 DEF In
    <3>3. process[g].no # creates + 1 /\ k # Parent
      BY <1>4, <3>1, NumberTyped, ProcessesAssumption
    <3> HIDE DEF x
    <3>4. x \in ends
      BY <1>1, <3>2, <3>3 DEF Born
    <3>5. QED
      BY <3>1, <3>4 DEF JoinInv, ParentFeeds, x
  <2>3. QED
    BY <2>1, <2>2
<1>11. QED
  BY <1>5, <1>8, <1>9, <1>10 DEF JoinInv

\* Nothing else the parent does gives a child anything, and it closes its own write end of an
\* input before it waits.
LEMMA JoinParent ==
  ASSUME OwnInv, WritersInv, JoinInv, NEW h \in Handles,
         \/ \E made \in Made : CreateFails(h, made)
         \/ Write(h) \/ Flush(h) \/ Read(h) \/ JoinCall(h) \/ Destroy(h)
         \/ CreateReturn \/ JoinReturn \/ UNCHANGED vars
  PROVE  JoinInv'
<1>1. /\ Alive' = Alive /\ posix' = posix
      /\ \A j \in Pids : kids'[j] = kids[j] \/ (j \notin Alive /\ kids'[j] = NoKid)
  BY ParentStepShape
<1>2. \A x \in ends' : \/ x \in ends
                       \/ /\ at = "idle" /\ creates' = creates + 1
                          /\ x[1] = Parent /\ x[2][1] = creates + 1
  BY ParentEnds
<1>3. \A j \in Alive : kids'[j] = kids[j]
  BY <1>1 DEF Alive
<1>4. creates \in Int /\ creates' \in Int /\ creates' >= creates /\ ends \subseteq Ends
  BY BoundsAssumption DEF OwnInv, TypeInv, TypeOK, CreateFails, Write, Flush, Read, JoinCall,
     Destroy, CreateReturn, JoinReturn, vars
<1>5. EndsMade'
  <2>1. \A x \in Ends : x[2][1] \in Int
    BY BoundsAssumption DEF Ends, Pipes
  <2>2. QED
    BY <1>2, <1>4, <2>1 DEF JoinInv, EndsMade
<1>6. KidsApart'
  <2>1. \A j \in Alive : kids[j].no \in Int
    BY KidFields, BoundsAssumption DEF OwnInv, TypeInv, TypeOK, Alive
  <2>2. QED
    BY <1>1, <1>3, <1>4, <2>1 DEF JoinInv, KidsApart
<1>7. InputWriters'
  <2> SUFFICES ASSUME NEW n \in 1..MaxCreates, NEW o \in Pids, <<o, In(n), "w">> \in ends'
               PROVE  posix /\ (\/ kids'[o].no > n
                                \/ kids'[o].no = n /\ kids'[o].state = "forked")
    BY <1>1 DEF InputWriters
  <2> DEFINE x == <<o, In(n), "w">>
  <2>1. x \in ends' /\ x[1] = o /\ o # Parent
    BY ProcessesAssumption
  <2> HIDE DEF x
  <2>2. x \in ends /\ o \in Alive
    BY <1>2, <2>1 DEF WritersInv, DeadHaveNothing
  <2>3. QED
    BY <1>3, <2>2 DEF JoinInv, InputWriters, x
<1>8. ParentFeeds'
  <2>1. ASSUME NEW g \in Opened', <<Parent, In(process'[g].no), "w">> \in ends'
        PROVE  process'[g].stdin
    <3>1. g \in Opened /\ process'[g].no = process[g].no
      BY ParentHandles DEF Opened
    <3> DEFINE x == <<Parent, In(process[g].no), "w">>
    <3>2. x \in ends' /\ x[2][1] = process[g].no
      BY <2>1, <3>1 DEF In
    <3>3. process[g].no # creates + 1
      BY <1>4, <3>1, NumberTyped
    <3> HIDE DEF x
    <3>4. x \in ends
      BY <1>2, <3>2, <3>3
    <3>5. process[g].stdin
      BY <3>1, <3>4 DEF JoinInv, ParentFeeds, x
    <3>6. QED
      BY <3>1, <3>2, <3>5, ParentStdin DEF x
  <2>2. ASSUME at' = "waiting" PROVE ~process'[current'].stdin
    <3>1. CASE JoinCall(h)
      <4>1. /\ process' = [process EXCEPT ![h] = [process[h] EXCEPT !.stdin = FALSE]]
            /\ current' = h
        BY <3>1 DEF JoinCall
      <4>2. process[h] \in Processes /\ process'[h] = [process[h] EXCEPT !.stdin = FALSE]
        BY <4>1 DEF OwnInv, TypeInv, TypeOK
      <4>3. process'[h].stdin = FALSE
        BY <4>2, ProcessKeepsMore
      <4>4. QED
        BY <4>1, <4>3
    <3>2. CASE UNCHANGED vars
      BY <2>2, <3>2 DEF vars, JoinInv, ParentFeeds
    <3>3. QED
      BY <2>2, <3>1, <3>2 DEF CreateFails, MayCreate, Write, Flush, Read, Destroy,
         CreateReturn, JoinReturn
  <2>3. QED
    BY <2>1, <2>2 DEF ParentFeeds
<1>9. QED
  BY <1>5, <1>6, <1>7, <1>8 DEF JoinInv

\* A child that goes on from the fork closes the write end of its own input.
LEMMA JoinKid ==
  ASSUME OwnInv, WritersInv, JoinInv, NEW k \in Pids, KidStep(k)
  PROVE  JoinInv'
<1>1. /\ k \in Alive
      /\ \A j \in Pids \ {k} : kids'[j] = kids[j]
      /\ UNCHANGED <<posix, process, at, current, creates>>
      /\ GoesOn(k) \/ Exits(k)
  BY KidStepShape DEF OwnInv
<1>2. ends' \subseteq ends
  BY <1>1 DEF GoesOn, Exits
<1>3. \A j \in Alive' : j \in Alive /\ kids'[j].no = kids[j].no
  <2> TAKE j \in Alive'
  <2>1. CASE j = k
    BY <1>1, <2>1 DEF GoesOn, Exits
  <2>2. CASE j # k
    BY <1>1, <2>2 DEF Alive
  <2>3. QED
    BY <2>1, <2>2
<1>4. EndsMade'
  BY <1>1, <1>2 DEF JoinInv, EndsMade
<1>5. KidsApart'
  BY <1>1, <1>3 DEF JoinInv, KidsApart
<1>6. InputWriters'
  <2> SUFFICES ASSUME NEW n \in 1..MaxCreates, NEW o \in Pids, <<o, In(n), "w">> \in ends'
               PROVE  posix /\ (\/ kids'[o].no > n
                                \/ kids'[o].no = n /\ kids'[o].state = "forked")
    BY <1>1 DEF InputWriters
  <2>1. posix /\ (kids[o].no > n \/ (kids[o].no = n /\ kids[o].state = "forked"))
    BY <1>2 DEF JoinInv, InputWriters
  <2>2. CASE o # k
    BY <1>1, <2>1, <2>2
  <2>3. CASE o = k
    <3>1. ~Exits(k)
      <4>1. <<k, In(n), "w">>[1] = k
        OBVIOUS
      <4>2. QED
        BY <2>3, <4>1 DEF Exits, EndsOf
    <3>2. kids'[k].no = kids[k].no
      BY <1>1, <3>1 DEF GoesOn
    <3>3. ~(kids[k].no = n /\ kids[k].state = "forked")
      <4>1. SUFFICES ASSUME kids[k].no = n, kids[k].state = "forked" PROVE FALSE
        OBVIOUS
      <4>2. KidSide(k)
        BY <4>1 DEF KidStep, ExecFails, KidFills, KidExits
      <4>3. <<k, In(n), "w">> \notin ends'
        BY <4>1, <4>2 DEF KidSide, KidCloses
      <4>4. QED
        BY <2>3, <4>3
    <3>4. QED
      BY <2>1, <2>3, <3>2, <3>3
  <2>4. QED
    BY <2>2, <2>3
<1>7. ParentFeeds'
  BY <1>1, <1>2 DEF JoinInv, ParentFeeds, Opened
<1>8. QED
  BY <1>4, <1>5, <1>6, <1>7 DEF JoinInv

\* The input of a child that runs and is waited for has ended, unless on POSIX a child
\* created later is still there.
JoinedInputEnded ==
  /\ at = "waiting" /\ kids[process[current].pid].state = "running"
  /\ posix => \A k \in Alive : kids[k].no <= process[current].no
  => Having(In(process[current].no), "w") = {}

\* smd_proc.h:201, 488-491: what JoinReturns rests on, in every reachable state, with any
\* number of children and whatever their programs: by the time process_join waits, nobody
\* but a child created later can keep the input of the one it waits for from ending.
THEOREM JoinWaitsForNoOther == Spec => []JoinedInputEnded
<1>1. Init => WritersInv /\ JoinInv
  BY DEF Init, WritersInv, DeadHaveNothing, ParentWrites, JoinInv, EndsMade, KidsApart, Alive,
     InputWriters, ParentFeeds, NoKid, Opened, NoProcess
<1>2. OwnInv /\ WritersInv /\ JoinInv /\ [Next]_vars => (WritersInv /\ JoinInv)'
  <2> SUFFICES ASSUME OwnInv, WritersInv, JoinInv, [Next]_vars PROVE (WritersInv /\ JoinInv)'
    OBVIOUS
  <2>1. TypeOK
    BY DEF OwnInv, TypeInv
  <2>2. WritersInv'
    BY <2>1, StepCases, WritersForked, WritersParent, WritersKid
  <2>3. JoinInv'
    BY <2>1, StepCases, JoinForked, JoinParent, JoinKid
  <2>4. QED
    BY <2>2, <2>3
<1>3. OwnInv /\ WritersInv /\ JoinInv => JoinedInputEnded
  <2> SUFFICES ASSUME OwnInv, WritersInv, JoinInv, at = "waiting",
                      kids[process[current].pid].state = "running",
                      posix => \A k \in Alive : kids[k].no <= process[current].no,
                      NEW o \in Pids \cup {Parent},
                      <<o, In(process[current].no), "w">> \in ends
               PROVE  FALSE
    BY DEF JoinedInputEnded, Having
  <2>1. current \in Opened /\ ~process[current].joined
    BY DEF OwnInv, WaitsForOpened
  <2>2. process[current].no \in 1..MaxCreates
    BY <2>1, NumberTyped
  <2>3. o # Parent
    BY <2>1 DEF JoinInv, ParentFeeds
  <2>4. /\ posix
        /\ \/ kids[o].no > process[current].no
           \/ kids[o].no = process[current].no /\ kids[o].state = "forked"
    BY <2>2, <2>3 DEF JoinInv, InputWriters
  <2>5. o \in Alive
    <3>1. <<o, In(process[current].no), "w">>[1] = o
      OBVIOUS
    <3>2. QED
      BY <2>3, <3>1 DEF WritersInv, DeadHaveNothing
  <2>6. kids[o].no = process[current].no /\ kids[o].state = "forked"
    <3>1. kids[o].no \in Int /\ process[current].no \in Int
      BY <2>2, <2>5, AliveTyped DEF OwnInv
    <3>2. kids[o].no <= process[current].no
      BY <2>4, <2>5
    <3>3. QED
      BY <2>4, <3>1, <3>2
  <2>7. OwnsChild(current)
    BY <2>1 DEF OwnInv, Owned, MayWait, Opened
  <2>8. process[current].pid \in Alive
    BY <2>7 DEF OwnsChild, Alive
  <2>9. o = process[current].pid
    BY <2>5, <2>6, <2>7, <2>8 DEF OwnsChild, JoinInv, KidsApart
  <2>10. QED
    BY <2>6, <2>9
<1>4. QED
  BY <1>1, <1>2, <1>3, OwnInvInit, OwnInvNext, PTL DEF Spec
=============================================================================
