------------------------- MODULE ThreadLifecycle_proof -------------------------
(***************************************************************************)
(* Theorems about ThreadLifecycle, for any owners, names and jobs and any  *)
(* number of threads.                                                      *)
(***************************************************************************)
EXTENDS ThreadLifecycle, TLAPS

\* Whoever has a name that is not stale has the name of its own thread.
Holds(o) ==
  \/ at[o] \in {"holding", "storing", "told", "joining", "destroying"}
  \/ ~posix /\ at[o] = "joined"

HolderHasName ==
  \A o \in Owners :
    /\ Holds(o) \/ at[o] = "joined" => handle[o] \in Names
    /\ at[o] # "idle" => signal[o] # "terminated"

HolderHasThread ==
  \A o \in Owners :
    Holds(o) /\ handle[o] \notin stale =>
      os[handle[o]] # Free /\ os[handle[o]].owner = o

ThreadHasHolder ==
  \A n \in Names \ stale :
    os[n] # Free =>
      /\ Holds(os[n].owner) /\ handle[os[n].owner] = n
      /\ mine[os[n].owner] = os[n].no

JoinerIsHolder ==
  \A n \in Names \ stale :
    os[n] # Free /\ os[n].joiner # Null =>
      posix /\ at[os[n].owner] \in {"joining", "destroying"}

IInv ==
  /\ TypeOK
  /\ HolderHasName /\ HolderHasThread /\ ThreadHasHolder /\ JoinerIsHolder

-----------------------------------------------------------------------------
(* Types *)

LEMMA FreeIsFree ==
  /\ Free.pc = "free" /\ Free.joiner = Null
  /\ \A r \in ThreadRecords : r # Free /\ r.owner \in Owners /\ r.owner # Null
  /\ \A r \in ThreadRecords \cup {Free} : r # Free => r \in ThreadRecords
BY NullAssumption DEF Free, ThreadRecords, Running

LEMMA RecordUpdate ==
  ASSUME NEW r \in ThreadRecords
  PROVE  /\ \A pc \in Running \cup {"exited"} : [r EXCEPT !.pc = pc] \in ThreadRecords
         /\ \A j \in Owners \cup {Null} : [r EXCEPT !.joiner = j] \in ThreadRecords
BY DEF ThreadRecords

\* What a step of a thread does to the table of the system's threads.
LEMMA MoveTypes ==
  ASSUME TypeOK, NEW n \in Names, os[n] # Free, NEW pc \in Running \cup {"exited"}, MovesTo(n, pc)
  PROVE  /\ os' \in [Names -> ThreadRecords \cup {Free}]
         /\ os'[n] = [os[n] EXCEPT !.pc = pc] /\ os'[n] \in ThreadRecords
         /\ os'[n].owner = os[n].owner /\ os'[n].no = os[n].no /\ os'[n].joiner = os[n].joiner
         /\ os'[n] # Free
         /\ \A m \in Names \ {n} : os'[m] = os[m]
<1>1. os[n] \in ThreadRecords
  BY FreeIsFree DEF TypeOK
<1>2. os' = [os EXCEPT ![n] = [os[n] EXCEPT !.pc = pc]]
  BY DEF MovesTo
<1>3. [os[n] EXCEPT !.pc = pc] \in ThreadRecords
  BY <1>1, RecordUpdate
<1>4. os'[n] = [os[n] EXCEPT !.pc = pc] /\ \A m \in Names \ {n} : os'[m] = os[m]
  BY <1>2 DEF TypeOK
<1>5. /\ [os[n] EXCEPT !.pc = pc].owner = os[n].owner
      /\ [os[n] EXCEPT !.pc = pc].no = os[n].no
      /\ [os[n] EXCEPT !.pc = pc].joiner = os[n].joiner
  BY <1>1 DEF ThreadRecords
<1>6. QED
  BY <1>2, <1>3, <1>4, <1>5, FreeIsFree DEF TypeOK

\* What the call of a join that is not refused does to it.
LEMMA RegisterTypes ==
  ASSUME TypeOK, NEW o \in Owners, handle[o] \in Names, ~Refused(o), Registers(o)
  PROVE  /\ os' \in [Names -> ThreadRecords \cup {Free}]
         /\ \A m \in Names \ {handle[o]} : os'[m] = os[m]
         /\ \A m \in Names :
              /\ os'[m] = Free <=> os[m] = Free
              /\ os'[m].owner = os[m].owner /\ os'[m].no = os[m].no
<1> DEFINE n == handle[o]
<1>1. CASE ~posix
  BY <1>1 DEF Registers, TypeOK
<1>2. CASE posix
  <2>1. os[n] # Free /\ os[n] \in ThreadRecords
    BY <1>2, FreeIsFree DEF Refused, TypeOK
  <2>2. os' = [os EXCEPT ![n] = [os[n] EXCEPT !.joiner = o]]
    BY <1>2 DEF Registers
  <2>3. [os[n] EXCEPT !.joiner = o] \in ThreadRecords
    BY <2>1, RecordUpdate
  <2>4. /\ [os[n] EXCEPT !.joiner = o].owner = os[n].owner
        /\ [os[n] EXCEPT !.joiner = o].no = os[n].no
    BY <2>1 DEF ThreadRecords
  <2>5. os'[n] = [os[n] EXCEPT !.joiner = o] /\ \A m \in Names \ {n} : os'[m] = os[m]
    BY <2>2 DEF TypeOK
  <2>6. QED
    BY <2>1, <2>2, <2>3, <2>4, <2>5, FreeIsFree DEF TypeOK
<1>3. QED
  BY <1>1, <1>2

\* Every step keeps the types.
LEMMA TypeOKStep ==
  ASSUME IInv, [Next]_vars
  PROVE  TypeOK'
<1> USE DEF IInv
<1>1. CASE UNCHANGED vars
  BY <1>1 DEF vars, TypeOK, shared, history
<1>2. ASSUME NEW o \in Owners, Owner(o) PROVE TypeOK'
  <2>1. CASE SetUp(o)
    BY <2>1 DEF SetUp, TypeOK, Places, shared, history
  <2>2. CASE Create(o)
    <3>1. PICK n \in Names :
            /\ os' = [os EXCEPT ![n] = [pc |-> "start", owner |-> o, no |-> created + 1,
                                        job |-> job[o], joiner |-> Null]]
            /\ handle' = [handle EXCEPT ![o] = n]
      BY <2>2 DEF Create
    <3>2. [pc |-> "start", owner |-> o, no |-> created + 1, job |-> job[o], joiner |-> Null]
            \in ThreadRecords
      BY DEF TypeOK, ThreadRecords, Running
    <3>3. os' \in [Names -> ThreadRecords \cup {Free}]
      BY <3>1, <3>2 DEF TypeOK
    <3>4. QED
      BY <2>2, <3>1, <3>3 DEF Create, TypeOK, Places, shared, history
  <2>3. CASE CreateFails(o)
    BY <2>3 DEF CreateFails, TypeOK, Places, shared, history
  <2>4. CASE StoreFlag(o) \/ ReleaseFlag(o) \/ WaitSignal(o)
    BY <2>4 DEF StoreFlag, ReleaseFlag, WaitSignal, TypeOK, Places, shared, history
  <2>5. ASSUME MayEnd(o) \/ at[o] = "joined" PROVE handle[o] \in Names
    BY <2>5 DEF MayEnd, HolderHasName, Holds
  <2>6. CASE JoinCall(o)
    <3>1. os' \in [Names -> ThreadRecords \cup {Free}]
      BY <2>5, <2>6, RegisterTypes DEF JoinCall
    <3>2. QED
      BY <2>6, <3>1 DEF JoinCall, TypeOK, Places, shared, history
  <2>7. CASE JoinRefused(o)
    BY <2>7 DEF JoinRefused, TypeOK, Places, Codes, shared, history
  <2>8. CASE JoinReturn(o) \/ DestroyReturn(o)
    <3>1. handle[o] \in Names
      BY <2>8 DEF JoinReturn, DestroyReturn, HolderHasName, Holds
    <3>2. os[handle[o]] \in ThreadRecords
      BY <2>8, <3>1, FreeIsFree DEF JoinReturn, DestroyReturn, TypeOK
    <3>3. os[handle[o]].no \in Nat
      BY <3>2 DEF ThreadRecords
    <3>4. os' \in [Names -> ThreadRecords \cup {Free}]
      BY <2>8 DEF JoinReturn, DestroyReturn, TypeOK
    <3>5. QED
      BY <2>8, <3>3, <3>4 DEF JoinReturn, DestroyReturn, TypeOK, Places, shared, history
  <2>9. CASE DestroyCall(o)
    <3>1. handle[o] \in Names
      BY <2>5, <2>9 DEF DestroyCall
    <3>2. os' \in [Names -> ThreadRecords \cup {Free}]
      BY <2>9, <3>1, RegisterTypes DEF DestroyCall, TypeOK
    <3>3. stale' \subseteq Names
      BY <2>9, <3>1 DEF DestroyCall, TypeOK
    <3>4. at' \in [Owners -> Places]
      BY <2>9 DEF DestroyCall, TypeOK, Places
    <3>5. QED
      BY <2>9, <3>2, <3>3, <3>4 DEF DestroyCall, TypeOK, shared
  <2>10. CASE TakeDown(o)
    BY <2>10 DEF TakeDown, TypeOK, Places, shared, history
  <2>11. QED
    BY <1>2, <2>1, <2>2, <2>3, <2>4, <2>6, <2>7, <2>8, <2>9, <2>10 DEF Owner, Returns
<1>3. ASSUME NEW n \in Names, Thread(n) PROVE TypeOK'
  <2>1. os[n] # Free /\ os[n] \in ThreadRecords
    BY <1>3, FreeIsFree DEF Thread, Poll, RaiseSet, RaiseNotify, Exit, TypeOK
  <2>2. PICK pc \in Running \cup {"exited"} : MovesTo(n, pc)
    BY <1>3 DEF Thread, Poll, RaiseSet, RaiseNotify, Exit, Running
  <2>3. os' \in [Names -> ThreadRecords \cup {Free}]
    BY <2>1, <2>2, MoveTypes
  <2>4. QED
    BY <1>3, <2>3 DEF Thread, Poll, RaiseSet, RaiseNotify, Exit, TypeOK, shared, history
<1>4. QED
  BY <1>1, <1>2, <1>3 DEF Next

-----------------------------------------------------------------------------
(* Who holds which thread *)

\* Steps of an owner that touch no thread and take it to a place where it
\* holds a thread if and only if it held one.
LEMMA QuietStep ==
  ASSUME IInv, NEW o \in Owners, NEW place \in Places,
         at' = [at EXCEPT ![o] = place],
         UNCHANGED <<posix, handle, os, mine, stale>>,
         Holds(o)' <=> Holds(o),
         at[o] \notin {"joining", "destroying"}
  PROVE  HolderHasThread' /\ ThreadHasHolder' /\ JoinerIsHolder'
<1>1. \A p \in Owners : Holds(p)' <=> Holds(p)
  BY DEF Holds, IInv, TypeOK
<1>2. HolderHasThread'
  BY <1>1 DEF HolderHasThread, IInv
<1>3. \A n \in Names : os[n] # Free => os[n].owner \in Owners
  BY FreeIsFree DEF IInv, TypeOK
<1>4. ThreadHasHolder'
  BY <1>1, <1>3 DEF ThreadHasHolder, IInv
<1>5. JoinerIsHolder'
  BY <1>3 DEF JoinerIsHolder, IInv, TypeOK
<1>6. QED
  BY <1>2, <1>4, <1>5

\* A step of the owner of the threads keeps what is known of each.
LEMMA OwnerStep ==
  ASSUME IInv, TypeOK', NEW o \in Owners, Owner(o)
  PROVE  HolderHasName' /\ HolderHasThread' /\ ThreadHasHolder' /\ JoinerIsHolder'
<1>0. \A n \in Names : os[n] # Free => os[n].owner \in Owners
  BY FreeIsFree DEF IInv, TypeOK
<1>1. CASE SetUp(o) \/ StoreFlag(o) \/ ReleaseFlag(o) \/ WaitSignal(o)
  <2>1. HolderHasName'
    BY <1>1 DEF SetUp, StoreFlag, ReleaseFlag, WaitSignal, IInv, TypeOK, HolderHasName, Holds
  <2>2. PICK place \in Places : at' = [at EXCEPT ![o] = place]
    BY <1>1 DEF SetUp, StoreFlag, ReleaseFlag, WaitSignal, Places
  <2>3. (Holds(o)' <=> Holds(o)) /\ at[o] \notin {"joining", "destroying"}
    BY <1>1 DEF SetUp, StoreFlag, ReleaseFlag, WaitSignal, Holds, IInv, TypeOK
  <2>4. UNCHANGED <<posix, handle, os, mine, stale>>
    BY <1>1 DEF SetUp, StoreFlag, ReleaseFlag, WaitSignal, shared, history
  <2>5. QED
    BY <2>1, <2>2, <2>3, <2>4, QuietStep
<1>2. CASE Create(o)
  <2>1. PICK n \in Names :
          /\ os[n] = Free
          /\ os' = [os EXCEPT ![n] = [pc |-> "start", owner |-> o, no |-> created + 1,
                                      job |-> job[o], joiner |-> Null]]
          /\ handle' = [handle EXCEPT ![o] = n]
    BY <1>2 DEF Create
  <2>2. /\ os'[n].owner = o /\ os'[n].no = created + 1 /\ os'[n].joiner = Null
        /\ os'[n] # Free
        /\ \A m \in Names \ {n} : os'[m] = os[m]
    BY <2>1 DEF IInv, TypeOK, Free
  <2>3. /\ at[o] = "ready" /\ at'[o] = "holding" /\ handle'[o] = n /\ mine'[o] = created + 1
        /\ \A p \in Owners \ {o} : at'[p] = at[p] /\ handle'[p] = handle[p] /\ mine'[p] = mine[p]
        /\ UNCHANGED <<posix, signal, stale>>
    BY <1>2, <2>1 DEF Create, IInv, TypeOK, shared
  <2>4. ~Holds(o) /\ Holds(o)' /\ \A p \in Owners \ {o} : Holds(p)' <=> Holds(p)
    BY <2>3 DEF Holds
  <2>5. HolderHasName'
    BY <2>3, <2>4 DEF HolderHasName, IInv
  <2>6. \A p \in Owners \ {o} : Holds(p) /\ handle[p] \notin stale => handle[p] # n
    BY <2>1 DEF HolderHasThread, IInv
  <2>7. HolderHasThread'
    BY <2>2, <2>3, <2>4, <2>5, <2>6 DEF HolderHasThread, HolderHasName, IInv
  <2>8. \A m \in Names \ stale : os[m] # Free => os[m].owner # o
    BY <2>4 DEF ThreadHasHolder, IInv
  <2>9. ThreadHasHolder'
    BY <1>0, <2>2, <2>3, <2>4, <2>8 DEF ThreadHasHolder, IInv
  <2>10. JoinerIsHolder'
    BY <1>0, <2>2, <2>3, <2>8 DEF JoinerIsHolder, IInv
  <2>11. QED
    BY <2>5, <2>7, <2>9, <2>10
<1>3. CASE CreateFails(o) \/ TakeDown(o)
  <2>1. /\ at[o] \in {"ready", "ended"} \/ (posix /\ at[o] = "joined")
        /\ at'[o] = "idle"
        /\ \A p \in Owners \ {o} : at'[p] = at[p] /\ handle'[p] = handle[p] /\ signal'[p] = signal[p]
        /\ UNCHANGED <<posix, stale, os, mine>>
    BY <1>3 DEF CreateFails, TakeDown, IInv, TypeOK, history
  <2>2. ~Holds(o) /\ ~Holds(o)' /\ \A p \in Owners \ {o} : Holds(p)' <=> Holds(p)
    BY <2>1 DEF Holds
  <2>3. \A m \in Names \ stale : os[m] # Free => os[m].owner # o
    BY <2>2 DEF ThreadHasHolder, IInv
  <2>4. QED
    BY <1>0, <2>1, <2>2, <2>3 DEF HolderHasName, HolderHasThread, ThreadHasHolder, JoinerIsHolder, IInv
<1>4. CASE JoinRefused(o)
  <2>1. /\ MayEnd(o) /\ Refused(o) /\ at'[o] = "joined"
        /\ \A p \in Owners \ {o} : at'[p] = at[p]
        /\ UNCHANGED <<posix, handle, signal, stale, os, mine>>
    BY <1>4 DEF JoinRefused, IInv, TypeOK, shared, history
  <2>2. Holds(o) /\ at[o] \notin {"joining", "destroying"}
    BY <2>1 DEF MayEnd, Holds
  <2>3. handle[o] \in Names /\ posix
    BY <2>1, <2>2 DEF HolderHasName, IInv, Refused
  <2>4. handle[o] \in stale
    BY <2>1, <2>2, <2>3 DEF Refused, HolderHasThread, JoinerIsHolder, IInv
  <2>5. ~Holds(o)' /\ \A p \in Owners \ {o} : Holds(p)' <=> Holds(p)
    BY <2>1, <2>3 DEF Holds
  <2>6. \A m \in Names \ stale : os[m] # Free => os[m].owner # o
    BY <2>4 DEF ThreadHasHolder, IInv
  <2>7. HolderHasName'
    <3>1. at[o] # "idle"
      BY <2>2 DEF Holds
    <3>2. QED
      BY <2>1, <2>2, <2>3, <2>5, <3>1 DEF HolderHasName, IInv
  <2>8. HolderHasThread' /\ ThreadHasHolder' /\ JoinerIsHolder'
    BY <1>0, <2>1, <2>5, <2>6 DEF HolderHasThread, ThreadHasHolder, JoinerIsHolder, IInv
  <2>9. QED
    BY <2>7, <2>8
<1>5. CASE JoinCall(o) \/ DestroyCall(o)
  <2>1. /\ MayEnd(o) \/ at[o] = "joined"
        /\ at'[o] \in {"joining", "destroying", "ended"}
        /\ \A p \in Owners \ {o} : at'[p] = at[p]
        /\ UNCHANGED <<posix, handle, signal, mine>>
        /\ Refused(o) => UNCHANGED os /\ at'[o] = "ended"
        /\ ~Refused(o) => Registers(o) /\ at'[o] # "ended"
        /\ stale \subseteq stale'
        /\ posix /\ at[o] = "joined" => handle[o] \in stale'
    <3>1. CASE JoinCall(o)
      <4>1. at[o] # "joined"
        BY <3>1 DEF JoinCall, MayEnd
      <4>2. QED
        BY <3>1, <4>1 DEF JoinCall, IInv, TypeOK, shared, history
    <3>2. CASE DestroyCall(o)
      BY <3>2 DEF DestroyCall, IInv, TypeOK, shared
    <3>3. QED
      BY <1>5, <3>1, <3>2
  <2>2. /\ handle[o] \in Names /\ (Holds(o) \/ handle[o] \in stale')
        /\ at[o] \notin {"joining", "destroying", "idle"}
    BY <2>1 DEF MayEnd, Holds, HolderHasName, IInv
  <2>3. \A p \in Owners \ {o} : Holds(p)' <=> Holds(p)
    BY <2>1 DEF Holds
  <2>4. HolderHasName'
    BY <2>1, <2>2, <2>3 DEF HolderHasName, IInv, Holds
  <2>5. CASE ~Refused(o)
    <3>1. /\ \A m \in Names \ {handle[o]} : os'[m] = os[m]
          /\ \A m \in Names :
               /\ os'[m] = Free <=> os[m] = Free
               /\ os'[m].owner = os[m].owner /\ os'[m].no = os[m].no
      BY <2>1, <2>2, <2>5, RegisterTypes DEF IInv
    <3>2. Holds(o)'
      BY <2>1, <2>5 DEF Holds
    <3>3. HolderHasThread'
      <4> SUFFICES ASSUME NEW p \in Owners, Holds(p)', handle'[p] \notin stale'
                   PROVE  os'[handle'[p]] # Free /\ os'[handle'[p]].owner = p
        BY DEF HolderHasThread
      <4>1. handle[p] = handle'[p] /\ handle[p] \notin stale /\ Holds(p)
        BY <2>1, <2>2, <2>3
      <4>2. handle[p] \in Names
        BY <4>1 DEF HolderHasName, IInv
      <4>3. QED
        BY <3>1, <4>1, <4>2 DEF HolderHasThread, IInv
    <3>4. ThreadHasHolder'
      BY <1>0, <2>1, <2>3, <3>1, <3>2 DEF ThreadHasHolder, IInv
    <3>5. JoinerIsHolder'
      <4> SUFFICES ASSUME NEW n \in Names \ stale', os'[n] # Free, os'[n].joiner # Null
                   PROVE  posix' /\ at'[os'[n].owner] \in {"joining", "destroying"}
        BY DEF JoinerIsHolder
      <4>1. n \in Names \ stale /\ os[n] # Free /\ os'[n].owner = os[n].owner /\ os[n].owner \in Owners
        BY <1>0, <2>1, <3>1
      <4>0. posix
        BY <2>1, <2>5, <4>1 DEF Registers, JoinerIsHolder, IInv
      <4>2. CASE os[n].owner = o
        BY <2>1, <2>5, <4>0, <4>1, <4>2
      <4>3. CASE os[n].owner # o
        <5>1. n # handle[o]
          BY <2>2, <4>1, <4>3 DEF HolderHasThread, IInv
        <5>2. QED
          BY <2>1, <3>1, <4>1, <4>3, <5>1 DEF JoinerIsHolder, IInv
      <4>4. QED
        BY <4>2, <4>3
    <3>6. QED
      BY <2>4, <3>3, <3>4, <3>5
  <2>6. CASE Refused(o)
    <3>1. handle[o] \in stale'
      BY <2>1, <2>2, <2>6 DEF Refused, HolderHasThread, JoinerIsHolder, IInv
    <3>2. ~Holds(o)' /\ UNCHANGED os
      BY <2>1, <2>6 DEF Holds
    <3>3. \A m \in Names \ stale' : os[m] # Free => os[m].owner # o
      BY <2>1, <3>1 DEF ThreadHasHolder, IInv
    <3>4. HolderHasThread' /\ ThreadHasHolder' /\ JoinerIsHolder'
      BY <1>0, <2>1, <2>3, <3>2, <3>3 DEF HolderHasThread, ThreadHasHolder, JoinerIsHolder, IInv
    <3>5. QED
      BY <2>4, <3>4
  <2>7. QED
    BY <2>5, <2>6
<1>6. CASE JoinReturn(o) \/ DestroyReturn(o)
  <2>1. /\ at[o] \in {"joining", "destroying"} /\ at'[o] \in {"joined", "ended"}
        /\ \A p \in Owners \ {o} : at'[p] = at[p]
        /\ UNCHANGED <<posix, handle, signal, mine, stale>>
    BY <1>6 DEF JoinReturn, DestroyReturn, IInv, TypeOK, shared, history
  <2>2. Holds(o) /\ handle[o] \in Names
    BY <2>1 DEF Holds, HolderHasName, IInv
  <2>3. \A p \in Owners \ {o} : Holds(p)' <=> Holds(p)
    BY <2>1 DEF Holds
  <2>4. HolderHasName'
    BY <2>1, <2>2, <2>3 DEF HolderHasName, IInv, Holds
  <2>5. \A m \in Names \ (stale \cup {handle[o]}) : os[m] # Free => os[m].owner # o
    BY DEF ThreadHasHolder, IInv
  <2>6. \A p \in Owners \ {o} : Holds(p) /\ handle[p] \notin stale => handle[p] # handle[o]
    BY <2>2 DEF HolderHasThread, IInv
  <2>7. CASE os' = [os EXCEPT ![handle[o]] = Free] /\ ~Holds(o)'
    <3>1. os'[handle[o]] = Free /\ \A m \in Names \ {handle[o]} : os'[m] = os[m]
      BY <2>2, <2>7 DEF IInv, TypeOK
    <3>2. HolderHasThread'
      <4> SUFFICES ASSUME NEW p \in Owners, Holds(p)', handle'[p] \notin stale'
                   PROVE  os'[handle'[p]] # Free /\ os'[handle'[p]].owner = p
        BY DEF HolderHasThread
      <4>1. p # o /\ handle[p] = handle'[p] /\ handle[p] \notin stale /\ Holds(p)
        BY <2>1, <2>3, <2>7
      <4>2. handle[p] \in Names \ {handle[o]}
        BY <2>6, <4>1 DEF HolderHasName, IInv
      <4>3. QED
        BY <3>1, <4>1, <4>2 DEF HolderHasThread, IInv
    <3>3. ThreadHasHolder'
      BY <1>0, <2>1, <2>3, <2>5, <3>1 DEF ThreadHasHolder, IInv
    <3>4. JoinerIsHolder'
      BY <1>0, <2>1, <2>5, <3>1 DEF JoinerIsHolder, IInv
    <3>5. QED
      BY <2>4, <3>2, <3>3, <3>4
  <2>8. CASE UNCHANGED os /\ ~posix /\ at'[o] = "joined"
    <3>1. Holds(o)'
      BY <2>1, <2>8 DEF Holds
    <3>2. HolderHasThread' /\ ThreadHasHolder'
      BY <1>0, <2>1, <2>2, <2>3, <2>8, <3>1 DEF HolderHasThread, ThreadHasHolder, IInv
    <3>3. JoinerIsHolder'
      BY <1>0, <2>1, <2>8 DEF JoinerIsHolder, IInv
    <3>4. QED
      BY <2>4, <3>2, <3>3
  <2>9. QED
    BY <1>6, <2>1, <2>7, <2>8 DEF JoinReturn, DestroyReturn, Holds, IInv, TypeOK
<1>7. QED
  BY <1>1, <1>2, <1>3, <1>4, <1>5, <1>6 DEF Owner, Returns

\* So does a step of a thread.
LEMMA ThreadStep ==
  ASSUME IInv, TypeOK', NEW n \in Names, Thread(n)
  PROVE  HolderHasName' /\ HolderHasThread' /\ ThreadHasHolder' /\ JoinerIsHolder'
<1>1. os[n] # Free
  BY FreeIsFree DEF Thread, Poll, RaiseSet, RaiseNotify, Exit
<1>2. PICK pc \in Running \cup {"exited"} : MovesTo(n, pc)
  BY DEF Thread, Poll, RaiseSet, RaiseNotify, Exit, Running
<1>3. \A m \in Names :
        /\ os'[m] # Free <=> os[m] # Free
        /\ os'[m].owner = os[m].owner /\ os'[m].no = os[m].no /\ os'[m].joiner = os[m].joiner
  BY <1>1, <1>2, MoveTypes DEF IInv
<1>4. UNCHANGED <<posix, at, handle, mine, stale>>
  BY DEF Thread, Poll, RaiseSet, RaiseNotify, Exit, shared, history
<1>5. \A o \in Owners : (Holds(o)' <=> Holds(o)) /\ (signal[o] # "terminated" => signal'[o] # "terminated")
  BY <1>4 DEF Thread, Poll, RaiseSet, RaiseNotify, Exit, shared, Holds, IInv, TypeOK
<1>6. \A m \in Names : os[m] # Free => os[m].owner \in Owners
  BY FreeIsFree DEF IInv, TypeOK
<1>7. HolderHasName'
  BY <1>4, <1>5 DEF HolderHasName, IInv
<1>8. HolderHasThread'
  BY <1>3, <1>4, <1>5, <1>7 DEF HolderHasThread, HolderHasName, IInv
<1>9. ThreadHasHolder' /\ JoinerIsHolder'
  BY <1>3, <1>4, <1>5, <1>6 DEF ThreadHasHolder, JoinerIsHolder, IInv
<1>10. QED
  BY <1>7, <1>8, <1>9

\* The inductive invariant: names that are not stale and the owners that hold them go
\* together one to one.
THEOREM IInvInvariant == Spec => []IInv
<1>1. Init => IInv
  <2>1. Init => TypeOK
    BY PlatformsAssumption DEF Init, TypeOK, Places
  <2>2. ASSUME Init PROVE \A o \in Owners : ~Holds(o) /\ at[o] = "idle"
    BY <2>2 DEF Init, Holds
  <2>3. QED
    BY <2>1, <2>2
       DEF Init, IInv, HolderHasName, HolderHasThread, ThreadHasHolder, JoinerIsHolder
<1>2. IInv /\ [Next]_vars => IInv'
  <2> SUFFICES ASSUME IInv, [Next]_vars PROVE IInv'
    OBVIOUS
  <2>1. TypeOK'
    BY TypeOKStep
  <2>2. CASE UNCHANGED vars
    BY <2>1, <2>2 DEF vars, IInv, HolderHasName, HolderHasThread, ThreadHasHolder, JoinerIsHolder, Holds
  <2>3. ASSUME NEW o \in Owners, Owner(o) PROVE IInv'
    BY <2>1, <2>3, OwnerStep DEF IInv
  <2>4. ASSUME NEW n \in Names, Thread(n) PROVE IInv'
    BY <2>1, <2>4, ThreadStep DEF IInv
  <2>5. QED
    BY <2>2, <2>3, <2>4 DEF Next
<1>3. QED
  BY <1>1, <1>2, PTL DEF Spec

-----------------------------------------------------------------------------
(* What the owners rely on *)

\* thread.h:616-770: the variables of the owners and of the system's threads keep their
\* types, for any number of threads created.
THEOREM TypeOKInvariant == Spec => []TypeOK
<1>1. IInv => TypeOK
  BY DEF IInv
<1>2. QED
  BY <1>1, IInvInvariant, PTL

\* thread.h:737-770, 921-941: after a join or a destroy nothing runs that could still use
\* what the owner shared with its thread, its signal included - for any number of owners
\* and names, but for names that were destroyed after they had been joined.
THEOREM DataOutlivesEveryThread == Spec => []DataOutlivesThread
<1>1. IInv => DataOutlivesThread
  <2> SUFFICES ASSUME IInv, NEW n \in Names \ stale, os[n].pc \in Running
               PROVE  /\ at[os[n].owner] \notin {"idle", "ready", "ended"}
                      /\ signal[os[n].owner] # "terminated"
                      /\ mine[os[n].owner] = os[n].no
    BY DEF DataOutlivesThread
  <2>1. os[n] # Free
    BY FreeIsFree DEF Running
  <2>2. os[n].owner \in Owners
    BY <2>1, FreeIsFree DEF IInv, TypeOK
  <2>3. Holds(os[n].owner) /\ mine[os[n].owner] = os[n].no
    BY <2>1 DEF ThreadHasHolder, IInv
  <2>4. QED
    BY <2>2, <2>3 DEF Holds, HolderHasName, IInv
<1>2. QED
  BY <1>1, IInvInvariant, PTL

\* thread.h:750-770: a join returns the value of the thread its caller created, however
\* often names are given out again, unless the name was destroyed after a join.
THEOREM EveryJoinReturnsOwn == Spec => JoinReturnsOwn
<1> DEFINE Own == \A o \in Owners :
                    (at[o] # "joined" /\ at'[o] = "joined" /\ handle[o] \notin stale)
                      => got'[o] = mine[o]
<1>1. IInv /\ [Next]_vars => [Own]_vars
  <2> SUFFICES ASSUME IInv, Next, NEW o \in Owners, at[o] # "joined", at'[o] = "joined",
                      handle[o] \notin stale
               PROVE  got'[o] = mine[o]
    BY DEF Own
  <2>1. JoinReturn(o) \/ JoinRefused(o)
    <3>1. ASSUME NEW n \in Names, Thread(n) PROVE FALSE
      BY <3>1 DEF Thread, Poll, RaiseSet, RaiseNotify, Exit
    <3>2. PICK p \in Owners : Owner(p)
      BY <3>1 DEF Next
    <3>3. JoinReturn(p) \/ JoinRefused(p)
      BY <3>2 DEF Owner, Returns, SetUp, Create, CreateFails, StoreFlag, ReleaseFlag, WaitSignal,
                  JoinCall, DestroyCall, DestroyReturn, TakeDown, IInv, TypeOK
    <3>4. p = o
      BY <3>3 DEF JoinReturn, JoinRefused, IInv, TypeOK
    <3>5. QED
      BY <3>3, <3>4
  <2>2. CASE JoinReturn(o)
    <3>1. Holds(o) /\ handle[o] \in Names
      BY <2>2 DEF JoinReturn, Holds, HolderHasName, IInv
    <3>2. mine[o] = os[handle[o]].no
      BY <3>1 DEF HolderHasThread, ThreadHasHolder, IInv
    <3>3. QED
      BY <2>2, <3>2 DEF JoinReturn, IInv, TypeOK
  <2>3. CASE JoinRefused(o)
    <3>1. Holds(o) /\ at[o] \notin {"joining", "destroying"}
      BY <2>3 DEF JoinRefused, MayEnd, Holds
    <3>2. handle[o] \in Names
      BY <3>1 DEF HolderHasName, IInv
    <3>3. QED
      BY <2>3, <3>1, <3>2 DEF JoinRefused, Refused, HolderHasThread, JoinerIsHolder, IInv
  <2>4. QED
    BY <2>1, <2>2, <2>3
<1>2. QED
  BY <1>1, IInvInvariant, PTL DEF Spec, JoinReturnsOwn

-----------------------------------------------------------------------------
(* Why joins return *)

\* A thread does what its owner created it for.
JobsKept == \A n \in Names \ stale : os[n] # Free => os[n].job = job[os[n].owner]

\* On Windows a flag that was stored stays up until the thread has been ended.
FlagsUp ==
  \A o \in Owners :
    /\ at[o] = "storing" => posix
    /\ ~posix /\ job[o] = "polls" /\ at[o] \in {"told", "joining", "joined", "destroying"}
         => flag[o] = 1

RunInv == JobsKept /\ FlagsUp

\* The records keep the job as they change.
LEMMA RecordKeeps ==
  ASSUME NEW r \in ThreadRecords, NEW v
  PROVE  [r EXCEPT !.joiner = v].job = r.job /\ [r EXCEPT !.pc = v].job = r.job
BY DEF ThreadRecords

\* No step but a create makes a thread, and none changes whose it is or what it is for.
LEMMA ThreadsKept ==
  ASSUME IInv, [Next]_vars
  PROVE  \A n \in Names : os'[n] # Free =>
           \/ os[n] # Free /\ os'[n].job = os[n].job /\ os'[n].owner = os[n].owner
           \/ \E o \in Owners : Create(o) /\ os'[n].job = job[o] /\ os'[n].owner = o
<1>1. os \in [Names -> ThreadRecords \cup {Free}]
  BY DEF IInv, TypeOK
<1>2. ASSUME NEW o \in Owners, Create(o)
      PROVE  \A n \in Names : \/ os'[n] = os[n]
                              \/ os'[n].job = job[o] /\ os'[n].owner = o
  BY <1>1, <1>2 DEF Create
<1>3. ASSUME NEW n \in Names, Thread(n)
      PROVE  \A m \in Names : os'[m] # Free =>
               os[m] # Free /\ os'[m].job = os[m].job /\ os'[m].owner = os[m].owner
  <2>1. os[n] # Free
    BY <1>3, FreeIsFree DEF Thread, Poll, RaiseSet, RaiseNotify, Exit
  <2>2. PICK pc \in Running \cup {"exited"} : MovesTo(n, pc)
    BY <1>3 DEF Thread, Poll, RaiseSet, RaiseNotify, Exit, Running
  <2>3. /\ os'[n] = [os[n] EXCEPT !.pc = pc] /\ os'[n].owner = os[n].owner
        /\ \A m \in Names \ {n} : os'[m] = os[m]
    BY <2>1, <2>2, MoveTypes DEF IInv
  <2>4. os[n] \in ThreadRecords
    BY <1>1, <2>1, FreeIsFree
  <2>5. os'[n].job = os[n].job
    BY <2>3, <2>4, RecordKeeps
  <2>6. QED
    BY <2>1, <2>3, <2>5
<1>4. ASSUME NEW o \in Owners, ~Refused(o), handle[o] \in Names, Registers(o)
      PROVE  \A m \in Names : os'[m] # Free =>
               os[m] # Free /\ os'[m].job = os[m].job /\ os'[m].owner = os[m].owner
  <2>1. CASE ~posix
    BY <1>4, <2>1 DEF Registers
  <2>2. CASE posix
    <3>1. /\ \A m \in Names : (os'[m] = Free <=> os[m] = Free) /\ os'[m].owner = os[m].owner
          /\ \A m \in Names \ {handle[o]} : os'[m] = os[m]
      BY <1>4, RegisterTypes DEF IInv
    <3>2. os[handle[o]] \in ThreadRecords
      BY <1>1, <1>4, <2>2, FreeIsFree DEF Refused
    <3>3. os' = [os EXCEPT ![handle[o]] = [os[handle[o]] EXCEPT !.joiner = o]]
      BY <1>4, <2>2 DEF Registers
    <3>4. os'[handle[o]].job = os[handle[o]].job
      BY <1>1, <1>4, <3>2, <3>3, RecordKeeps
    <3>5. QED
      BY <3>1, <3>4
  <2>3. QED
    BY <2>1, <2>2
<1>5. ASSUME NEW o \in Owners, JoinCall(o) \/ DestroyCall(o)
      PROVE  \A m \in Names : os'[m] # Free =>
               os[m] # Free /\ os'[m].job = os[m].job /\ os'[m].owner = os[m].owner
  <2>1. handle[o] \in Names
    BY <1>5 DEF JoinCall, DestroyCall, MayEnd, Holds, HolderHasName, IInv
  <2>2. CASE Refused(o)
    BY <1>5, <2>2 DEF JoinCall, DestroyCall
  <2>3. CASE ~Refused(o)
    BY <1>4, <1>5, <2>1, <2>3 DEF JoinCall, DestroyCall
  <2>4. QED
    BY <2>2, <2>3
<1>6. ASSUME NEW o \in Owners, Returns(o)
      PROVE  \A m \in Names : os'[m] = os[m] \/ os'[m] = Free
  BY <1>1, <1>6 DEF Returns, JoinReturn, DestroyReturn
<1>7. ASSUME NEW o \in Owners,
             SetUp(o) \/ CreateFails(o) \/ StoreFlag(o) \/ ReleaseFlag(o) \/ WaitSignal(o)
               \/ JoinRefused(o) \/ TakeDown(o)
      PROVE  os' = os
  BY <1>7 DEF SetUp, CreateFails, StoreFlag, ReleaseFlag, WaitSignal, JoinRefused, TakeDown
<1>8. CASE UNCHANGED vars
  BY <1>8 DEF vars
<1>9. ASSUME NEW o \in Owners, Owner(o)
      PROVE  \A n \in Names : os'[n] # Free =>
               \/ os[n] # Free /\ os'[n].job = os[n].job /\ os'[n].owner = os[n].owner
               \/ Create(o) /\ os'[n].job = job[o] /\ os'[n].owner = o
  BY <1>2, <1>5, <1>6, <1>7, <1>9 DEF Owner
<1>10. QED
  BY <1>3, <1>8, <1>9 DEF Next

\* The job of an owner changes only when it has no thread.
LEMMA JobsKeptStep ==
  ASSUME IInv, JobsKept, [Next]_vars
  PROVE  JobsKept'
<1>1. stale \subseteq stale'
  BY DEF Next, Owner, Returns, Thread, SetUp, Create, CreateFails, StoreFlag, ReleaseFlag,
     WaitSignal, JoinCall, JoinRefused, JoinReturn, DestroyCall, DestroyReturn, TakeDown,
     Poll, RaiseSet, RaiseNotify, Exit, vars, history
<1>2. ASSUME NEW p \in Owners, job'[p] # job[p]
      PROVE  at[p] = "idle" /\ UNCHANGED os
  BY <1>2 DEF Next, Owner, Returns, Thread, SetUp, Create, CreateFails, StoreFlag, ReleaseFlag,
     WaitSignal, JoinCall, JoinRefused, JoinReturn, DestroyCall, DestroyReturn, TakeDown,
     Poll, RaiseSet, RaiseNotify, Exit, vars, IInv, TypeOK
<1>3. \A n \in Names : os[n] # Free => os[n].owner \in Owners
  BY FreeIsFree DEF IInv, TypeOK
<1>4. SUFFICES ASSUME NEW n \in Names \ stale', os'[n] # Free
               PROVE  os'[n].job = job'[os'[n].owner]
  BY DEF JobsKept
<1>5. CASE os[n] # Free /\ os'[n].job = os[n].job /\ os'[n].owner = os[n].owner
  <2>1. os[n].job = job[os[n].owner] /\ Holds(os[n].owner)
    BY <1>1, <1>5 DEF JobsKept, IInv, ThreadHasHolder
  <2>2. job'[os[n].owner] = job[os[n].owner]
    BY <1>2, <1>3, <1>5, <2>1 DEF Holds
  <2>3. QED
    BY <1>5, <2>1, <2>2
<1>6. ASSUME NEW o \in Owners, Create(o), os'[n].job = job[o], os'[n].owner = o
      PROVE  os'[n].job = job'[os'[n].owner]
  BY <1>6 DEF Create
<1>7. \/ os[n] # Free /\ os'[n].job = os[n].job /\ os'[n].owner = os[n].owner
      \/ \E o \in Owners : Create(o) /\ os'[n].job = job[o] /\ os'[n].owner = o
  BY <1>4, ThreadsKept
<1>8. QED
  BY <1>5, <1>6, <1>7

\* A flag is let down by nobody but the owner that sets up for another thread.
LEMMA FlagsUpStep ==
  ASSUME IInv, FlagsUp, [Next]_vars
  PROVE  FlagsUp'
<1> USE DEF IInv, TypeOK
<1>1. CASE UNCHANGED vars
  BY <1>1 DEF vars, FlagsUp
<1>2. ASSUME NEW n \in Names, Thread(n) PROVE FlagsUp'
  BY <1>2 DEF Thread, Poll, RaiseSet, RaiseNotify, Exit, shared, FlagsUp
<1>3. ASSUME NEW o \in Owners, Owner(o) PROVE FlagsUp'
  <2>1. CASE SetUp(o) \/ Create(o) \/ CreateFails(o) \/ WaitSignal(o) \/ TakeDown(o)
    BY <2>1 DEF SetUp, Create, CreateFails, WaitSignal, TakeDown, shared, FlagsUp
  <2>2. CASE StoreFlag(o) \/ ReleaseFlag(o)
    BY <2>2 DEF StoreFlag, ReleaseFlag, FlagsUp
  <2>3. CASE JoinCall(o) \/ JoinRefused(o) \/ DestroyCall(o)
    BY <2>3 DEF JoinCall, JoinRefused, DestroyCall, MayEnd, Refused, shared, FlagsUp
  <2>4. CASE Returns(o)
    BY <2>4 DEF Returns, JoinReturn, DestroyReturn, shared, FlagsUp
  <2>5. QED
    BY <1>3, <2>1, <2>2, <2>3, <2>4 DEF Owner
<1>4. QED
  BY <1>1, <1>2, <1>3 DEF Next

\* The thread an owner waits for is its own, there until it is reaped, and not left to poll a
\* flag that is down; on POSIX that of a polling thread may be, since the gcc store leaves 0.
JoinedGoesOn ==
  \A o \in Owners :
    at[o] \in {"joining", "destroying"} /\ handle[o] \notin stale =>
      LET thread == os[handle[o]] IN
      /\ thread # Free /\ thread.owner = o /\ thread.no = mine[o]
      /\ ~posix /\ thread.job = "polls" => flag[o] = 1

\* thread.h:104-148, 737-770: what JoinsReturn rests on, in every reachable state and for any
\* owners, names and jobs: nothing the owners do to each other's names or to their flags
\* keeps a thread that is joined or destroyed from exiting, or takes it away from its owner.
THEOREM JoinedThreadGoesOn == Spec => []JoinedGoesOn
<1>1. Init => RunInv
  <2> SUFFICES ASSUME Init PROVE RunInv
    OBVIOUS
  <2>1. \A n \in Names : os[n] = Free
    BY DEF Init
  <2>2. \A o \in Owners : at[o] = "idle"
    BY DEF Init
  <2>3. JobsKept
    BY <2>1 DEF JobsKept
  <2>4. FlagsUp
    BY <2>2 DEF FlagsUp
  <2>5. QED
    BY <2>3, <2>4 DEF RunInv
<1>2. IInv /\ RunInv /\ [Next]_vars => RunInv'
  BY JobsKeptStep, FlagsUpStep DEF RunInv
<1>3. IInv /\ RunInv => JoinedGoesOn
  <2> SUFFICES ASSUME IInv, RunInv, NEW o \in Owners, at[o] \in {"joining", "destroying"},
                      handle[o] \notin stale
               PROVE  /\ os[handle[o]] # Free /\ os[handle[o]].owner = o
                      /\ os[handle[o]].no = mine[o]
                      /\ ~posix /\ os[handle[o]].job = "polls" => flag[o] = 1
    BY DEF JoinedGoesOn
  <2>1. Holds(o) /\ handle[o] \in Names
    BY DEF Holds, HolderHasName, IInv
  <2>2. os[handle[o]] # Free /\ os[handle[o]].owner = o
    BY <2>1 DEF HolderHasThread, IInv
  <2>3. os[handle[o]].no = mine[o]
    BY <2>1, <2>2 DEF ThreadHasHolder, IInv
  <2>4. os[handle[o]].job = job[o]
    BY <2>1, <2>2 DEF RunInv, JobsKept
  <2>5. QED
    BY <2>2, <2>3, <2>4 DEF RunInv, FlagsUp
<1>4. QED
  BY <1>1, <1>2, <1>3, IInvInvariant, PTL DEF Spec
=============================================================================
