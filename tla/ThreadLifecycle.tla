---------------------------- MODULE ThreadLifecycle ----------------------------
(***************************************************************************)
(* smd_thread_create, thread_join, thread_destroy and thread_exit of       *)
(* thread.h, as programs use them: an owner sets up what its thread        *)
(* shares with it (an exit flag, a signal), creates the thread, tells it   *)
(* to stop where it polls the flag, joins it, destroys it, and takes the   *)
(* shared data down.  What create returns is the system's name for the     *)
(* thread, a pthread_t or a HANDLE, and the system gives names out again.  *)
(*                                                                         *)
(* Every thread returns the number of its creation.  stale is the set of   *)
(* names that were destroyed after they had been joined, as thread.h:229   *)
(* advises: on POSIX that joins a name that is no longer the owner's.      *)
(***************************************************************************)
EXTENDS Naturals

CONSTANTS Owners,     \* the threads that create and end others, one at a time
          Names,      \* the pthread_t or HANDLE values the system has
          Null,
          Jobs,       \* what threads are created for
          Platforms,  \* TRUE: POSIX; FALSE: Windows
          MaxCreated  \* bound: how many threads are created in all

ASSUME JobsAssumption == Jobs \subseteq {"returns", "polls", "raises"}
ASSUME PlatformsAssumption == Platforms \subseteq BOOLEAN
ASSUME NullAssumption == Null \notin Owners /\ Null \notin Names
ASSUME MaxCreatedAssumption == MaxCreated \in Nat

VARIABLES posix,    \* the platform of the build
          at,       \* how far each owner is
          job,      \* what its thread is for
          handle,   \* what create returned
          got,      \* what its latest join returned
          flag,     \* exit_flag->i
          signal,   \* the signal its thread raises: down, up, terminated
          os,       \* the system's threads, by name
          created,  \* how many there have been
          mine,     \* history: the number of the thread each owner created
          stale     \* history: names destroyed after they were joined

shared == <<flag, signal>>
history == <<created, mine, stale>>
vars == <<posix, at, job, handle, got, flag, signal, os, created, mine, stale>>

Codes == 0..MaxCreated

Free == [pc |-> "free", owner |-> Null, no |-> 0, job |-> "returns", joiner |-> Null]

Running == {"start", "raising", "leaving"}

Init ==
  /\ posix \in Platforms
  /\ at = [o \in Owners |-> "idle"]
  /\ job \in [Owners -> Jobs]
  /\ handle = [o \in Owners |-> Null]
  /\ got = [o \in Owners |-> 0]
  /\ flag = [o \in Owners |-> 0]
  /\ signal = [o \in Owners |-> "terminated"]
  /\ os = [n \in Names |-> Free]
  /\ created = 0
  /\ mine = [o \in Owners |-> 0]
  /\ stale = {}

-----------------------------------------------------------------------------
(* The owner *)

\* A flag of 0 and a fresh signal.
SetUp(o) ==
  /\ at[o] = "idle" /\ at' = [at EXCEPT ![o] = "ready"]
  /\ \E j \in Jobs : job' = [job EXCEPT ![o] = j]
  /\ flag' = [flag EXCEPT ![o] = 0]
  /\ signal' = [signal EXCEPT ![o] = "down"]
  /\ UNCHANGED <<posix, handle, got, os, history>>

Create(o) ==
  /\ at[o] = "ready" /\ created < MaxCreated
  /\ at' = [at EXCEPT ![o] = "holding"]
  /\ \E n \in Names :
       /\ os[n] = Free
       /\ os' = [os EXCEPT ![n] = [pc |-> "start", owner |-> o, no |-> created + 1,
                                   job |-> job[o], joiner |-> Null]]
       /\ handle' = [handle EXCEPT ![o] = n]
  /\ created' = created + 1
  /\ mine' = [mine EXCEPT ![o] = created + 1]
  /\ UNCHANGED <<posix, job, got, shared, stale>>

\* The system makes no thread, create returns NULL, and the owner gives up.
CreateFails(o) ==
  /\ at[o] = "ready"
  /\ at' = [at EXCEPT ![o] = "idle"]
  /\ handle' = [handle EXCEPT ![o] = Null]
  /\ signal' = [signal EXCEPT ![o] = "terminated"]
  /\ UNCHANGED <<posix, job, got, flag, os, history>>

\* Mutant: a store of two instructions on either platform.
StoreFlagTwice(o) ==
  /\ at[o] = "holding" /\ job[o] = "polls"
  /\ flag' = [flag EXCEPT ![o] = 1]
  /\ at' = [at EXCEPT ![o] = "storing"]
  /\ UNCHANGED <<posix, job, handle, got, signal, os, history>>

\* thread_atomic_int_store( &exit_flag, 1 ), with the second instruction
\* that ThreadAtomic has for the gcc builtins.
StoreFlag(o) ==
  /\ at[o] = "holding" /\ job[o] = "polls"
  /\ flag' = [flag EXCEPT ![o] = 1]
  /\ at' = [at EXCEPT ![o] = IF posix THEN "storing" ELSE "told"]
  /\ UNCHANGED <<posix, job, handle, got, signal, os, history>>

ReleaseFlag(o) ==
  /\ at[o] = "storing" /\ at' = [at EXCEPT ![o] = "told"]
  /\ flag' = [flag EXCEPT ![o] = 0]
  /\ UNCHANGED <<posix, job, handle, got, signal, os, history>>

\* thread_signal_wait: the owner has seen its thread done, not gone.
WaitSignal(o) ==
  /\ at[o] = "holding" /\ job[o] = "raises" /\ signal[o] = "up"
  /\ signal' = [signal EXCEPT ![o] = "down"]
  /\ at' = [at EXCEPT ![o] = "told"]
  /\ UNCHANGED <<posix, job, handle, got, flag, os, history>>

\* The owner may end its thread: one that polls was told to stop.
MayEnd(o) == at[o] = "told" \/ (at[o] = "holding" /\ job[o] # "polls")

\* pthread_join refuses a name of no thread, and one another is joining.
Refused(o) == posix /\ (os[handle[o]] = Free \/ os[handle[o]].joiner # Null)

\* The call of a join that is not refused: the thread remembers its joiner.
Registers(o) ==
  IF posix THEN os' = [os EXCEPT ![handle[o]].joiner = o] ELSE UNCHANGED os

JoinCall(o) ==
  /\ MayEnd(o) /\ ~Refused(o)
  /\ at' = [at EXCEPT ![o] = "joining"]
  /\ Registers(o)
  /\ UNCHANGED <<posix, job, handle, got, shared, history>>

\* retval is not written, and is returned all the same.
JoinRefused(o) ==
  /\ MayEnd(o) /\ Refused(o)
  /\ at' = [at EXCEPT ![o] = "joined"]
  /\ \E junk \in Codes : got' = [got EXCEPT ![o] = junk]
  /\ UNCHANGED <<posix, job, handle, shared, os, history>>

\* Mutant: the exit code is asked for without a wait (0: it is still active).
JoinReturnUnwaited(o) ==
  /\ at[o] = "joining"
  /\ at' = [at EXCEPT ![o] = "joined"]
  /\ got' = [got EXCEPT ![o] = IF os[handle[o]].pc = "exited" THEN os[handle[o]].no ELSE 0]
  /\ os' = IF posix THEN [os EXCEPT ![handle[o]] = Free] ELSE os
  /\ UNCHANGED <<posix, job, handle, shared, history>>

\* The thread is gone; on POSIX so is its name.
JoinReturn(o) ==
  /\ at[o] = "joining" /\ os[handle[o]].pc = "exited"
  /\ at' = [at EXCEPT ![o] = "joined"]
  /\ got' = [got EXCEPT ![o] = os[handle[o]].no]
  /\ os' = IF posix THEN [os EXCEPT ![handle[o]] = Free] ELSE os
  /\ UNCHANGED <<posix, job, handle, shared, history>>

\* In place of a join, or after one: on Windows it closes the handle, on POSIX
\* it joins, and after a join the name is stale.
DestroyCall(o) ==
  /\ MayEnd(o) \/ at[o] = "joined"
  /\ stale' = IF posix /\ at[o] = "joined" THEN stale \cup {handle[o]} ELSE stale
  /\ at' = [at EXCEPT ![o] = IF Refused(o) THEN "ended" ELSE "destroying"]
  /\ IF Refused(o) THEN UNCHANGED os ELSE Registers(o)
  /\ UNCHANGED <<posix, job, handle, got, shared, created, mine>>

\* Mutant: pthread_detach, or CloseHandle without a wait.
DestroyReturnDetached(o) ==
  /\ at[o] = "destroying"
  /\ at' = [at EXCEPT ![o] = "ended"]
  /\ os' = IF os[handle[o]].pc = "exited" THEN [os EXCEPT ![handle[o]] = Free] ELSE os
  /\ UNCHANGED <<posix, job, handle, got, shared, history>>

DestroyReturn(o) ==
  /\ at[o] = "destroying" /\ os[handle[o]].pc = "exited"
  /\ at' = [at EXCEPT ![o] = "ended"]
  /\ os' = [os EXCEPT ![handle[o]] = Free]
  /\ UNCHANGED <<posix, job, handle, got, shared, history>>

\* thread_signal_term; the flag, the handle and the result go with the owner's
\* stack frame.  On POSIX a join is enough.
TakeDown(o) ==
  /\ at[o] = "ended" \/ (posix /\ at[o] = "joined")
  /\ at' = [at EXCEPT ![o] = "idle"]
  /\ signal' = [signal EXCEPT ![o] = "terminated"]
  /\ handle' = [handle EXCEPT ![o] = Null] /\ got' = [got EXCEPT ![o] = 0]
  /\ UNCHANGED <<posix, job, flag, os, history>>

Returns(o) == JoinReturn(o) \/ DestroyReturn(o)

Owner(o) ==
  \/ SetUp(o) \/ Create(o) \/ CreateFails(o)
  \/ StoreFlag(o) \/ ReleaseFlag(o) \/ WaitSignal(o)
  \/ JoinCall(o) \/ JoinRefused(o) \/ DestroyCall(o) \/ Returns(o) \/ TakeDown(o)

-----------------------------------------------------------------------------
(* The thread *)

MovesTo(n, pc) == os' = [os EXCEPT ![n].pc = pc]

\* The loop around thread_atomic_int_load ends.
Poll(n) ==
  /\ os[n].pc = "start" /\ os[n].job = "polls" /\ flag[os[n].owner] # 0
  /\ MovesTo(n, "leaving")
  /\ UNCHANGED <<posix, at, job, handle, got, shared, history>>

\* The first half of thread_signal_raise: value is set and the mutex let go.
RaiseSet(n) ==
  /\ os[n].pc = "start" /\ os[n].job = "raises"
  /\ signal' = [signal EXCEPT ![os[n].owner] = "up"]
  /\ MovesTo(n, "raising")
  /\ UNCHANGED <<posix, at, job, handle, got, flag, history>>

\* The second: pthread_cond_signal, or WakeConditionVariable.
RaiseNotify(n) ==
  /\ os[n].pc = "raising" /\ MovesTo(n, "leaving")
  /\ UNCHANGED <<posix, at, job, handle, got, shared, history>>

\* thread_exit, or a return of the thread's procedure.
Exit(n) ==
  /\ os[n].pc = "leaving" \/ (os[n].pc = "start" /\ os[n].job = "returns")
  /\ MovesTo(n, "exited")
  /\ UNCHANGED <<posix, at, job, handle, got, shared, history>>

Thread(n) == Poll(n) \/ RaiseSet(n) \/ RaiseNotify(n) \/ Exit(n)

Next == (\E o \in Owners : Owner(o)) \/ (\E n \in Names : Thread(n))

\* The system runs every thread, and a call that can return does.
Fairness ==
  /\ \A n \in Names : WF_vars(Thread(n))
  /\ \A o \in Owners : WF_vars(Returns(o))

Spec == Init /\ [][Next]_vars
FairSpec == Spec /\ Fairness

-----------------------------------------------------------------------------

Places == {"idle", "ready", "holding", "storing", "told", "joining", "joined",
           "destroying", "ended"}

ThreadRecords ==
  [pc : Running \cup {"exited"}, owner : Owners, no : Nat, job : Jobs,
   joiner : Owners \cup {Null}]

TypeOK ==
  /\ posix \in BOOLEAN
  /\ at \in [Owners -> Places]
  /\ job \in [Owners -> Jobs]
  /\ handle \in [Owners -> Names \cup {Null}]
  /\ got \in [Owners -> Nat]
  /\ flag \in [Owners -> 0..1]
  /\ signal \in [Owners -> {"down", "up", "terminated"}]
  /\ os \in [Names -> ThreadRecords \cup {Free}]
  /\ created \in Nat /\ mine \in [Owners -> Nat]
  /\ stale \subseteq Names

(***************************************************************************)
(* thread.h:239: "Waits for the specified thread to exit. Returns the      *)
(* value which the thread returned when exiting."  A join returns the      *)
(* value of the very thread its caller created, though names are given     *)
(* out again, unless the name was destroyed after a join.                  *)
(***************************************************************************)
JoinReturnsOwn ==
  [][\A o \in Owners :
       (at[o] # "joined" /\ at'[o] = "joined" /\ handle[o] \notin stale)
         => got'[o] = mine[o]]_vars

(***************************************************************************)
(* thread.h:737-770, 921-941: whoever has joined or destroyed its thread   *)
(* may take down what they shared.  No thread still runs, and none is      *)
(* between the two halves of a raise, when its owner has terminated the    *)
(* signal - unless the thread's name was destroyed after a join.           *)
(***************************************************************************)
DataOutlivesThread ==
  \A n \in Names \ stale :
    os[n].pc \in Running =>
      /\ at[os[n].owner] \notin {"idle", "ready", "ended"}
      /\ signal[os[n].owner] # "terminated"
      /\ mine[os[n].owner] = os[n].no

(***************************************************************************)
(* thread.h:104-148, 737-770: a join or a destroy comes back, also that of *)
(* a thread that polls an exit flag - but not where the flag is stored     *)
(* with the gcc builtins, which leave 0 in it, and not of a name that was  *)
(* destroyed after a join.                                                 *)
(***************************************************************************)
JoinsReturn ==
  \A o \in Owners :
    ( /\ at[o] \in {"joining", "destroying"} /\ handle[o] \notin stale
      /\ posix => job[o] # "polls" )
      ~> at[o] \notin {"joining", "destroying"}
=============================================================================
