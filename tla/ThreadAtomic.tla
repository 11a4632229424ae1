----------------------------- MODULE ThreadAtomic -----------------------------
(***************************************************************************)
(* thread_atomic_int_t and thread_atomic_ptr_t of thread.h.  With the gcc  *)
(* builtins the cell of an int is a long, wider than the int the functions *)
(* take and return where long has 64 bits; on Windows it is a LONG, as     *)
(* wide as an int.  The cell of a pointer is as wide as what its functions *)
(* take and return: its values are the ints here, and NULL is 0.           *)
(*                                                                         *)
(* Each machine instruction on the cell is an action.  The gcc builtin     *)
(* __sync_lock_test_and_set exchanges, __sync_lock_release writes 0.       *)
(***************************************************************************)
EXTENDS Integers

CONSTANTS Threads,     \* the threads that share the cell
          Operations,  \* what they call: records of kind, arg and expected
          Platforms,   \* TRUE: gcc builtins; FALSE: Interlocked functions
          Types,       \* what the cell may be: "int", "ptr"
          MaxInt,      \* the largest int
          MaxWord      \* the largest long

\* The functions there are for an int, and for a pointer.
IntKinds == {"load", "store", "inc", "dec", "add", "sub", "swap", "cas"}
PtrKinds == {"load", "store", "swap", "cas"}

Ints == (-MaxInt - 1)..MaxInt
ASSUME MaxIntAssumption == MaxInt \in Nat
ASSUME MaxWordAssumption == MaxWord \in Nat /\ MaxWord >= MaxInt
\* A long has a whole number of times the values of an int.
ASSUME WidthAssumption == ((2 * MaxWord + 2) % (2 * MaxInt + 2)) = 0
ASSUME PlatformsAssumption == Platforms \subseteq BOOLEAN
ASSUME TypesAssumption == Types \subseteq {"int", "ptr"}
ASSUME OperationsAssumption ==
  Operations \subseteq [kind : IntKinds, arg : Ints, expected : Ints]

VARIABLES posix,  \* the platform of the build
          type,   \* what the cell is
          word,   \* atomic->i, or atomic->ptr
          op,     \* the call each thread is in, or was in last
          pc,     \* how far it is
          ret     \* what the call returns

cell == <<posix, type>>
vars == <<posix, type, word, op, pc, ret>>

\* The largest value of the cell, and its values.
MaxCell == IF posix /\ type = "int" THEN MaxWord ELSE MaxInt
Words == (-MaxCell - 1)..MaxCell

\* Two's complement in a width whose largest value is max.
WrapTo(i, max) == ((i + max + 1) % (2 * max + 2)) - max - 1

\* The conversion (int) of the cell's value, which leaves a pointer as it is.
ToInt(w) == WrapTo(w, MaxInt)

Init ==
  /\ posix \in Platforms /\ type \in Types
  /\ word = 0
  /\ op \in [Threads -> Operations]
  /\ pc = [t \in Threads |-> "idle"]
  /\ ret = [t \in Threads |-> 0]

Call(t) ==
  /\ pc[t] = "idle" /\ pc' = [pc EXCEPT ![t] = "called"]
  /\ \E o \in Operations :
       /\ type = "ptr" => o.kind \in PtrKinds
       /\ op' = [op EXCEPT ![t] = o]
  /\ UNCHANGED <<cell, word, ret>>

\* One instruction of t that leaves w in the cell and returns what was there.
Fetch(t, kind, w, next) ==
  /\ pc[t] = "called" /\ op[t].kind = kind
  /\ pc' = [pc EXCEPT ![t] = next]
  /\ word' = w
  /\ ret' = [ret EXCEPT ![t] = ToInt(word)]
  /\ UNCHANGED <<cell, op>>

Load(t) == Fetch(t, "load", word, "done")

\* Mutant: the sum leaves the width of the cell.
IncUnbounded(t) == Fetch(t, "inc", word + 1, "done")

Inc(t) == Fetch(t, "inc", WrapTo(word + 1, MaxCell), "done")

Dec(t) == Fetch(t, "dec", WrapTo(word - 1, MaxCell), "done")

Add(t) == Fetch(t, "add", WrapTo(word + op[t].arg, MaxCell), "done")

\* Mutant: Interlocked or fetch-and-add with a value that was not negated.
SubNotNegated(t) == Fetch(t, "sub", WrapTo(word + op[t].arg, MaxCell), "done")

Sub(t) == Fetch(t, "sub", WrapTo(word - op[t].arg, MaxCell), "done")

Store(t) == Fetch(t, "store", op[t].arg, IF posix THEN "exchanged" ELSE "done")

Swap(t) == Fetch(t, "swap", op[t].arg, IF posix THEN "exchanged" ELSE "done")

\* The whole word is compared with the int expected.
CompareAndSwap(t) ==
  Fetch(t, "cas", IF word = op[t].expected THEN op[t].arg ELSE word, "done")

\* __sync_lock_release
Release(t) ==
  /\ pc[t] = "exchanged" /\ pc' = [pc EXCEPT ![t] = "done"]
  /\ word' = 0
  /\ UNCHANGED <<cell, op, ret>>

Return(t) ==
  /\ pc[t] = "done" /\ pc' = [pc EXCEPT ![t] = "idle"]
  /\ UNCHANGED <<cell, word, op, ret>>

Step(t) ==
  \/ Load(t) \/ Inc(t) \/ Dec(t) \/ Add(t) \/ Sub(t) \/ Store(t) \/ Swap(t)
  \/ CompareAndSwap(t) \/ Release(t) \/ Return(t)

Next == \E t \in Threads : Call(t) \/ Step(t)

Spec == Init /\ [][Next]_vars

-----------------------------------------------------------------------------

TypeOK ==
  /\ posix \in BOOLEAN /\ type \in {"int", "ptr"}
  /\ word \in Words
  /\ op \in [Threads -> Operations]
  /\ pc \in [Threads -> {"idle", "called", "exchanged", "done"}]
  /\ ret \in [Threads -> Ints]

(***************************************************************************)
(* thread.h:326: "Sets the value of `atomic` as an atomic operation."  The *)
(* last thing a store does to the cell is to leave its argument there.     *)
(***************************************************************************)
SetsTheValue ==
  [][\A t \in Threads :
       (op[t].kind = "store" /\ pc[t] # "done" /\ pc'[t] = "done")
         => word' = op[t].arg]_vars

-----------------------------------------------------------------------------
(***************************************************************************)
(* The refinement mapping: users see the cell as an int, and an operation  *)
(* takes effect with its first instruction.                                *)
(***************************************************************************)
Cell == INSTANCE AtomicCell
          WITH value <- ToInt(word),
               phase <- [t \in Threads |-> IF pc[t] = "exchanged" THEN "done" ELSE pc[t]]

\* A compare-and-swap of a word that is no int: it has been counted past the
\* largest int, and differs from every int it can be compared with.
WideCompare(t) == CompareAndSwap(t) /\ word \notin Ints

(***************************************************************************)
(* thread.h:1030-1231 against thread.h:310-405: every operation takes      *)
(* effect on the int its users see in one step, and returns what was there *)
(* before it, through every overflow and on a cell wider than an int.  Two *)
(* kinds of step are no step of an atomic int: the second write of a store *)
(* or a swap of the gcc builtins, and a compare-and-swap of a wide word.   *)
(***************************************************************************)
ImplementsCell ==
  /\ Cell!Init
  /\ [][(\E t \in Threads : Release(t) \/ WideCompare(t)) \/ Cell!Next]_(Cell!vars)
=============================================================================
