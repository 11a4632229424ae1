------------------------------ MODULE SockTable ------------------------------
(***************************************************************************)
(* sock.h: the table of sockets behind the handles, and what the functions *)
(* make of the answers of the operating system.  A handle is an index into *)
(* the table; index 0 is the null handle, and alloc_socket gives it out    *)
(* when the table is full.                                                 *)
(*                                                                         *)
(* The functions take no lock and are modelled as calls made one at a      *)
(* time by several users of one table.  A user drops a handle once a call  *)
(* on it has returned -1: most of those calls have closed it.              *)
(***************************************************************************)
EXTENDS Integers, FiniteSets

CONSTANTS Users,       \* the parts of a program that use sockets
          MaxSockets,  \* max_sockets
          Fds,         \* descriptors the operating system can give out
          Posix,       \* TRUE: POSIX; FALSE: Winsock
          NoFd         \* a user's handle that is not in use

ASSUME MaxSocketsAssumption == MaxSockets \in Nat
ASSUME FdsAssumption == Fds \subseteq Nat /\ NoFd \notin Fds
ASSUME PosixAssumption == Posix \in BOOLEAN

Handles == 0..MaxSockets

VARIABLES handle, ready, blocking,  \* the fields of sockets[]
          open,       \* descriptors that are open
          held,       \* held[u][h]: the descriptor u believes is behind h
          abandoned,  \* history: the slots a user let go of after a send that went on
          result      \* what the latest call has returned

table == <<handle, ready, blocking>>
vars == <<handle, ready, blocking, open, held, abandoned, result>>

\* Mutant: the loop over the slots stops one short.
InitOneShort ==
  /\ handle = [h \in Handles |-> IF h = MaxSockets THEN 1 ELSE -1]
  /\ ready \in [Handles -> BOOLEAN]
  /\ blocking \in [Handles -> BOOLEAN]
  /\ open = {}
  /\ held = [u \in Users |-> [h \in Handles |-> NoFd]]
  /\ abandoned = {}
  /\ result = -1

\* malloc leaves ready and blocking as they are.
Init ==
  /\ handle = [h \in Handles |-> -1]
  /\ ready \in [Handles -> BOOLEAN]
  /\ blocking \in [Handles -> BOOLEAN]
  /\ open = {}
  /\ held = [u \in Users |-> [h \in Handles |-> NoFd]]
  /\ abandoned = {}
  /\ result = -1

\* Mutant: a slot counts as free by its flags.
FreeSlotsByFlags == {h \in Handles \ {0} : ~ready[h] /\ ~blocking[h]}

\* alloc_socket: the first free index from 1 up, or 0.
FreeSlots == {h \in Handles \ {0} : handle[h] = -1}

AllocSocket ==
  IF FreeSlots = {} THEN 0 ELSE CHOOSE h \in FreeSlots : \A g \in FreeSlots : h <= g

Hold(u, h, f) == held' = [held EXCEPT ![u][h] = f]

\* free_socket
FreeSocket(h) ==
  /\ handle' = [handle EXCEPT ![h] = -1]
  /\ ready' = [ready EXCEPT ![h] = FALSE]
  /\ blocking' = [blocking EXCEPT ![h] = FALSE]

\* Mutant: the descriptor is closed and the slot not freed.
CloseSlotKept(h, f, opened) ==
  /\ handle' = [handle EXCEPT ![h] = f]
  /\ open' = IF f = 0 \/ h = 0 THEN opened ELSE opened \ {f}
  /\ UNCHANGED <<ready, blocking>>

\* Mutant: the slot is freed first, and close is given what is left in it.
CloseSlotFreedFirst(h, f, opened) ==
  IF h = 0
  THEN /\ handle' = [handle EXCEPT ![h] = f]
       /\ open' = opened
       /\ UNCHANGED <<ready, blocking>>
  ELSE /\ FreeSocket(h)
       /\ open' = opened

\* sock_close of a handle whose slot holds f, when the open descriptors are opened.
CloseSlot(h, f, opened) ==
  IF h = 0
  THEN /\ handle' = [handle EXCEPT ![h] = f]
       /\ open' = opened
       /\ UNCHANGED <<ready, blocking>>
  ELSE /\ FreeSocket(h)
       /\ open' = IF f = 0 THEN opened ELSE opened \ {f}

-----------------------------------------------------------------------------
(* Creating sockets *)

\* socket() fails, or gives out a descriptor the functions take for a failure.
CreateFails(u) ==
  LET h == AllocSocket IN
  /\ \E f \in {-1} \cup ({0} \cap (Fds \ open)) :
       CloseSlot(h, f, open \cup ({f} \cap Fds))
  /\ result' = -1
  /\ UNCHANGED <<held, abandoned>>

SockOpen(u) ==
  LET h == AllocSocket IN
  \/ CreateFails(u)
  \/ \E f \in Fds \ (open \cup {0}), non_blocking \in BOOLEAN :
       /\ handle' = [handle EXCEPT ![h] = f]
       /\ blocking' = [blocking EXCEPT ![h] = ~non_blocking]
       /\ open' = open \cup {f}
       /\ Hold(u, h, f)
       /\ result' = 0
       /\ UNCHANGED <<ready, abandoned>>

\* bind, ioctlsocket or fcntl, and listen can fail once there is a descriptor.
SockListen(u) ==
  LET h == AllocSocket IN
  \/ CreateFails(u)
  \/ \E f \in Fds \ (open \cup {0}) :
       /\ CloseSlot(h, f, open \cup {f})
       /\ result' = -1
       /\ UNCHANGED <<held, abandoned>>
  \/ \E f \in Fds \ (open \cup {0}), non_blocking \in BOOLEAN :
       /\ handle' = [handle EXCEPT ![h] = f]
       /\ blocking' = [blocking EXCEPT ![h] = ~non_blocking]
       /\ ready' = [ready EXCEPT ![h] = ready[h] /\ ~non_blocking]
       /\ open' = open \cup {f}
       /\ Hold(u, h, f)
       /\ result' = 0
       /\ UNCHANGED abandoned

-----------------------------------------------------------------------------
(* Using sockets *)

\* would_block, when it asks select.  POSIX select(0, ...) looks at no descriptor and times
\* out at once.  On Winsock the set that is handed to select was never cleared: it need not
\* even hold the socket, and any answer may come of what it holds.
Selects(h) == ~blocking[h] /\ ~ready[h]

WouldBlock(h) ==
  IF ~Selects(h) THEN {"go"} ELSE IF Posix THEN {"wait"} ELSE {"error", "wait", "go"}

\* The part connect, accept, send and receive start with, when it ends the call.
NotReady(u, h) ==
  /\ "wait" \in WouldBlock(h)
  /\ result' = 1
  /\ UNCHANGED <<table, open, held, abandoned>>

\* Mutant: the call fails without closing its socket.
SelectFailsUnclosed(u, h) ==
  /\ "error" \in WouldBlock(h)
  /\ result' = -1
  /\ Hold(u, h, NoFd)
  /\ UNCHANGED <<table, open, abandoned>>

SelectFails(u, h) ==
  /\ "error" \in WouldBlock(h)
  /\ CloseSlot(h, handle[h], open)
  /\ result' = -1
  /\ Hold(u, h, NoFd)
  /\ UNCHANGED abandoned

\* The part that lets the call go on.
GoesOn(h) ==
  /\ "go" \in WouldBlock(h)
  /\ ready' = [ready EXCEPT ![h] = ready[h] \/ Selects(h)]

Uses(u, h) == h # 0 /\ held[u][h] # NoFd

SockConnect(u, h) ==
  /\ Uses(u, h)
  /\ \/ NotReady(u, h)
     \/ SelectFails(u, h)
     \/ /\ GoesOn(h)
        /\ result' = 0
        /\ UNCHANGED <<handle, blocking, open, held, abandoned>>
     \/ /\ "go" \in WouldBlock(h)
        /\ CloseSlot(h, handle[h], open)
        /\ result' = -1
        /\ Hold(u, h, NoFd)
        /\ UNCHANGED abandoned

\* A new descriptor goes into the first free slot, or into slot 0; accept that fails, for
\* whatever reason, makes the call return 2.
SockAccept(u, h) ==
  /\ Uses(u, h)
  /\ \/ NotReady(u, h)
     \/ SelectFails(u, h)
     \/ /\ GoesOn(h)
        /\ result' = 2
        /\ UNCHANGED <<handle, blocking, open, held, abandoned>>
     \/ \E f \in Fds \ open :
          LET g == AllocSocket IN
          /\ "go" \in WouldBlock(h)
          /\ handle' = [handle EXCEPT ![g] = f]
          /\ blocking' = [blocking EXCEPT ![g] = blocking[h]]
          /\ ready' = [ready EXCEPT ![h] = ready[h] \/ Selects(h), ![g] = FALSE]
          /\ open' = open \cup {f}
          /\ Hold(u, g, f)
          /\ result' = 0
          /\ UNCHANGED abandoned

\* send that fails, or that takes less than size bytes.
SockSend(u, h) ==
  /\ Uses(u, h)
  /\ \/ NotReady(u, h)
     \/ SelectFails(u, h)
     \/ /\ GoesOn(h)
        /\ \/ result' = 0 /\ UNCHANGED <<held, abandoned>>
           \/ result' = -1 /\ Hold(u, h, NoFd) /\ abandoned' = abandoned \cup {h}
        /\ UNCHANGED <<handle, blocking, open>>

\* recv returns a number of bytes (2 stands for them all), or 0 at the end or an error.
SockReceive(u, h) ==
  /\ Uses(u, h)
  /\ \/ NotReady(u, h)
     \/ SelectFails(u, h)
     \/ /\ GoesOn(h)
        /\ result' = 2 \/ result' = 0
        /\ UNCHANGED <<handle, blocking, open, held, abandoned>>

\* The functions turn the null handle down before anything else.
NullHandle(u) ==
  /\ held[u][0] # NoFd
  /\ result' = -1
  /\ UNCHANGED <<table, open, held, abandoned>>

\* The null handle is not closed, nor what slot 0 holds.
SockClose(u, h) ==
  /\ held[u][h] # NoFd
  /\ CloseSlot(h, handle[h], open)
  /\ Hold(u, h, NoFd)
  /\ UNCHANGED <<abandoned, result>>

-----------------------------------------------------------------------------

Next ==
  \E u \in Users :
    \/ SockOpen(u) \/ SockListen(u) \/ NullHandle(u)
    \/ \E h \in Handles :
         \/ SockConnect(u, h) \/ SockAccept(u, h)
         \/ SockSend(u, h) \/ SockReceive(u, h) \/ SockClose(u, h)

Spec == Init /\ [][Next]_vars

-----------------------------------------------------------------------------

TypeOK ==
  /\ handle \in [Handles -> Fds \cup {-1}]
  /\ ready \in [Handles -> BOOLEAN]
  /\ blocking \in [Handles -> BOOLEAN]
  /\ open \subseteq Fds
  /\ held \in [Users -> [Handles -> Fds \cup {NoFd}]]
  /\ abandoned \subseteq Handles /\ result \in {-1, 0, 1, 2}

(***************************************************************************)
(* Lines 108 to 120, 167 to 182 and 283 to 317: every slot in use has an   *)
(* open descriptor of its own, so that no call on one socket reaches the   *)
(* connection of another, even after failed calls and a full table.        *)
(***************************************************************************)
SlotsOwnFds ==
  /\ \A h \in Handles : handle[h] # -1 => handle[h] \in open
  /\ \A g, h \in Handles : (g # h /\ handle[g] # -1) => handle[g] # handle[h]

(***************************************************************************)
(* Lines 169 to 380: a handle means the same socket from the call that     *)
(* returned it to the one that closed it or failed, and no two users are   *)
(* ever given the same handle at the same time, although slots are given   *)
(* out again at once.  The null handle, which a full table gives out, is   *)
(* excepted.                                                               *)
(***************************************************************************)
HeldMeansOwn ==
  \A u \in Users, h \in Handles \ {0} :
    held[u][h] # NoFd =>
      /\ handle[h] = held[u][h]
      /\ \A v \in Users \ {u} : held[v][h] = NoFd

(***************************************************************************)
(* Lines 169 to 355: there is always somebody who can close a slot that is *)
(* in use.  No call leaves one behind that nobody has a handle of, however *)
(* many of its system calls succeeded before one failed.  The exception is *)
(* a send that takes less than size bytes: it returns -1 like the calls    *)
(* that have closed their socket, and has not closed it (line 351).        *)
(***************************************************************************)
NoSlotLost ==
  \A h \in Handles \ {0} :
    handle[h] # -1 => h \in abandoned \/ \E u \in Users : held[u][h] # NoFd

(***************************************************************************)
(* Lines 169 to 332: no call leaves a descriptor behind.  A descriptor     *)
(* that the call was given, or that was in a slot before, is in a slot     *)
(* from which sock_close can close it, or it is closed, whatever failed on *)
(* the way.  What a full table puts into slot 0 is excepted, and so is     *)
(* descriptor 0, which the functions take for a failure.                   *)
(***************************************************************************)
InSlot(f) == \E h \in Handles \ {0} : handle[h] = f

NoFdLeak ==
  [][\A f \in open' \ {0, handle'[0]} :
       InSlot(f)' \/ (f \in open /\ ~InSlot(f))]_vars
=============================================================================
