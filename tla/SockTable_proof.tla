--------------------------- MODULE SockTable_proof ---------------------------
(* Theorems about SockTable, for any users, table size and descriptors. *)
EXTENDS SockTable, WellFoundedInduction, TLAPS

\* What the assumptions on the constants say.
LEMMA ConstantFacts == -1 \notin Fds /\ 0 \in Handles /\ Fds \subseteq Nat
BY MaxSocketsAssumption, FdsAssumption DEF Handles

\* A set of numbers that is not empty has a least one.
LEMMA LeastExists ==
  ASSUME NEW S, S \subseteq Nat, S # {}
  PROVE  \E m \in S : \A n \in S : m <= n
<1>1. PICK m \in S : \A n \in S : ~(<<n, m>> \in OpToRel(<, Nat))
  BY NatLessThanWellFounded, WFMin
<1>2. ASSUME NEW n \in S PROVE m <= n
  <2>1. n \in Nat /\ m \in Nat /\ <<n, m>> \in Nat \X Nat
    OBVIOUS
  <2>2. ~(n < m)
    BY <1>1, <2>1 DEF OpToRel
  <2>3. QED
    BY <2>1, <2>2
<1>3. QED
  BY <1>2

\* alloc_socket returns a slot that is free, or the null handle.
LEMMA AllocIsFree ==
  /\ AllocSocket \in Handles
  /\ AllocSocket = 0 \/ handle[AllocSocket] = -1
<1>1. CASE FreeSlots = {}
  BY <1>1, ConstantFacts DEF AllocSocket
<1>2. CASE FreeSlots # {}
  <2>1. FreeSlots \subseteq Nat /\ FreeSlots \subseteq Handles
    BY MaxSocketsAssumption DEF FreeSlots, Handles
  <2>2. \E h \in FreeSlots : \A g \in FreeSlots : h <= g
    BY <1>2, <2>1, LeastExists
  <2>3. AllocSocket \in FreeSlots
    BY <1>2, <2>2 DEF AllocSocket
  <2>4. QED
    BY <2>1, <2>3 DEF FreeSlots
<1>3. QED
  BY <1>1, <1>2

-----------------------------------------------------------------------------
(* What a step does to the slots, the descriptors and the handles: one of four things. *)

\* Nothing, but that a user may abandon a slot.
Abandons(u, h) == Hold(u, h, NoFd) /\ abandoned' = abandoned \cup {h}

Stays ==
  /\ UNCHANGED <<handle, open>>
  /\ UNCHANGED <<held, abandoned>> \/ \E u \in Users, h \in Handles : Abandons(u, h)

\* A user is given a new descriptor behind a free slot, or behind the null handle.
Gives(u, h, f) ==
  /\ h = 0 \/ handle[h] = -1
  /\ f \notin open
  /\ handle' = [handle EXCEPT ![h] = f]
  /\ open' = open \cup {f}
  /\ Hold(u, h, f)
  /\ UNCHANGED abandoned

\* A user's handle is closed and dropped.
Closes(u, h) ==
  /\ held[u][h] # NoFd
  /\ CloseSlot(h, handle[h], open)
  /\ Hold(u, h, NoFd)
  /\ UNCHANGED abandoned

\* A call that creates a socket fails, with or without a descriptor.
Drops(h, f) ==
  /\ h = 0 \/ handle[h] = -1
  /\ f \notin open
  /\ CloseSlot(h, f, open \cup ({f} \cap Fds))
  /\ UNCHANGED <<held, abandoned>>

Shapes ==
  \/ Stays
  \/ \E u \in Users, h \in Handles, f \in Fds : Gives(u, h, f)
  \/ \E u \in Users, h \in Handles : Closes(u, h)
  \/ \E h \in Handles, f \in Fds \cup {-1} : Drops(h, f)

\* socket() fails: CreateFails is one of the four.
LEMMA CreateFailsShape ==
  ASSUME open \subseteq Fds, NEW u, CreateFails(u)
  PROVE  Shapes
<1> DEFINE h == AllocSocket
<1>1. h \in Handles /\ (h = 0 \/ handle[h] = -1)
  BY AllocIsFree
<1>2. PICK f \in {-1} \cup ({0} \cap (Fds \ open)) : CloseSlot(h, f, open \cup ({f} \cap Fds))
  BY DEF CreateFails
<1>3. UNCHANGED <<held, abandoned>>
  BY DEF CreateFails
<1> HIDE DEF h
<1>4. f \in Fds \cup {-1} /\ f \notin open
  BY ConstantFacts
<1>5. Drops(h, f)
  BY <1>1, <1>2, <1>3, <1>4 DEF Drops
<1>6. QED
  BY <1>1, <1>4, <1>5 DEF Shapes

\* A use that ends before it starts is one of the four.
LEMMA UseShape ==
  ASSUME NEW u \in Users, NEW h \in Handles, Uses(u, h),
         NotReady(u, h) \/ SelectFails(u, h)
  PROVE  Shapes
<1>1. CASE NotReady(u, h)
  BY <1>1 DEF NotReady, table, Shapes, Stays
<1>2. CASE SelectFails(u, h)
  <2>1. Closes(u, h)
    BY <1>2 DEF SelectFails, Closes, Uses
  <2>2. QED
    BY <2>1 DEF Shapes
<1>3. QED
  BY <1>1, <1>2

\* Every step of the specification is one of the four.
LEMMA StepShape ==
  ASSUME open \subseteq Fds, [Next]_vars
  PROVE  Shapes
<1> DEFINE a == AllocSocket
<1>1. a \in Handles /\ (a = 0 \/ handle[a] = -1)
  BY AllocIsFree
<1>2. CASE UNCHANGED vars
  BY <1>2 DEF vars, Shapes, Stays
<1>3. ASSUME NEW u \in Users, SockOpen(u) PROVE Shapes
  <2>1. CASE CreateFails(u)
    BY <2>1, CreateFailsShape
  <2>2. CASE ~CreateFails(u)
    <3>1. PICK f \in Fds \ (open \cup {0}) :
            /\ handle' = [handle EXCEPT ![a] = f]
            /\ open' = open \cup {f}
            /\ Hold(u, a, f)
            /\ UNCHANGED abandoned
      BY <1>3, <2>2 DEF SockOpen
    <3> HIDE DEF a
    <3>2. Gives(u, a, f)
      BY <1>1, <3>1 DEF Gives
    <3>3. QED
      BY <1>1, <3>2 DEF Shapes
  <2>3. QED
    BY <2>1, <2>2
<1>4. ASSUME NEW u \in Users, SockListen(u) PROVE Shapes
  <2>1. CASE CreateFails(u)
    BY <2>1, CreateFailsShape
  <2>2. CASE ~CreateFails(u)
    <3>1. PICK f \in Fds \ (open \cup {0}) :
            \/ /\ CloseSlot(a, f, open \cup {f})
               /\ UNCHANGED <<held, abandoned>>
            \/ /\ handle' = [handle EXCEPT ![a] = f]
               /\ open' = open \cup {f}
               /\ Hold(u, a, f)
               /\ UNCHANGED abandoned
      BY <1>4, <2>2 DEF SockListen
    <3> HIDE DEF a
    <3>2. CASE CloseSlot(a, f, open \cup {f}) /\ UNCHANGED <<held, abandoned>>
      <4>1. {f} \cap Fds = {f} /\ f \notin open
        BY <3>1
      <4>2. Drops(a, f)
        BY <1>1, <3>2, <4>1 DEF Drops
      <4>3. QED
        BY <1>1, <4>2 DEF Shapes
    <3>3. CASE ~(CloseSlot(a, f, open \cup {f}) /\ UNCHANGED <<held, abandoned>>)
      <4>1. Gives(u, a, f)
        BY <1>1, <3>1, <3>3 DEF Gives
      <4>2. QED
        BY <1>1, <4>1 DEF Shapes
    <3>4. QED
      BY <3>2, <3>3
  <2>3. QED
    BY <2>1, <2>2
<1>5. ASSUME NEW u \in Users, NEW h \in Handles, SockConnect(u, h) PROVE Shapes
  <2>1. Uses(u, h)
    BY <1>5 DEF SockConnect
  <2>2. CASE NotReady(u, h) \/ SelectFails(u, h)
    BY <2>1, <2>2, UseShape
  <2>3. CASE UNCHANGED <<handle, open, held, abandoned>>
    BY <2>3 DEF Shapes, Stays
  <2>4. CASE CloseSlot(h, handle[h], open) /\ Hold(u, h, NoFd) /\ UNCHANGED abandoned
    BY <2>1, <2>4 DEF Shapes, Closes, Uses
  <2>5. QED
    BY <1>5, <2>2, <2>3, <2>4 DEF SockConnect
<1>6. ASSUME NEW u \in Users, NEW h \in Handles, SockAccept(u, h) PROVE Shapes
  <2>1. Uses(u, h)
    BY <1>6 DEF SockAccept
  <2>2. CASE NotReady(u, h) \/ SelectFails(u, h)
    BY <2>1, <2>2, UseShape
  <2>3. CASE UNCHANGED <<handle, open, held, abandoned>>
    BY <2>3 DEF Shapes, Stays
  <2>4. CASE \E f \in Fds \ open :
               /\ handle' = [handle EXCEPT ![a] = f]
               /\ open' = open \cup {f}
               /\ Hold(u, a, f)
               /\ UNCHANGED abandoned
    <3> HIDE DEF a
    <3>1. PICK f \in Fds \ open :
            /\ handle' = [handle EXCEPT ![a] = f]
            /\ open' = open \cup {f}
            /\ Hold(u, a, f)
            /\ UNCHANGED abandoned
      BY <2>4
    <3>2. Gives(u, a, f)
      BY <1>1, <3>1 DEF Gives
    <3>3. QED
      BY <1>1, <3>2 DEF Shapes
  <2>5. QED
    BY <1>6, <2>2, <2>3, <2>4 DEF SockAccept
<1>7. ASSUME NEW u \in Users, NEW h \in Handles, SockSend(u, h) PROVE Shapes
  <2>1. Uses(u, h)
    BY <1>7 DEF SockSend
  <2>2. CASE NotReady(u, h) \/ SelectFails(u, h)
    BY <2>1, <2>2, UseShape
  <2>3. CASE UNCHANGED <<handle, open>> /\ (UNCHANGED <<held, abandoned>> \/ Abandons(u, h))
    BY <2>3 DEF Shapes, Stays
  <2>4. QED
    BY <1>7, <2>2, <2>3 DEF SockSend, Abandons
<1>8. ASSUME NEW u \in Users, NEW h \in Handles, SockReceive(u, h) PROVE Shapes
  <2>1. Uses(u, h)
    BY <1>8 DEF SockReceive
  <2>2. CASE NotReady(u, h) \/ SelectFails(u, h)
    BY <2>1, <2>2, UseShape
  <2>3. CASE UNCHANGED <<handle, open, held, abandoned>>
    BY <2>3 DEF Shapes, Stays
  <2>4. QED
    BY <1>8, <2>2, <2>3 DEF SockReceive
<1>9. ASSUME NEW u \in Users, NEW h \in Handles, SockClose(u, h) PROVE Shapes
  BY <1>9 DEF SockClose, Shapes, Closes
<1>10. ASSUME NEW u \in Users, NullHandle(u) PROVE Shapes
  BY <1>10 DEF NullHandle, table, Shapes, Stays
<1>11. QED
  BY <1>2, <1>3, <1>4, <1>5, <1>6, <1>7, <1>8, <1>9, <1>10 DEF Next

-----------------------------------------------------------------------------
(* Every slot in use has an open descriptor of its own. *)

SlotsInv ==
  /\ handle \in [Handles -> Fds \cup {-1}]
  /\ open \subseteq Fds
  /\ SlotsOwnFds

\* A descriptor the system has just given out may go into any slot.
LEMMA NewDescriptor ==
  ASSUME SlotsInv, NEW h \in Handles, NEW f \in Fds \ open,
         handle' = [handle EXCEPT ![h] = f], open' = open \cup {f}
  PROVE  SlotsInv'
BY ConstantFacts DEF SlotsInv, SlotsOwnFds

\* Closing the slot of an open descriptor frees the slot, and the descriptor unless it is 0.
LEMMA SlotClosed ==
  ASSUME SlotsInv, NEW h \in Handles, CloseSlot(h, handle[h], open)
  PROVE  SlotsInv'
<1>1. CASE h = 0
  BY <1>1 DEF CloseSlot, SlotsInv, SlotsOwnFds
<1>2. CASE h # 0
  <2>1. /\ handle' = [handle EXCEPT ![h] = -1]
        /\ open' = open \/ open' = open \ {handle[h]}
    BY <1>2 DEF CloseSlot, FreeSocket
  <2>2. QED
    BY <2>1, ConstantFacts DEF SlotsInv, SlotsOwnFds
<1>3. QED
  BY <1>1, <1>2

\* A call that has a new descriptor and fails closes it, except behind the null handle.
LEMMA NewDescriptorClosed ==
  ASSUME SlotsInv, NEW h \in Handles, h = 0 \/ handle[h] = -1, NEW f \in Fds \ open,
         CloseSlot(h, f, open \cup {f})
  PROVE  SlotsInv'
<1>1. CASE h = 0
  <2>1. handle' = [handle EXCEPT ![h] = f] /\ open' = open \cup {f}
    BY <1>1 DEF CloseSlot
  <2>2. QED
    BY <2>1, NewDescriptor
<1>2. CASE h # 0
  <2>1. /\ handle' = [handle EXCEPT ![h] = -1]
        /\ open' = open \/ open' = open \cup {f}
    BY <1>2 DEF CloseSlot, FreeSocket
  <2>2. QED
    BY <2>1, ConstantFacts DEF SlotsInv, SlotsOwnFds
<1>3. QED
  BY <1>1, <1>2

\* socket() has failed.
LEMMA NoDescriptorClosed ==
  ASSUME SlotsInv, NEW h \in Handles, h = 0 \/ handle[h] = -1, CloseSlot(h, -1, open)
  PROVE  SlotsInv'
<1>1. handle' = [handle EXCEPT ![h] = -1] /\ open' = open
  BY ConstantFacts DEF CloseSlot, FreeSocket, SlotsInv
<1>2. QED
  BY <1>1, ConstantFacts DEF SlotsInv, SlotsOwnFds

\* Each of the four keeps every slot in use with an open descriptor of its own.
LEMMA SlotsStep ==
  ASSUME SlotsInv, Shapes
  PROVE  SlotsInv'
<1>1. CASE Stays
  BY <1>1 DEF Stays, SlotsInv, SlotsOwnFds
<1>2. ASSUME NEW u \in Users, NEW h \in Handles, NEW f \in Fds, Gives(u, h, f)
      PROVE  SlotsInv'
  BY <1>2, NewDescriptor DEF Gives
<1>3. ASSUME NEW u \in Users, NEW h \in Handles, Closes(u, h)
      PROVE  SlotsInv'
  BY <1>3, SlotClosed DEF Closes
<1>4. ASSUME NEW h \in Handles, NEW f \in Fds \cup {-1}, Drops(h, f)
      PROVE  SlotsInv'
  <2>1. CASE f = -1
    <3>1. open \cup ({f} \cap Fds) = open
      BY <2>1, ConstantFacts
    <3>2. QED
      BY <1>4, <2>1, <3>1, NoDescriptorClosed DEF Drops
  <2>2. CASE f # -1
    <3>1. f \in Fds \ open /\ open \cup ({f} \cap Fds) = open \cup {f}
      BY <1>4, <2>2 DEF Drops
    <3>2. QED
      BY <1>4, <3>1, NewDescriptorClosed DEF Drops
  <2>3. QED
    BY <2>1, <2>2
<1>5. QED
  BY <1>1, <1>2, <1>3, <1>4 DEF Shapes

\* sock.h:103-362: through every sequence of calls and failures of any users, a full table
\* and descriptor 0 included, no two slots share a descriptor and none holds a closed one.
THEOREM SlotsOwnDescriptors == Spec => []SlotsOwnFds
<1>1. Init => SlotsInv
  BY DEF Init, SlotsInv, SlotsOwnFds
<1>2. SlotsInv /\ [Next]_vars => SlotsInv'
  <2>1. ASSUME SlotsInv, [Next]_vars PROVE SlotsInv'
    <3>1. Shapes
      BY <2>1, StepShape DEF SlotsInv
    <3>2. QED
      BY <2>1, <3>1, SlotsStep
  <2>2. QED
    BY <2>1
<1>3. SlotsInv => SlotsOwnFds
  BY DEF SlotsInv
<1>4. QED
  BY <1>1, <1>2, <1>3, PTL DEF Spec

-----------------------------------------------------------------------------
(* Types *)

\* The part of TypeOK that the four shapes decide, and the part they do not.
ShapeTypes ==
  /\ handle \in [Handles -> Fds \cup {-1}]
  /\ open \subseteq Fds /\ abandoned \subseteq Handles
  /\ held \in [Users -> [Handles -> Fds \cup {NoFd}]]

FlagTypes ==
  /\ ready \in [Handles -> BOOLEAN]
  /\ blocking \in [Handles -> BOOLEAN]
  /\ result \in {-1, 0, 1, 2}

\* Writing one handle of one user leaves all the others.
LEMMA HoldSets ==
  ASSUME ShapeTypes, NEW u \in Users, NEW h \in Handles, NEW f \in Fds \cup {NoFd},
         Hold(u, h, f)
  PROVE  /\ held' \in [Users -> [Handles -> Fds \cup {NoFd}]]
         /\ held'[u][h] = f
         /\ \A v \in Users, g \in Handles : v # u \/ g # h => held'[v][g] = held[v][g]
<1>1. held' = [held EXCEPT ![u] = [held[u] EXCEPT ![h] = f]]
  BY DEF Hold
<1>2. held[u] \in [Handles -> Fds \cup {NoFd}]
  BY DEF ShapeTypes
<1> DEFINE row == [held[u] EXCEPT ![h] = f]
<1>3. /\ row \in [Handles -> Fds \cup {NoFd}]
      /\ row[h] = f
      /\ \A g \in Handles \ {h} : row[g] = held[u][g]
  BY <1>2
<1> HIDE DEF row
<1>4. held' = [held EXCEPT ![u] = row]
  BY <1>1 DEF row
<1>5. held' \in [Users -> [Handles -> Fds \cup {NoFd}]] /\ held'[u] = row
  BY <1>3, <1>4 DEF ShapeTypes
<1>6. \A v \in Users \ {u} : held'[v] = held[v]
  BY <1>4 DEF ShapeTypes
<1>7. QED
  BY <1>3, <1>5, <1>6

\* What sock_close leaves of the slots and the descriptors.
LEMMA CloseSlotEffect ==
  ASSUME ShapeTypes, NEW h \in Handles, NEW f, NEW opened, open \subseteq opened,
         opened \subseteq Fds, CloseSlot(h, f, opened)
  PROVE  /\ h = 0 => handle' = [handle EXCEPT ![h] = f] /\ open' = opened
         /\ h # 0 => /\ handle' = [handle EXCEPT ![h] = -1]
                     /\ open' = IF f = 0 THEN opened ELSE opened \ {f}
         /\ open' \subseteq Fds
BY DEF CloseSlot, FreeSocket, ShapeTypes

\* Each of the four keeps the types of what it changes.
LEMMA ShapeTypesStep ==
  ASSUME ShapeTypes, Shapes
  PROVE  ShapeTypes'
<1>1. CASE Stays
  <2>1. held' \in [Users -> [Handles -> Fds \cup {NoFd}]]
    BY <1>1, HoldSets DEF Stays, Abandons, ShapeTypes
  <2>2. QED
    BY <1>1, <2>1 DEF Stays, Abandons, ShapeTypes
<1>2. ASSUME NEW u \in Users, NEW h \in Handles, NEW f \in Fds, Gives(u, h, f)
      PROVE  ShapeTypes'
  <2>1. held' \in [Users -> [Handles -> Fds \cup {NoFd}]]
    BY <1>2, HoldSets DEF Gives
  <2>2. QED
    BY <1>2, <2>1 DEF Gives, ShapeTypes
<1>3. ASSUME NEW u \in Users, NEW h \in Handles, Closes(u, h)
      PROVE  ShapeTypes'
  <2>1. held' \in [Users -> [Handles -> Fds \cup {NoFd}]]
    BY <1>3, HoldSets DEF Closes
  <2>2. handle[h] \in Fds \cup {-1} /\ open \subseteq Fds
    BY DEF ShapeTypes
  <2>3. /\ handle' = [handle EXCEPT ![h] = handle[h]] \/ handle' = [handle EXCEPT ![h] = -1]
        /\ open' \subseteq Fds
    BY <1>3, <2>2, CloseSlotEffect DEF Closes
  <2>4. abandoned' = abandoned
    BY <1>3 DEF Closes
  <2>5. QED
    BY <2>1, <2>2, <2>3, <2>4 DEF ShapeTypes
<1>4. ASSUME NEW h \in Handles, NEW f \in Fds \cup {-1}, Drops(h, f)
      PROVE  ShapeTypes'
  <2>1. held' \in [Users -> [Handles -> Fds \cup {NoFd}]]
    BY <1>4 DEF Drops, ShapeTypes
  <2>2. open \subseteq Fds
    BY DEF ShapeTypes
  <2>3. /\ handle' = [handle EXCEPT ![h] = f] \/ handle' = [handle EXCEPT ![h] = -1]
        /\ open' \subseteq Fds
    BY <1>4, <2>2, CloseSlotEffect DEF Drops
  <2>4. abandoned' = abandoned
    BY <1>4 DEF Drops
  <2>5. QED
    BY <2>1, <2>3, <2>4 DEF ShapeTypes
<1>5. QED
  BY <1>1, <1>2, <1>3, <1>4 DEF Shapes

\* free_socket, and so sock_close, leave the flags of every slot flags.
LEMMA CloseSlotFlags ==
  ASSUME FlagTypes, NEW h \in Handles, NEW f, NEW opened, CloseSlot(h, f, opened)
  PROVE  ready' \in [Handles -> BOOLEAN] /\ blocking' \in [Handles -> BOOLEAN]
BY DEF CloseSlot, FreeSocket, FlagTypes

\* A use that ends before it starts leaves every flag a flag.
LEMMA UseFlags ==
  ASSUME FlagTypes, NEW u, NEW h \in Handles,
         NotReady(u, h) \/ SelectFails(u, h)
  PROVE  FlagTypes'
<1>1. CASE NotReady(u, h)
  BY <1>1 DEF NotReady, table, FlagTypes
<1>2. CASE SelectFails(u, h)
  BY <1>2, CloseSlotFlags DEF SelectFails, FlagTypes
<1>3. QED
  BY <1>1, <1>2

\* A use that goes on records that the socket was ready, in a flag.
LEMMA GoesOnFlags ==
  ASSUME FlagTypes, NEW h \in Handles, GoesOn(h)
  PROVE  ready' \in [Handles -> BOOLEAN]
BY DEF GoesOn, FlagTypes

\* Every step leaves every flag a flag and reports a result of the type.
LEMMA FlagTypesStep ==
  ASSUME FlagTypes, [Next]_vars
  PROVE  FlagTypes'
<1> DEFINE a == AllocSocket
<1>1. a \in Handles
  BY AllocIsFree
<1>2. CASE UNCHANGED vars
  BY <1>2 DEF vars, FlagTypes
<1>3. ASSUME NEW u, CreateFails(u) PROVE FlagTypes'
  BY <1>1, <1>3, CloseSlotFlags DEF CreateFails, FlagTypes
<1>4. ASSUME NEW u \in Users, SockOpen(u) PROVE FlagTypes'
  <2>1. CASE CreateFails(u)
    BY <1>3, <2>1
  <2>2. CASE ~CreateFails(u)
    <3>1. PICK non_blocking \in BOOLEAN :
            /\ blocking' = [blocking EXCEPT ![a] = ~non_blocking]
            /\ UNCHANGED ready
            /\ result' = 0
      BY <1>4, <2>2 DEF SockOpen
    <3> HIDE DEF a
    <3>2. QED
      BY <1>1, <3>1 DEF FlagTypes
  <2>3. QED
    BY <2>1, <2>2
<1>5. ASSUME NEW u \in Users, SockListen(u) PROVE FlagTypes'
  <2>1. CASE CreateFails(u)
    BY <1>3, <2>1
  <2>2. CASE \E f \in Fds \ (open \cup {0}) : CloseSlot(a, f, open \cup {f}) /\ result' = -1
    <3> HIDE DEF a
    <3>1. QED
      BY <1>1, <2>2, CloseSlotFlags DEF FlagTypes
  <2>3. CASE \E non_blocking \in BOOLEAN :
               /\ blocking' = [blocking EXCEPT ![a] = ~non_blocking]
               /\ ready' = [ready EXCEPT ![a] = ready[a] /\ ~non_blocking]
               /\ result' = 0
    <3> HIDE DEF a
    <3>1. PICK non_blocking \in BOOLEAN :
            /\ blocking' = [blocking EXCEPT ![a] = ~non_blocking]
            /\ ready' = [ready EXCEPT ![a] = ready[a] /\ ~non_blocking]
            /\ result' = 0
      BY <2>3
    <3>2. (ready[a] /\ ~non_blocking) \in BOOLEAN /\ (~non_blocking) \in BOOLEAN
      OBVIOUS
    <3>3. QED
      BY <1>1, <3>1, <3>2 DEF FlagTypes
  <2>4. QED
    BY <1>5, <2>1, <2>2, <2>3 DEF SockListen
<1>6. ASSUME NEW u \in Users, NEW h \in Handles, SockConnect(u, h) PROVE FlagTypes'
  <2>1. CASE NotReady(u, h) \/ SelectFails(u, h)
    BY <2>1, UseFlags
  <2>2. CASE GoesOn(h) /\ result' = 0 /\ UNCHANGED blocking
    BY <2>2, GoesOnFlags DEF FlagTypes
  <2>3. CASE CloseSlot(h, handle[h], open) /\ result' = -1
    BY <2>3, CloseSlotFlags DEF FlagTypes
  <2>4. QED
    BY <1>6, <2>1, <2>2, <2>3 DEF SockConnect
<1>7. ASSUME NEW u \in Users, NEW h \in Handles, SockAccept(u, h) PROVE FlagTypes'
  <2>1. CASE NotReady(u, h) \/ SelectFails(u, h)
    BY <2>1, UseFlags
  <2>2. CASE GoesOn(h) /\ result' = 2 /\ UNCHANGED blocking
    BY <2>2, GoesOnFlags DEF FlagTypes
  <2>3. CASE /\ blocking' = [blocking EXCEPT ![a] = blocking[h]]
             /\ ready' = [ready EXCEPT ![h] = ready[h] \/ Selects(h), ![a] = FALSE]
             /\ result' = 0
    <3> HIDE DEF a
    <3>1. ready' \in [Handles -> BOOLEAN] /\ blocking' \in [Handles -> BOOLEAN]
      BY <1>1, <2>3 DEF FlagTypes
    <3>2. QED
      BY <2>3, <3>1 DEF FlagTypes
  <2>4. QED
    BY <1>7, <2>1, <2>2, <2>3 DEF SockAccept
<1>8. ASSUME NEW u \in Users, NEW h \in Handles, SockSend(u, h) PROVE FlagTypes'
  <2>1. CASE NotReady(u, h) \/ SelectFails(u, h)
    BY <2>1, UseFlags
  <2>2. CASE GoesOn(h) /\ (result' = 0 \/ result' = -1) /\ UNCHANGED blocking
    BY <2>2, GoesOnFlags DEF FlagTypes
  <2>3. QED
    BY <1>8, <2>1, <2>2 DEF SockSend
<1>9. ASSUME NEW u \in Users, NEW h \in Handles, SockReceive(u, h) PROVE FlagTypes'
  <2>1. CASE NotReady(u, h) \/ SelectFails(u, h)
    BY <2>1, UseFlags
  <2>2. CASE GoesOn(h) /\ (result' = 2 \/ result' = 0) /\ UNCHANGED blocking
    BY <2>2, GoesOnFlags DEF FlagTypes
  <2>3. QED
    BY <1>9, <2>1, <2>2 DEF SockReceive
<1>10. ASSUME NEW u \in Users, NEW h \in Handles, SockClose(u, h) PROVE FlagTypes'
  BY <1>10, CloseSlotFlags DEF SockClose, FlagTypes
<1>11. ASSUME NEW u \in Users, NullHandle(u) PROVE FlagTypes'
  BY <1>11 DEF NullHandle, table, FlagTypes
<1>12. QED
  BY <1>2, <1>4, <1>5, <1>6, <1>7, <1>8, <1>9, <1>10, <1>11 DEF Next

\* sock.h:91-380: every slot holds -1 or a descriptor the system has given out, every flag is
\* set by the time it is read, and the functions return nothing but -1, 0, 1 and 2.
THEOREM TypeOKInvariant == Spec => []TypeOK
<1>1. Init => ShapeTypes /\ FlagTypes
  BY DEF Init, ShapeTypes, FlagTypes
<1>2. ShapeTypes /\ FlagTypes /\ [Next]_vars => (ShapeTypes /\ FlagTypes)'
  <2>1. ASSUME ShapeTypes, [Next]_vars PROVE ShapeTypes'
    <3>1. Shapes
      BY <2>1, StepShape DEF ShapeTypes
    <3>2. QED
      BY <2>1, <3>1, ShapeTypesStep
  <2>2. QED
    BY <2>1, FlagTypesStep
<1>3. ShapeTypes /\ FlagTypes => TypeOK
  BY DEF ShapeTypes, FlagTypes, TypeOK
<1>4. QED
  BY <1>1, <1>2, <1>3, PTL DEF Spec

-----------------------------------------------------------------------------
(* A handle means one socket. *)

\* Each of the four keeps every handle with the user and the socket it was given for.
LEMMA HeldStep ==
  ASSUME ShapeTypes, HeldMeansOwn, Shapes
  PROVE  HeldMeansOwn'
<1>1. CASE Stays
  <2>1. CASE held' = held
    BY <1>1, <2>1 DEF Stays, HeldMeansOwn
  <2>2. CASE held' # held
    <3>1. PICK u \in Users, h \in Handles : Hold(u, h, NoFd)
      BY <1>1, <2>2 DEF Stays, Abandons
    <3>2. \A v \in Users, g \in Handles : held'[v][g] \in {held[v][g], NoFd}
      BY <3>1, HoldSets
    <3>3. handle' = handle
      BY <1>1 DEF Stays
    <3>4. QED
      BY <3>2, <3>3 DEF HeldMeansOwn
  <2>3. QED
    BY <2>1, <2>2
<1>2. ASSUME NEW u \in Users, NEW h \in Handles, NEW f \in Fds, Gives(u, h, f)
      PROVE  HeldMeansOwn'
  <2>1. /\ held'[u][h] = f
        /\ \A v \in Users, g \in Handles : v # u \/ g # h => held'[v][g] = held[v][g]
    BY <1>2, HoldSets DEF Gives
  <2>2. handle'[h] = f /\ \A g \in Handles \ {h} : handle'[g] = handle[g]
    BY <1>2 DEF Gives, ShapeTypes
  <2>3. \A v \in Users : held[v][h] \in Fds \cup {NoFd}
    BY DEF ShapeTypes
  <2>4. h # 0 => \A v \in Users : held[v][h] = NoFd
    BY <1>2, <2>3, ConstantFacts DEF Gives, HeldMeansOwn
  <2>5. QED
    BY <2>1, <2>2, <2>4 DEF HeldMeansOwn
<1>3. ASSUME NEW u \in Users, NEW h \in Handles, Closes(u, h)
      PROVE  HeldMeansOwn'
  <2>1. /\ held'[u][h] = NoFd
        /\ \A v \in Users, g \in Handles : v # u \/ g # h => held'[v][g] = held[v][g]
    BY <1>3, HoldSets DEF Closes
  <2>2. open \subseteq Fds
    BY DEF ShapeTypes
  <2>3. handle' = [handle EXCEPT ![h] = handle[h]] \/ handle' = [handle EXCEPT ![h] = -1]
    BY <1>3, <2>2, CloseSlotEffect DEF Closes
  <2>4. \A g \in Handles \ {h} : handle'[g] = handle[g]
    BY <2>3 DEF ShapeTypes
  <2>5. h # 0 => \A v \in Users \ {u} : held[v][h] = NoFd
    BY <1>3 DEF Closes, HeldMeansOwn
  <2>6. QED
    BY <2>1, <2>4, <2>5 DEF HeldMeansOwn
<1>4. ASSUME NEW h \in Handles, NEW f \in Fds \cup {-1}, Drops(h, f)
      PROVE  HeldMeansOwn'
  <2>1. held' = held
    BY <1>4 DEF Drops
  <2>2. open \subseteq Fds
    BY DEF ShapeTypes
  <2>3. \A g \in Handles \ {0} : handle'[g] = handle[g]
    <3>1. CASE h = 0
      <4>1. handle' = [handle EXCEPT ![h] = f]
        BY <1>4, <2>2, <3>1, CloseSlotEffect DEF Drops
      <4>2. QED
        BY <3>1, <4>1 DEF ShapeTypes
    <3>2. CASE h # 0
      <4>1. handle' = [handle EXCEPT ![h] = -1] /\ handle[h] = -1
        BY <1>4, <2>2, <3>2, CloseSlotEffect DEF Drops
      <4>2. QED
        BY <4>1 DEF ShapeTypes
    <3>3. QED
      BY <3>1, <3>2
  <2>4. QED
    BY <2>1, <2>3 DEF HeldMeansOwn
<1>5. QED
  BY <1>1, <1>2, <1>3, <1>4 DEF Shapes

\* sock.h:169-380: whatever calls the users make and whichever of them fail, a handle other
\* than the null handle means its user's socket until that user closes it or a call on it
\* fails, and no other user is given it in between.
THEOREM HandlesMeanTheirSockets == Spec => []HeldMeansOwn
<1>1. Init => ShapeTypes /\ HeldMeansOwn
  BY DEF Init, ShapeTypes, HeldMeansOwn
<1>2. ShapeTypes /\ HeldMeansOwn /\ [Next]_vars => (ShapeTypes /\ HeldMeansOwn)'
  <2>1. ASSUME ShapeTypes, HeldMeansOwn, [Next]_vars PROVE (ShapeTypes /\ HeldMeansOwn)'
    <3>1. Shapes
      BY <2>1, StepShape DEF ShapeTypes
    <3>2. QED
      BY <2>1, <3>1, ShapeTypesStep, HeldStep
  <2>2. QED
    BY <2>1
<1>3. QED
  BY <1>1, <1>2, PTL DEF Spec

-----------------------------------------------------------------------------
(* No descriptor is left behind. *)

Kept(f) == InSlot(f)' \/ (f \in open /\ ~InSlot(f))

\* Each of the four leaves what it has opened in a slot, and what was in one in one.
LEMMA NothingLeft ==
  ASSUME ShapeTypes, Shapes, NEW f \in open' \ {0, handle'[0]}
  PROVE  Kept(f)
<1>1. CASE Stays
  BY <1>1 DEF Stays, Kept, InSlot
<1>2. ASSUME NEW u \in Users, NEW h \in Handles, NEW e \in Fds, Gives(u, h, e)
      PROVE  Kept(f)
  <2>1. handle'[h] = e /\ \A g \in Handles \ {h} : handle'[g] = handle[g]
    BY <1>2 DEF Gives, ShapeTypes
  <2>2. h = 0 \/ handle[h] = -1
    BY <1>2 DEF Gives
  <2>3. open' = open \cup {e} /\ open \subseteq Fds
    BY <1>2 DEF Gives, ShapeTypes
  <2>4. QED
    BY <2>1, <2>2, <2>3, ConstantFacts DEF Kept, InSlot
<1>3. ASSUME NEW u \in Users, NEW h \in Handles, Closes(u, h)
      PROVE  Kept(f)
  <2>1. open \subseteq Fds
    BY DEF ShapeTypes
  <2>2. CASE h = 0
    <3>1. handle' = [handle EXCEPT ![0] = handle[0]] /\ open' = open
      BY <1>3, <2>1, <2>2, CloseSlotEffect DEF Closes
    <3>2. \A g \in Handles \ {0} : handle'[g] = handle[g]
      BY <3>1 DEF ShapeTypes
    <3>3. QED
      BY <3>1, <3>2 DEF Kept, InSlot
  <2>3. CASE h # 0
    <3>1. /\ handle' = [handle EXCEPT ![h] = -1]
          /\ open' = IF handle[h] = 0 THEN open ELSE open \ {handle[h]}
      BY <1>3, <2>1, <2>3, CloseSlotEffect DEF Closes
    <3>2. \A g \in Handles \ {h} : handle'[g] = handle[g]
      BY <3>1 DEF ShapeTypes
    <3>3. f \in open /\ f # handle[h]
      BY <3>1
    <3>4. QED
      BY <3>2, <3>3 DEF Kept, InSlot
  <2>4. QED
    BY <2>2, <2>3
<1>4. ASSUME NEW h \in Handles, NEW e \in Fds \cup {-1}, Drops(h, e)
      PROVE  Kept(f)
  <2>1. open \subseteq Fds
    BY DEF ShapeTypes
  <2>2. CASE h = 0
    <3>1. handle' = [handle EXCEPT ![0] = e] /\ open' = open \cup ({e} \cap Fds)
      BY <1>4, <2>1, <2>2, CloseSlotEffect DEF Drops
    <3>2. handle'[0] = e /\ \A g \in Handles \ {0} : handle'[g] = handle[g]
      BY <3>1, ConstantFacts DEF ShapeTypes
    <3>3. f \in open
      BY <3>1, <3>2
    <3>4. QED
      BY <3>2, <3>3 DEF Kept, InSlot
  <2>3. CASE h # 0
    <3>1. /\ handle' = [handle EXCEPT ![h] = -1]
          /\ handle[h] = -1
          /\ open' = IF e = 0 THEN open \cup ({e} \cap Fds)
                     ELSE (open \cup ({e} \cap Fds)) \ {e}
      BY <1>4, <2>1, <2>3, CloseSlotEffect DEF Drops
    <3>2. \A g \in Handles : handle'[g] = handle[g]
      BY <3>1 DEF ShapeTypes
    <3>3. f \in open
      BY <3>1
    <3>4. QED
      BY <3>2, <3>3 DEF Kept, InSlot
  <2>4. QED
    BY <2>2, <2>3
<1>5. QED
  BY <1>1, <1>2, <1>3, <1>4 DEF Shapes

\* sock.h:169-332: no call, whichever of its steps fails, leaves a descriptor open that no
\* slot holds, slot 0 and descriptor 0 apart.
THEOREM NoDescriptorIsLost == Spec => NoFdLeak
<1>1. Init => ShapeTypes
  BY DEF Init, ShapeTypes
<1>2. ShapeTypes /\ [Next]_vars
        => ShapeTypes' /\ \A f \in open' \ {0, handle'[0]} :
                            InSlot(f)' \/ (f \in open /\ ~InSlot(f))
  <2>1. ASSUME ShapeTypes, [Next]_vars
        PROVE  ShapeTypes' /\ \A f \in open' \ {0, handle'[0]} : Kept(f)
    <3>1. Shapes
      BY <2>1, StepShape DEF ShapeTypes
    <3>2. QED
      BY <2>1, <3>1, ShapeTypesStep, NothingLeft
  <2>2. QED
    BY <2>1 DEF Kept
<1>3. QED
  BY <1>1, <1>2, PTL DEF Spec, NoFdLeak

-----------------------------------------------------------------------------
(* Every slot in use has somebody who can close it. *)

\* Each of the four gives a slot that it leaves in use to somebody, or leaves it with
\* whoever had it, or abandons it.
LEMMA HolderStep ==
  ASSUME ShapeTypes, NoSlotLost, Shapes
  PROVE  NoSlotLost'
<1>1. CASE Stays
  <2>1. CASE UNCHANGED <<held, abandoned>>
    BY <1>1, <2>1 DEF Stays, NoSlotLost
  <2>2. ASSUME NEW u \in Users, NEW h \in Handles, Abandons(u, h) PROVE NoSlotLost'
    <3>1. \A v \in Users, g \in Handles : v # u \/ g # h => held'[v][g] = held[v][g]
      BY <2>2, HoldSets DEF Abandons
    <3>2. handle' = handle /\ abandoned' = abandoned \cup {h}
      BY <1>1, <2>2 DEF Stays, Abandons
    <3>3. QED
      BY <3>1, <3>2 DEF NoSlotLost
  <2>3. QED
    BY <1>1, <2>1, <2>2 DEF Stays
<1>2. ASSUME NEW u \in Users, NEW h \in Handles, NEW f \in Fds, Gives(u, h, f)
      PROVE  NoSlotLost'
  <2>1. /\ held'[u][h] = f /\ f # NoFd
        /\ \A v \in Users, g \in Handles : v # u \/ g # h => held'[v][g] = held[v][g]
    BY <1>2, HoldSets, FdsAssumption DEF Gives
  <2>2. \A g \in Handles \ {h} : handle'[g] = handle[g]
    BY <1>2 DEF Gives, ShapeTypes
  <2>3. abandoned' = abandoned
    BY <1>2 DEF Gives
  <2>4. QED
    BY <2>1, <2>2, <2>3 DEF NoSlotLost
<1>3. ASSUME NEW u \in Users, NEW h \in Handles, Closes(u, h)
      PROVE  NoSlotLost'
  <2>1. \A v \in Users, g \in Handles : v # u \/ g # h => held'[v][g] = held[v][g]
    BY <1>3, HoldSets DEF Closes
  <2>2. open \subseteq Fds
    BY DEF ShapeTypes
  <2>3. /\ h # 0 => handle' = [handle EXCEPT ![h] = -1]
        /\ h = 0 => handle' = [handle EXCEPT ![h] = handle[h]]
    BY <1>3, <2>2, CloseSlotEffect DEF Closes
  <2>4. /\ h # 0 => handle'[h] = -1
        /\ \A g \in Handles \ {h} : handle'[g] = handle[g]
    BY <2>3 DEF ShapeTypes
  <2>5. abandoned' = abandoned
    BY <1>3 DEF Closes
  <2>6. QED
    BY <2>1, <2>4, <2>5 DEF NoSlotLost
<1>4. ASSUME NEW h \in Handles, NEW f \in Fds \cup {-1}, Drops(h, f)
      PROVE  NoSlotLost'
  <2>1. held' = held /\ abandoned' = abandoned
    BY <1>4 DEF Drops
  <2>2. open \subseteq Fds
    BY DEF ShapeTypes
  <2>3. /\ h # 0 => handle' = [handle EXCEPT ![h] = -1]
        /\ h = 0 => handle' = [handle EXCEPT ![h] = f]
    BY <1>4, <2>2, CloseSlotEffect DEF Drops
  <2>4. /\ h # 0 => handle'[h] = -1
        /\ \A g \in Handles \ {h} : handle'[g] = handle[g]
    BY <2>3 DEF ShapeTypes
  <2>5. QED
    BY <2>1, <2>4 DEF NoSlotLost
<1>5. QED
  BY <1>1, <1>2, <1>3, <1>4 DEF Shapes

\* sock.h:169-355: whichever system calls fail, on both platforms, every slot in use but the
\* null handle's has a user who can close it, unless a send that went on returned -1 for it.
THEOREM NoSlotIsLost == Spec => []NoSlotLost
<1>1. Init => ShapeTypes /\ NoSlotLost
  BY DEF Init, ShapeTypes, NoSlotLost
<1>2. ShapeTypes /\ NoSlotLost /\ [Next]_vars => (ShapeTypes /\ NoSlotLost)'
  <2>1. ASSUME ShapeTypes, NoSlotLost, [Next]_vars PROVE (ShapeTypes /\ NoSlotLost)'
    <3>1. Shapes
      BY <2>1, StepShape DEF ShapeTypes
    <3>2. QED
      BY <2>1, <3>1, ShapeTypesStep, HolderStep
  <2>2. QED
    BY <2>1
<1>3. QED
  BY <1>1, <1>2, PTL DEF Spec
=============================================================================
