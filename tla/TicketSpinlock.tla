--------------------------- MODULE TicketSpinlock ---------------------------
(***************************************************************************)
(* ext/linux/ticket_spinlock.h.  The low 32 bits of the lock word are two  *)
(* half words: the ticket being served (low) and the next ticket to hand   *)
(* out (high).  Both wrap around at the width of a half word.  Tickets are *)
(* counted here in units of the increment the code adds, so TICKETS is     *)
(* 2^16 on aarch64 (increment 1) and 2^15 on x86_64 (increment 2).         *)
(***************************************************************************)
EXTENDS Integers, FiniteSets

CONSTANTS
    Threads,      \* thread numbers
    TICKETS,      \* number of distinct tickets in a half word
    DEPTH_UNIT    \* tickets per unit of the reported depth: 1 on aarch64, 2 on x86_64

ASSUME TicketAssumption ==
    /\ TICKETS \in Nat
    /\ IsFiniteSet(Threads)
    /\ Cardinality(Threads) < TICKETS

ASSUME DepthUnitAssumption == DEPTH_UNIT \in Nat \ {0}

VARIABLES
    next,     \* high half word: next ticket to hand out
    serving,  \* low half word: ticket being served
    pc,       \* where each thread is
    ticket,   \* register holding the ticket a thread drew
    reg,      \* register of the unlocked add in lock_release
    depth     \* value lock_acquire returns

vars == <<next, serving, pc, ticket, reg, depth>>

Ticket == 0..(TICKETS - 1)

\* A half-word add of one increment.
\* Mutant: the add carries out of the half word.
SuccNoWrap(k) == k + 1

Succ(k) == IF k = TICKETS - 1 THEN 0 ELSE k + 1

\* A half-word subtraction: how far b is ahead of a.
Distance(a, b) == IF b >= a THEN b - a ELSE b - a + TICKETS

Init ==
    /\ next = 0
    /\ serving = 0
    /\ pc = [t \in Threads |-> "idle"]
    /\ ticket = [t \in Threads |-> 0]
    /\ reg = [t \in Threads |-> 0]
    /\ depth = [t \in Threads |-> 0]

-----------------------------------------------------------------------------
\* The atomic add that draws a ticket returns both halves: the thread compares
\* them at once and computes the depth from them.
\* Mutant: the ticket is drawn by a plain load and a plain store, the latter
\* undoing any ticket drawn by a thread that is between the two.
TakeTicketLost(t) ==
    /\ pc[t] = "idle"
    /\ ticket' = [ticket EXCEPT ![t] = next]
    /\ depth' = [depth EXCEPT ![t] = Distance(serving, next) \div DEPTH_UNIT]
    /\ next' \in {next, Succ(next)}
    /\ pc' = [pc EXCEPT ![t] = IF next = serving THEN "locked" ELSE "spin"]
    /\ UNCHANGED <<serving, reg>>

\* Mutant: the depth subtraction is not masked to the half word and is lost
\* when the tickets have wrapped.
TakeTicketUnmasked(t) ==
    /\ pc[t] = "idle"
    /\ ticket' = [ticket EXCEPT ![t] = next]
    /\ depth' = [depth EXCEPT ![t] = IF next < serving THEN 0
                                    ELSE Distance(serving, next) \div DEPTH_UNIT]
    /\ next' = Succ(next)
    /\ pc' = [pc EXCEPT ![t] = IF next = serving THEN "locked" ELSE "spin"]
    /\ UNCHANGED <<serving, reg>>

TakeTicket(t) ==
    /\ pc[t] = "idle"
    /\ ticket' = [ticket EXCEPT ![t] = next]
    /\ depth' = [depth EXCEPT ![t] = Distance(serving, next) \div DEPTH_UNIT]
    /\ next' = Succ(next)
    /\ pc' = [pc EXCEPT ![t] = IF next = serving THEN "locked" ELSE "spin"]
    /\ UNCHANGED <<serving, reg>>

\* The wait loop re-reads the low half word until it equals the ticket.
\* Mutant: waits until the ticket has been reached or passed, comparing without wrap.
SpinOnOrder(t) ==
    /\ pc[t] = "spin"
    /\ serving >= ticket[t]
    /\ pc' = [pc EXCEPT ![t] = "locked"]
    /\ UNCHANGED <<next, serving, ticket, reg, depth>>

Spin(t) ==
    /\ pc[t] = "spin"
    /\ serving = ticket[t]
    /\ pc' = [pc EXCEPT ![t] = "locked"]
    /\ UNCHANGED <<next, serving, ticket, reg, depth>>

\* lock_release adds one increment to the low half word without atomicity: it
\* loads the half word ...
ReleaseLoad(t) ==
    /\ pc[t] = "locked"
    /\ reg' = [reg EXCEPT ![t] = serving]
    /\ pc' = [pc EXCEPT ![t] = "releasing"]
    /\ UNCHANGED <<next, serving, ticket, depth>>

\* ... and stores it back incremented.
\* Mutant: the store does not wrap at the width of the half word.
ReleaseStoreSaturating(t) ==
    /\ pc[t] = "releasing"
    /\ serving' = IF reg[t] = TICKETS - 1 THEN reg[t] ELSE reg[t] + 1
    /\ pc' = [pc EXCEPT ![t] = "idle"]
    /\ UNCHANGED <<next, ticket, reg, depth>>

ReleaseStore(t) ==
    /\ pc[t] = "releasing"
    /\ serving' = Succ(reg[t])
    /\ pc' = [pc EXCEPT ![t] = "idle"]
    /\ UNCHANGED <<next, ticket, reg, depth>>

Next ==
    \E t \in Threads :
        \/ TakeTicket(t)
        \/ Spin(t)
        \/ ReleaseLoad(t)
        \/ ReleaseStore(t)

Spec == Init /\ [][Next]_vars

\* Threads are pinned to CPUs of their own, the critical section is a bounded
\* loop: a thread that can take its next step inside the lock takes it.
Fairness ==
    \A t \in Threads : WF_vars(Spin(t) \/ ReleaseLoad(t) \/ ReleaseStore(t))

FairSpec == Spec /\ Fairness

-----------------------------------------------------------------------------
\* Threads that have drawn a ticket and not yet retired it, and those of them
\* that are past lock_acquire.
Active == {t \in Threads : pc[t] # "idle"}
Holders == {t \in Threads : pc[t] \in {"locked", "releasing"}}

\* The variables are in their ranges; a half word never leaves its width.
TypeOK ==
    /\ next \in Ticket
    /\ serving \in Ticket
    /\ pc \in [Threads -> {"idle", "spin", "locked", "releasing"}]
    /\ ticket \in [Threads -> Ticket]
    /\ reg \in [Threads -> Ticket]
    /\ depth \in [Threads -> Nat]

\* Two threads are never both between lock_acquire and the end of lock_release,
\* although the release is an unlocked read-modify-write of half the word.
MutualExclusion == \A t, u \in Holders : t = u

\* The outstanding tickets are exactly the distance between the two halves, so
\* no wrap of a half word can hand out a ticket that is still in use.
TicketsOutstanding == Distance(serving, next) = Cardinality(Active)

\* The depth lock_acquire reports is never less than the number of threads
\* still to be served before the caller (up to the bits the x86 code drops).
Before(t) == {u \in Active : Distance(serving, ticket[u]) < Distance(serving, ticket[t])}
DepthBoundsWait ==
    \A t \in Active : Cardinality(Before(t)) < (depth[t] + 1) * DEPTH_UNIT

\* Strict first-come first-served service, as the abstract FifoLock states it:
\* the queue is the active threads in the order of their tickets.
IsInOrder(q) ==
    /\ \A t \in Active : \E i \in DOMAIN q : q[i] = t
    /\ \A i, j \in DOMAIN q :
          i < j => Distance(serving, ticket[q[i]]) <= Distance(serving, ticket[q[j]])

Queue == CHOOSE q \in [1..Cardinality(Active) -> Active] : IsInOrder(q)

Fifo == INSTANCE FifoLock WITH queue <- Queue, granted <- (Holders # {})
ServedInOrder == Fifo!Spec

\* Every thread that draws a ticket is eventually served.
NoStarvation == \A t \in Threads : pc[t] = "spin" ~> pc[t] = "locked"

=============================================================================
