---------------------------- MODULE ReplayWindow ----------------------------
(***************************************************************************)
(* The anti-replay window of one layer-3 session, receiving side           *)
(* (internal/tunnel/l3/replay.go), driven the way session.open drives it   *)
(* (internal/tunnel/l3/session.go): accept, decrypt, commit, all three     *)
(* under recvMu, so one datagram is one step.                              *)
(*                                                                         *)
(* The bitmap is the set of ring slots whose bit is set.  Word and bit of  *)
(* slot() are one index here: the pair is a bijection of the index.        *)
(***************************************************************************)
EXTENDS Integers

CONSTANTS WindowBits,   \* replayWindowBits: slots in the ring
          MaxCounter    \* bound on the counters that arrive

ASSUME WindowAssumption == /\ WindowBits \in Nat \ {0}
                           /\ MaxCounter \in Nat

VARIABLES max,        \* highest counter committed, meaningful once seeded
          seeded,     \* something has been committed
          bitmap,     \* slots whose bit is set
          delivered   \* history: counters whose plaintext was handed on

windowVars == <<max, seeded, bitmap, delivered>>

Counters == 0 .. MaxCounter

-----------------------------------------------------------------------------
slot(c) == c % WindowBits

\* Mutant: the far edge of the window is two counters too far back.
acceptPastTheEdge(c) ==
  \/ ~seeded
  \/ c > max
  \/ max - c < WindowBits + 2 /\ slot(c) \notin bitmap

accept(c) ==
  \/ ~seeded
  \/ c > max
  \/ max - c < WindowBits /\ slot(c) \notin bitmap

\* Mutant: the new mark's predecessors keep the bits of a window ago.
SlidKeepingStaleBits(c) ==
  IF c <= max THEN bitmap
  ELSE IF c - max >= WindowBits THEN {}
  ELSE bitmap \ {slot(c)}

\* What commit leaves in the ring: a jump of a whole window wipes it, a shorter
\* one clears the slots between the old mark and the new one.
Slid(c) ==
  IF c <= max THEN bitmap
  ELSE IF c - max >= WindowBits THEN {}
  ELSE bitmap \ {slot(k) : k \in max + 1 .. c}

commit(c) ==
  /\ seeded' = TRUE
  /\ max' = IF ~seeded \/ c > max THEN c ELSE max
  /\ bitmap' = (IF seeded THEN Slid(c) ELSE bitmap) \cup {slot(c)}

-----------------------------------------------------------------------------
WindowInit ==
  /\ max = 0
  /\ seeded = FALSE
  /\ bitmap = {}
  /\ delivered = {}

\* A datagram whose tag verifies: a first copy, a duplicate or a late one.
OpenGenuine(c) ==
  /\ accept(c)
  /\ commit(c)
  /\ delivered' = delivered \cup {c}

\* errReplayed: turned away before the decryption, nothing is recorded.
OpenReplayed(c) ==
  /\ ~accept(c)
  /\ UNCHANGED windowVars

\* Mutant: the counter of a datagram that failed to decrypt is committed.
OpenForgedCommits(c) ==
  /\ accept(c)
  /\ commit(c)
  /\ UNCHANGED delivered

\* A datagram that does not authenticate: Decrypt fails before commit.
OpenForged(c) ==
  /\ accept(c)
  /\ UNCHANGED windowVars

open(c) == OpenGenuine(c) \/ OpenReplayed(c) \/ OpenForged(c)

WindowNext == \E c \in Counters : open(c)

WindowSpec == WindowInit /\ [][WindowNext]_windowVars

-----------------------------------------------------------------------------
\* The type invariant: the mark and the counters are counters, the bits are slots.
WindowTypeOK ==
  /\ max \in Counters
  /\ seeded \in BOOLEAN
  /\ bitmap \in SUBSET (0 .. WindowBits - 1)
  /\ delivered \in SUBSET Counters

InWindow(c) == c <= max /\ max - c < WindowBits

\* At most once: no counter whose packet was handed to the interface is ever
\* eligible again, whatever order, duplication or sliding came in between
\* (session.open refuses it with errReplayed).
NeverTwice == \A c \in delivered : ~accept(c)

\* No packet is lost to stale bits or to forgeries: while a counter is inside
\* the window and its packet has not been delivered, the window still takes it.
\* The comments of commit (stale bits "would reject packets that have never
\* arrived") and of open (a forged datagram must not "drag the window past
\* every genuine packet still in flight") promise exactly this.
NoFalseRefusal ==
  \A c \in Counters : InWindow(c) /\ c \notin delivered => accept(c)

\* The strengthening both need: the ring is exactly the delivered counters of
\* the window, and nothing above the mark has been delivered.
RingIsWindow ==
  /\ ~seeded => bitmap = {} /\ delivered = {}
  /\ \A c \in delivered : c <= max
  /\ seeded => max \in delivered
  /\ \A c \in Counters : seeded /\ InWindow(c) => (slot(c) \in bitmap <=> c \in delivered)
=============================================================================
