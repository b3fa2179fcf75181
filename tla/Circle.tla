------------------------------ MODULE Circle ------------------------------
(***************************************************************************)
(* The ring buffer `Circle` of cclockfreequeue.h and its index arithmetic, *)
(* free of any state: what a ring looks like when it is made, which cell   *)
(* an index uses, and which sign byte a cell carries.                      *)
(*                                                                         *)
(* Indices are uint32_t.  A ring of m_nTotalSize cells accepts the window  *)
(* of indices [m_nBeginIndex, m_nBeginIndex + CheckTotalSize); indices of  *)
(* one micro queue are ThreadWriteIndexModeIndex apart.  The ring has two  *)
(* halves; the run of indices that fill one half once is a half-lap, and a *)
(* cell's byte m_nWrite names the half-lap (modulo 4) that last used it:   *)
(*     0            never written                                          *)
(*     Sign(h) + 1  written in half-lap h, not read                        *)
(*     Sign(h)      read in half-lap h                                     *)
(***************************************************************************)
EXTENDS Integers

CONSTANTS
  WordSize,                   \* 2^32: uint32_t arithmetic is modulo this
  ThreadWriteIndexModeIndex,  \* number of micro queues, a power of two
  BlockDefaultPerSize         \* cells in half of the first ring, a power of two

ASSUME WordAssumption == WordSize \in Nat \ {0}
ASSUME ModeAssumption ==
  /\ ThreadWriteIndexModeIndex \in Nat \ {0}
  /\ WordSize % ThreadWriteIndexModeIndex = 0
ASSUME BlockAssumption == BlockDefaultPerSize \in Nat \ {0}

(* A uint32_t holding n, and the uint32_t difference of two of them. *)
Word(n) == n % WordSize
Minus(a, b) == (a - b) % WordSize

(* Payload of a cell no push has reached. *)
NoData == -1

(* The fields of a ring; its pool is kept apart.  m_bReleased stands for   *)
(* m_pPool being freed by ReleasePool. *)
NewCircle(begin, size) ==
  [m_nResBeginIndex |-> begin,
   m_nBeginIndex    |-> begin,
   m_nTotalSize     |-> size,
   m_bNoWrite       |-> FALSE,
   m_bReleased      |-> FALSE]

(* The zeroed pool a ring starts with. *)
NewPool(c) ==
  [i \in 0 .. c.m_nTotalSize - 1 |-> [m_pData |-> NoData, m_nWrite |-> 0]]

CreateCircle(begin) == NewCircle(Word(begin), 2 * BlockDefaultPerSize)

(* m_nCheckTotalSizeValue: the width of the window in indices. *)
CheckTotalSize(c) == Word(c.m_nTotalSize * ThreadWriteIndexModeIndex)

(* Mutants: the next ring starts after half of the window, or one index    *)
(* too far. *)
CreateNextCircleHalf(c) ==
  NewCircle(Word(c.m_nBeginIndex
                   + (c.m_nTotalSize \div 2) * ThreadWriteIndexModeIndex),
            2 * c.m_nTotalSize)
CreateNextCirclePast(c) ==
  NewCircle(Word(c.m_nBeginIndex + CheckTotalSize(c)
                   + ThreadWriteIndexModeIndex),
            2 * c.m_nTotalSize)

CreateNextCircle(c) ==
  NewCircle(Word(c.m_nBeginIndex + CheckTotalSize(c)), 2 * c.m_nTotalSize)

PerSize(c) == c.m_nTotalSize \div 2

(* nSetIndex: the position of index n counted from the ring's creation. *)
SetIndex(c, n) == Minus(Word(n), c.m_nResBeginIndex) \div ThreadWriteIndexModeIndex

CellOf(c, n) == SetIndex(c, n) % c.m_nTotalSize

(* The cell looked at in step k of a scan that starts at index n's half:   *)
(* steps 0 .. PerSize-1 cover that half, the next PerSize the other one.   *)
ScanCell(c, n, k) == (SetIndex(c, n) + k) % c.m_nTotalSize

HalfLap(c, n) == Word(SetIndex(c, n) * 2) \div c.m_nTotalSize

Sign(h) == ((Word(h) % 4) + 1) * 16
WrittenSign(c, n) == Sign(HalfLap(c, n)) + 1
ReadSign(c, n) == Sign(HalfLap(c, n))

(* What a fully read ring shows at step k of a scan by the index n that    *)
(* comes right after the window: half-lap h - 2, then half-lap h - 1.      *)
ScanSign(c, n, k) ==
  Sign(HalfLap(c, n) - (IF k < PerSize(c) THEN 2 ELSE 1))

(* Mutant: the index is kept in a wider word. *)
AdvancedBeginWide(c, begin) == begin + PerSize(c) * ThreadWriteIndexModeIndex

AdvancedBegin(c, begin) ==
  Word(begin + PerSize(c) * ThreadWriteIndexModeIndex)
===========================================================================
