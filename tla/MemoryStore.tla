----------------------------- MODULE MemoryStore -----------------------------
(***************************************************************************)
(* How Bluesim's memories (bs_prim_mod_bram.h, bs_prim_mod_regfile.h) are  *)
(* laid out and loaded.                                                    *)
(*                                                                         *)
(* The storage is a tree of blocks.  Each level takes some bits of the     *)
(* address; a block is allocated when a word under it is written.          *)
(*                                                                         *)
(* A file is loaded by one of four format handlers, which read an address  *)
(* or an entry at a time, and by the RangeTracker, which reports the       *)
(* addresses that the file left out or had more than once.                 *)
(***************************************************************************)
EXTENDS Integers, Sequences, SequencesExt

CONSTANTS
  MaxAddrBits,    \* the widest address of a memory
  MaxLookup,      \* bound: the widest memory of which words are looked up
  Memories,       \* address types and ranges: bits, promoted, start, end
  MaxEntries      \* bound: entries of a file

VARIABLES
  addr_bits, level_bits,   \* the storage: level_bits has the lowest level last
  blocks,                  \* the blocks allocated, each the path that leads to it
  stored,                  \* the words written
  memory,                  \* the memory to be loaded: arguments of the constructor
  addr, rlist,             \* of the handler and its RangeTracker
  times, entries,          \* how often each address was set; entries read
  gaps, dups               \* the addresses of the reports, none before

storeVars == <<addr_bits, level_bits, blocks, stored>>

Sum(bits, from) == MapThenSumSet(LAMBDA i : bits[i], from .. Len(bits))

num_levels(b) ==
  LET n == (b + 9) \div 10
  IN  IF n > 1 /\ b % 10 \in 1 .. 4 THEN n - 1 ELSE n

Taken(bits_remaining) ==
  IF bits_remaining < 15 THEN bits_remaining ELSE IF bits_remaining > 16 THEN 10 ELSE 8

(* init_storage: one level after another, from the lowest up. *)
Levels(b) ==
  LET f[n \in 0 .. num_levels(b)] ==
        IF n = 0 THEN <<>> ELSE <<Taken(b - Sum(f[n - 1], 1))>> \o f[n - 1]
  IN  f[num_levels(b)]

init_storage(b) ==
  /\ addr_bits' = b /\ level_bits' = Levels(b)
  /\ blocks' = {<<>>} /\ stored' = {}

(* The entries through which a word is found, one of a block per level. *)
Path(idx) ==
  [level \in DOMAIN level_bits |->
     (idx \div 2 ^ Sum(level_bits, level + 1)) % 2 ^ level_bits[level]]
BlocksTo(idx) == {SubSeq(Path(idx), 1, n) : n \in 0 .. Len(level_bits) - 1}

(* lookup_value with alloc, of a write; without, it finds a word or NULL. *)
alloc(idx) ==
  /\ blocks' = blocks \cup BlocksTo(idx) /\ stored' = stored \cup {idx}
  /\ UNCHANGED <<addr_bits, level_bits>>
Found(idx) == BlocksTo(idx) \subseteq blocks

(* Words at the ends of blocks. *)
Corners == {2 ^ k - 1 : k \in 0 .. addr_bits} \cup {2 ^ addr_bits - 2 ^ k : k \in 0 .. addr_bits - 1}

StoreInit == addr_bits = 1 /\ level_bits = <<1>> /\ blocks = {<<>>} /\ stored = {}
StoreNext ==
  \/ addr_bits < MaxAddrBits /\ stored = {} /\ init_storage(addr_bits + 1)
  \/ addr_bits <= MaxLookup /\ stored = {} /\ \E idx \in Corners : alloc(idx)
StoreSpec == StoreInit /\ [][StoreNext]_storeVars

(***************************************************************************)
(* The levels take all bits of an address, no level none and none more     *)
(* than 14, however wide the address; different words have different       *)
(* places; and a word that was written is found, together with the words   *)
(* of its block only (bs_prim_mod_bram.h:253-280,399-428,                  *)
(* bs_prim_mod_regfile.h:210-237).                                         *)
(***************************************************************************)
BlocksTile ==
  /\ Sum(level_bits, 1) = addr_bits
  /\ \A i \in DOMAIN level_bits : level_bits[i] \in 1 .. 14
  /\ stored # {} => \A idx \in Corners :
       /\ MapThenSumSet(LAMBDA i : Path(idx)[i] * 2 ^ Sum(level_bits, i + 1), DOMAIN level_bits) = idx
       /\ LET leaf == 2 ^ level_bits[Len(level_bits)]
          IN  Found(idx) = (\E w \in stored : w \div leaf = idx \div leaf) \/ Len(level_bits) = 1

-----------------------------------------------------------------------------
memVars == <<memory, addr, rlist, times, entries, gaps, dups>>

Addrs == 0 .. 2 ^ memory.bits - 1
AT(n) == n % 2 ^ memory.bits                       \* assigned to an AT
Value(n) == IF memory.promoted THEN n ELSE AT(n)   \* an expression: AT may be narrower than int
inRange(a) == memory.start <= a /\ a <= memory.end
decreasing == memory.start > memory.end

MemInit ==
  /\ memory \in Memories
  /\ addr = memory.start /\ rlist = <<>>
  /\ times = [a \in Addrs |-> 0] /\ entries = 0
  /\ gaps = <<>> /\ dups = <<>>

Loading == gaps = <<>>

(* An address in the file.  One out of range is complained of and kept.    *)
updateAddress(a) ==
  /\ Loading /\ entries < MaxEntries
  /\ addr' = a
  /\ UNCHANGED <<memory, rlist, times, entries, gaps, dups>>

(* The ranges set, of which the last one is extended at either end.        *)
setAddr(list, a) ==
  LET last == list[Len(list)] IN
  CASE list = <<>> -> <<[low |-> a, high |-> a]>>
    [] list # <<>> /\ a = Value(last.high + 1) -> [list EXCEPT ![Len(list)].high = AT(@ + 1)]
    [] list # <<>> /\ a # Value(last.high + 1) /\ a = Value(last.low - 1) ->
         [list EXCEPT ![Len(list)].low = AT(@ - 1)]
    [] OTHER -> Append(list, [low |-> a, high |-> a])

(* An entry, which may be malformed.  The address moves on in any case,    *)
(* and starts over at the end of its type.                                 *)
setEntry(wellFormed) ==
  /\ Loading /\ entries < MaxEntries /\ entries' = entries + 1
  /\ IF inRange(addr) /\ wellFormed
       THEN /\ times' = [times EXCEPT ![addr] = @ + 1]
            /\ rlist' = setAddr(rlist, addr)
       ELSE UNCHANGED <<times, rlist>>
  /\ addr' = AT(IF decreasing THEN addr - 1 ELSE addr + 1)
  /\ UNCHANGED <<memory, gaps, dups>>

(***************************************************************************)
(* checkRange: the sorted ranges are gone through with the least address   *)
(* not seen yet and the least that was not reported as a duplicate.  full  *)
(* and overlapFull are those beyond end.  A report is [low, high].         *)
(***************************************************************************)
Before(x, y) == x.low < y.low \/ (x.low = y.low /\ x.high < y.high)
Sorted(list) == SortSeq(list, Before)

Start == [next |-> memory.start, overlap |-> memory.start, full |-> FALSE, overlapFull |-> FALSE,
          gaps |-> <<>>, dups |-> <<>>]

Overlap(s, e) ==
  LET high == IF e.high < s.next \/ s.full THEN e.high ELSE AT(s.next - 1)
  IN  IF s.overlapFull \/ high < s.overlap THEN s
      ELSE [s EXCEPT !.dups = Append(@, [low |-> IF e.low < s.overlap THEN s.overlap ELSE e.low, high |-> high]),
                     !.overlap = AT(high + 1),
                     !.overlapFull = (high = memory.end)]
Gap(s, e) == [s EXCEPT !.gaps = Append(@, [low |-> s.next, high |-> e.low - 1])]
MutSeen(s, e) == [s EXCEPT !.next = AT(e.high + 1), !.full = (e.high = memory.end)]
Seen(s, e) ==
  IF e.high < s.next THEN s
  ELSE [s EXCEPT !.next = AT(e.high + 1), !.full = (@ \/ e.high = memory.end)]

Step(s, e) ==
  Seen(CASE e.low < s.next \/ s.full    -> Overlap(s, e)
         [] e.low > s.next /\ ~s.full   -> Gap(s, e)
         [] OTHER                       -> s, e)

Reported(s) ==
  [s EXCEPT !.gaps = IF s.full THEN @ ELSE Append(@, [low |-> s.next, high |-> memory.end])]

(* How often each address is in a report. *)
CountOf(reports) ==
  [a \in Addrs |-> Cardinality({i \in DOMAIN reports : reports[i].low <= a /\ a <= reports[i].high})]

checkRange ==
  /\ Loading
  /\ LET s == Reported(FoldLeft(Step, Start, Sorted(rlist)))
     IN  IF rlist = <<>> THEN gaps' = CountOf(<<>>) /\ dups' = CountOf(<<>>)
         ELSE gaps' = CountOf(s.gaps) /\ dups' = CountOf(s.dups)
  /\ rlist' = <<>>
  /\ UNCHANGED <<memory, addr, times, entries>>

MemNext ==
  \/ \E a \in Addrs : updateAddress(a)
  \/ \E wellFormed \in BOOLEAN : setEntry(wellFormed)
  \/ checkRange

MemSpec == MemInit /\ [][MemNext]_memVars

(***************************************************************************)
(* After a file that sets something each address of the range that it does *)
(* not set is in one report of a gap, each that it sets more than once in  *)
(* one report of duplicates, and no other address in any, in whatever      *)
(* order the file has them (bs_range_tracker.h:64-80).                     *)
(***************************************************************************)
Once(b) == IF b THEN 1 ELSE 0
RangesReported ==
  ~Loading /\ (\E a \in Addrs : times[a] > 0) =>
    \A a \in Addrs : /\ gaps[a] = Once(inRange(a) /\ times[a] = 0)
                     /\ dups[a] = Once(times[a] > 1)

=============================================================================
