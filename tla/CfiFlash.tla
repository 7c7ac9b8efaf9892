------------------------------ MODULE CfiFlash ------------------------------
(***************************************************************************)
(* The flash driver of the board support package: it reads the description *)
(* that the chip gives of itself, and writes by erasing and programming    *)
(* whole blocks, one chip operation after the other.  The chip works on    *)
(* its own, may fail or die while it does, and loses power at any time.    *)
(* A chip that works meets the times it states, so only a dead one makes   *)
(* the driver time out.                                                    *)
(***************************************************************************)
EXTENDS Integers, Sequences, SequencesExt

CONSTANTS
  Chips,          \* what alt_flash_cfi_init may find, as the chip describes it
  Patterns,       \* contents of the buffers that are written
  Lengths,        \* numbers of bytes that are written
  MaxRegions,     \* ALT_MAX_NUMBER_OF_FLASH_REGIONS
  MaxWrites, MaxPowerFails     \* bounds

ASSUME CfiFlashAssumption ==
  /\ MaxRegions \in Nat /\ MaxWrites \in Nat /\ MaxPowerFails \in Nat /\ Lengths \subseteq Nat
  /\ \A c \in Chips : /\ c.mode_width \in {1, 2, 4} /\ c.algorithm \in {"AMD", "INTEL", "other"}
                      /\ c.regions \in Seq([blocks : Nat, size : Nat])
                      /\ \A r \in DOMAIN c.regions : c.regions[r].size % c.mode_width = 0

(* Contents of a byte.                                                     *)
Erased     == <<"erased">>
Old        == <<"old">>
Junk       == <<"junk">>
Byte(p, k) == <<p, k>>

VARIABLES
  chip,                  \* the chip on the board
  blocks,                \* the driver's erase blocks, none if it has no flash
  cells, doing,          \* the chip: its bytes, and the operation it is busy with
  fault, dead, locked,   \* it reports errors; it never answers; its locked blocks
  pc, offset, length, src, i,    \* alt_flash_cfi_write and alt_flash_program_block
  pattern, ret,          \* the buffer, and ret_code
  asked, before,         \* history: the call, and the bytes when it began
  writes, fails

chipvars == <<chip, cells, doing, fault, dead, locked>>
callvars == <<offset, length, src, pattern, ret>>
history  == <<asked, before, writes, fails>>
vars     == <<blocks, chipvars, pc, i, callvars, history>>

-----------------------------------------------------------------------------
(* The chip.                                                               *)

(* Where regions that follow one another end, and how long they are.       *)
Ends(regions) ==
  LET end[r \in 0..Len(regions)] ==
        IF r = 0 THEN 0 ELSE end[r - 1] + regions[r].blocks * regions[r].size
  IN  end
Size(regions) == Ends(regions)[Len(regions)]

(* The blocks of regions, one after the other.                             *)
Lay(regions) ==
  UNION {{[offset |-> Ends(regions)[r - 1] + b * regions[r].size, size |-> regions[r].size] :
            b \in 0..(regions[r].blocks - 1)} : r \in DOMAIN regions}

(* Where its blocks are: it lists small blocks first, wherever they are.   *)
TopBoot(c)  == c.algorithm = "AMD" /\ c.boot_mode = "top"
Physical(c) == Lay(IF TopBoot(c) THEN Reverse(c.regions) ELSE c.regions)
BlockAt(a)  == CHOOSE b \in Physical(chip) : b.offset <= a /\ a < b.offset + b.size
BytesOf(b)  == b.offset..(b.offset + b.size - 1)

ReadingArray == [op |-> "read array"]
(* Bits only go from one to zero when a byte is programmed.                *)
Programmed(old, new) == IF old = Erased THEN new ELSE IF new \in {old, Erased} THEN old ELSE Junk

(* It takes a command when it is reading its array and not in an error.    *)
Listens == doing = ReadingArray /\ ~ (fault /\ chip.algorithm = "AMD")

(* The bytes that the operation works on, and what it makes of them.       *)
WorkedOn(a) == \/ doing.op = "erase" /\ a \in BytesOf(doing.block)
               \/ doing.op = "program" /\ a - doing.at \in DOMAIN doing.bytes
Worked ==
  [a \in DOMAIN cells |->
     IF ~ WorkedOn(a) THEN cells[a] ELSE
     IF doing.op = "erase" THEN Erased ELSE Programmed(cells[a], doing.bytes[a - doing.at])]

Finish ==
  /\ doing # ReadingArray /\ ~ dead
  /\ cells' = Worked
  /\ doing' = ReadingArray
  /\ UNCHANGED <<chip, fault, dead, locked, blocks, pc, i, callvars, history>>

(* An operation that is cut off spoils the bytes it was working on.        *)
Spoiled == [a \in DOMAIN cells |-> IF WorkedOn(a) THEN Junk ELSE cells[a]]

Fail ==
  /\ doing # ReadingArray /\ ~ dead
  /\ cells' = Spoiled /\ doing' = ReadingArray /\ fault' = TRUE
  /\ UNCHANGED <<chip, dead, locked, blocks, pc, i, callvars, history>>

Die ==
  /\ doing # ReadingArray /\ ~ dead
  /\ dead' = TRUE
  /\ UNCHANGED <<chip, cells, doing, fault, locked, blocks, pc, i, callvars, history>>

-----------------------------------------------------------------------------
(* alt_flash_cfi_init.                                                     *)

(* The six ways to ask a chip whether it is there, in the code's order:    *)
(* the widths of the device and of the mode, and the bit of the interface  *)
(* code that must be set.                                                  *)
Probes == <<<<1, 1, "x8">>, <<2, 1, "x8">>, <<2, 2, "x16">>, <<4, 4, "x32">>, <<4, 2, "x32">>,
            <<4, 1, "x32">>>>
alt_read_cfi_width(c) ==
  LET found == SelectSeq(Probes, LAMBDA p : p[1] = c.device_width /\ p[2] = c.mode_width)
  IN  found # <<>> => found[1][3] \in c.interface

(* alt_set_flash_width_func: a chip that answered none of them has no width.*)
alt_set_flash_width_func(c) ==
  \E p \in DOMAIN Probes : Probes[p][1] = c.device_width /\ Probes[p][2] = c.mode_width

(* Variant: the regions of a top boot part stay in the order of the table. *)
Regions_unswapped(c) == c.regions

(* The swap of the regions, for which the last and the first, the last but *)
(* one and the second, and so on change places.                            *)
Regions(c) ==
  IF c.algorithm = "AMD" /\ c.boot_mode = "top"
  THEN [r \in DOMAIN c.regions |-> c.regions[Len(c.regions) + 1 - r]] ELSE c.regions

(* alt_read_cfi_table and alt_set_flash_algorithm_func: what they accept.  *)
alt_read_cfi_table(c) ==
  /\ c.primary = "PRI" /\ Len(c.regions) <= MaxRegions
  /\ Size(c.regions) = c.device_size /\ c.algorithm \in {"AMD", "INTEL"}

alt_flash_cfi_init ==
  /\ pc = "off"
  /\ IF alt_read_cfi_width(chip) /\ alt_set_flash_width_func(chip) /\ alt_read_cfi_table(chip)
     THEN blocks' = Lay(Regions(chip)) /\ pc' = "idle"
     ELSE blocks' = {} /\ pc' = "no flash"
  /\ UNCHANGED <<chipvars, i, callvars, history>>

Init ==
  /\ chip \in Chips /\ blocks = {}
  /\ cells = [a \in 0..(Size(chip.regions) - 1) |-> IF a % 2 = 0 THEN Old ELSE Erased]
  /\ doing = ReadingArray /\ fault = FALSE /\ dead = FALSE /\ locked = Physical(chip)
  /\ pc = "off" /\ offset = 0 /\ length = 0 /\ src = 0 /\ i = 0 /\ pattern \in Patterns /\ ret = "0"
  /\ asked = [offset |-> 0, length |-> 0, dead |-> FALSE] /\ before = cells
  /\ writes = 0 /\ fails = 0

-----------------------------------------------------------------------------
(* alt_flash_cfi_write of length bytes of a buffer, inside the flash.      *)
Write(o, n, p) ==
  /\ pc = "idle" /\ writes < MaxWrites
  /\ offset' = o /\ length' = n /\ src' = 0 /\ pattern' = p /\ ret' = "0"
  /\ asked' = [offset |-> o, length |-> n, dead |-> dead] /\ before' = cells /\ writes' = writes + 1
  /\ pc' = "compare"
  /\ UNCHANGED <<blocks, chipvars, i, fails>>

(* The driver's block with the offset, and the bytes that go into it.      *)
Block == CHOOSE b \in blocks : b.offset <= offset /\ offset < b.offset + b.size
data_to_write == Min({Block.offset + Block.size - offset, length})
Src(k) == IF src + k < asked.length THEN Byte(pattern, src + k) ELSE Junk

(* Reading gives the bytes only while the chip is not saying its status.   *)
Same == Listens /\ \A k \in 0..(data_to_write - 1) : cells[offset + k] = Src(k)

(* Variant: the block is not erased before it is programmed.               *)
Compare_no_erase ==
  /\ pc = "compare"
  /\ pc' = IF Same THEN "advance" ELSE "unlock to program"
  /\ UNCHANGED <<blocks, chipvars, i, callvars, history>>

Compare ==
  /\ pc = "compare"
  /\ pc' = IF Same THEN "advance"
           ELSE IF chip.algorithm = "INTEL" THEN "unlock to erase" ELSE "erase"
  /\ UNCHANGED <<blocks, chipvars, i, callvars, history>>

(* alt_unlock_block_intel: a locked block is unlocked, but the call is     *)
(* over if the status shows an error.  What a chip that does not answer    *)
(* shows may be taken for a locked block, and then unlocking times out.    *)
BlockLocked == chip.algorithm = "INTEL" /\ BlockAt(Block.offset) \in locked
Unlock(at, next) ==
  /\ pc = at /\ i' = 0
  /\ IF Listens /\ BlockLocked THEN locked' = locked \ {BlockAt(Block.offset)}
     ELSE UNCHANGED locked
  /\ \/ ~ (Listens /\ BlockLocked /\ fault) /\ pc' = next /\ UNCHANGED ret
     \/ Listens /\ BlockLocked /\ fault /\ pc' = "idle" /\ ret' = "EIO"
     \/ chip.algorithm = "INTEL" /\ dead /\ pc' = "idle" /\ ret' = "ETIMEDOUT"
  /\ UNCHANGED <<chip, cells, doing, fault, dead, blocks, offset, length, src, pattern, history>>

(* The erase command of either algorithm; a locked block makes it fail.    *)
Erase ==
  /\ pc = "erase" /\ pc' = "erasing"
  /\ IF ~ Listens THEN UNCHANGED <<doing, fault>>
     ELSE IF BlockLocked
     THEN fault' = TRUE /\ UNCHANGED doing
     ELSE doing' = [op |-> "erase", block |-> BlockAt(Block.offset)] /\ UNCHANGED fault
  /\ UNCHANGED <<chip, cells, dead, locked, blocks, i, callvars, history>>

(* alt_flash_program_block: the words that begin before or end after the   *)
(* data keep the other bytes.                                              *)
width    == chip.mode_width
preserve == offset % width
endbytes == (offset + data_to_write) % width
Ended    == -1     \* i, once the last part of a word is programmed
NextWord ==
  IF i = 0 /\ preserve # 0
  THEN [at |-> offset - preserve, next |-> width - preserve,
        bytes |-> [k \in 0..(width - 1) |->
                     IF k < preserve THEN cells[offset - preserve + k] ELSE Src(k - preserve)]]
  ELSE IF i < data_to_write - endbytes
  THEN [at |-> offset + i, next |-> i + width, bytes |-> [k \in 0..(width - 1) |-> Src(i + k)]]
  ELSE [at |-> offset + i, next |-> Ended,
        bytes |-> [k \in 0..(width - 1) |->
                     IF k < endbytes THEN Src(i + k)
                     ELSE cells[offset + data_to_write + k - endbytes]]]

(* alt_write_word_amd and alt_write_word_intel: the command and the word.  *)
ProgramWord ==
  /\ pc = "word" /\ pc' = "programming" /\ i' = NextWord.next
  /\ IF ~ Listens THEN UNCHANGED <<doing, fault>>
     ELSE IF BlockLocked
     THEN fault' = TRUE /\ UNCHANGED doing
     ELSE /\ doing' = [op |-> "program", at |-> NextWord.at, bytes |-> NextWord.bytes]
          /\ UNCHANGED fault
  /\ UNCHANGED <<chip, cells, dead, locked, blocks, callvars, history>>

(* Where the driver goes when the chip has done what it was asked.         *)
After == IF pc = "erasing" THEN "unlock to program"
         ELSE IF i # Ended /\ (i < data_to_write - endbytes \/ endbytes # 0) THEN "word"
         ELSE "advance"

Waiting == pc \in {"erasing", "programming"}

(* The poll of either algorithm finds the chip ready.                      *)
Ready ==
  /\ Waiting /\ doing = ReadingArray
  /\ IF fault THEN ret' = "EIO" /\ pc' = "idle" ELSE pc' = After /\ UNCHANGED ret
  /\ UNCHANGED <<blocks, chipvars, i, offset, length, src, pattern, history>>

(* It gives up, but for alt_write_word_intel, which has no timeout.        *)
TimeOut ==
  /\ Waiting /\ dead /\ ~ (pc = "programming" /\ chip.algorithm = "INTEL")
  /\ ret' = "ETIMEDOUT" /\ pc' = "idle"
  /\ UNCHANGED <<blocks, chipvars, i, offset, length, src, pattern, history>>

(* On with the next block, unless this was the last one.                   *)
Advance ==
  /\ pc = "advance" /\ i' = 0
  /\ IF length = data_to_write THEN pc' = "idle" /\ UNCHANGED <<offset, length, src>>
     ELSE /\ pc' = "compare"
          /\ length' = length - data_to_write /\ src' = src + data_to_write
          /\ offset' = Block.offset + Block.size
  /\ UNCHANGED <<blocks, chipvars, pattern, ret, history>>

PowerFail ==
  /\ fails < MaxPowerFails /\ fails' = fails + 1
  /\ cells' = Spoiled /\ doing' = ReadingArray /\ fault' = FALSE /\ dead' = FALSE
  /\ locked' = Physical(chip) /\ blocks' = {} /\ pc' = "off" /\ i' = 0
  /\ ret' = "none" /\ UNCHANGED <<chip, offset, length, src, pattern, asked, before, writes>>

Next ==
  \/ alt_flash_cfi_init
  \/ \E o \in DOMAIN cells, n \in Lengths, p \in Patterns :
       o + n <= Size(chip.regions) /\ Write(o, n, p)
  \/ Compare \/ Unlock("unlock to erase", "erase") \/ Erase
  \/ Unlock("unlock to program", "word") \/ ProgramWord \/ Ready \/ TimeOut \/ Advance
  \/ Finish \/ Fail \/ Die \/ PowerFail

Spec == Init /\ [][Next]_vars

-----------------------------------------------------------------------------
(* alt_flash_cfi_write, "program the data into the flash at the selected   *)
(* address": a write that returns 0 can be read back, whatever the flash   *)
(* held before, and after earlier writes that failed or were cut off.      *)
WriteIsExact ==
  pc = "idle" /\ ret = "0" /\ writes > 0 =>
    Listens /\ \A k \in 0..(asked.length - 1) : cells[asked.offset + k] = Byte(pattern, k)

Touched(b) == BytesOf(b) \intersect (asked.offset..(asked.offset + asked.length - 1)) # {}

(* The same function, "if it needs to erase a sector it will": the bytes   *)
(* that a write has changed are in blocks that it was asked to write to,   *)
(* and of the blocks it did not come to none; but for a chip that was dead *)
(* when it began, with another call's operation.                           *)
OtherBlocksKept ==
  ~ asked.dead => \A b \in Physical(chip) :
    ~ Touched(b) \/ b.offset > offset =>
      \A a \in BytesOf(b) : cells[a] = before[a]
=============================================================================
