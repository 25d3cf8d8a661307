-------------------------------- MODULE Elf --------------------------------
(***************************************************************************)
(* The ELF64 parser (exec/elf.rs): what parse accepts, and where           *)
(* program_headers then reads.  The parser is a pure function of the image,*)
(* so it is a set of operators; test_elf of skmain calls it, and           *)
(* BootProofs holds its theorems.  Only the fields that decide are kept;   *)
(* the word size is a parameter M (2^64).                                  *)
(***************************************************************************)
EXTENDS Integers

MAGIC == 1179403647          \* 0x464c457f
MACHINE_RISCV == 243
TYPE_EXEC == 2

HeaderSize == 64             \* size_of::<Header>()
ProgramHeaderSize == 56      \* size_of::<ProgramHeader>()

U16_MAX == 65535
u16 == 0 .. U16_MAX

Header(M) ==
  [magic : Nat, machine : u16, obj_type : u16, phoff : 0 .. M - 1, phentsize : u16, phnum : u16]

(* The result of parse on an image of len bytes that starts with hdr: the  *)
(* early returns in their order.  checked_add fails when the sum needs     *)
(* more than a word; the product of two 16-bit fields never does.          *)
parse(hdr, len, M) ==
  LET ph_end == hdr.phoff + hdr.phnum * hdr.phentsize IN
  IF len < HeaderSize THEN "Truncated"
  ELSE IF hdr.magic # MAGIC THEN "BadMagic"
  ELSE IF hdr.machine # MACHINE_RISCV THEN "NotRiscv"
  ELSE IF hdr.obj_type # TYPE_EXEC THEN "NotExecutable"
  ELSE IF ph_end >= M \/ ph_end > len THEN "Truncated"
  ELSE "Ok"

(* Where program_headers reads header i: a stride of its own, not the      *)
(* image's phentsize, in wrapping arithmetic.                              *)
program_header(hdr, i, M) == (hdr.phoff + i * ProgramHeaderSize) % M
=============================================================================
