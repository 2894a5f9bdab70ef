-------------------------------- MODULE Syscalls --------------------------------
(***************************************************************************)
(* The system calls of the self-test software (sbst/syscalls.c, the same   *)
(* file as tb/core/custom/syscalls.c): a heap between the linker's symbols *)
(* __heap_start and __heap_end, one output register, an exit register, and *)
(* calls that do nothing but fail.  An address is a number of bytes; the   *)
(* program asks for memory and gives it back as malloc does.               *)
(***************************************************************************)
EXTENDS Integers, Sequences

CONSTANTS
  heap_start, heap_end,  \* __heap_start, __heap_end
  Increments,            \* what the break is moved by
  Bytes, Statuses,       \* what is written, and exited with
  MaxOut                 \* bound: bytes given to the output register

None == "none"

VARIABLES
  brk,
  owned,     \* the addresses the program has been given and has not returned
  errno,
  stdout,    \* what STDOUT_REG has been given
  exit_reg   \* EXIT_REG

vars == <<brk, owned, errno, stdout, exit_reg>>

Init ==
  /\ brk = heap_start
  /\ owned = {}
  /\ errno = None
  /\ stdout = <<>>
  /\ exit_reg = None

-----------------------------------------------------------------------------
\* The break moves before it is compared, and again when it is below the end.
NextBrk(incr) ==
  LET moved == brk + incr
  IN  IF moved < heap_end THEN moved + incr ELSE heap_end

\* There is no failure, but a heap without size has no addresses.
Sbrk(incr) ==
  /\ brk' = IF heap_start = heap_end THEN brk ELSE NextBrk(incr)
  /\ owned' = IF heap_start = heap_end THEN owned
              ELSE IF incr >= 0 THEN owned \cup (brk .. (brk + incr - 1))
              ELSE {a \in owned : a < brk + incr}
  /\ UNCHANGED <<errno, stdout, exit_reg>>

\* The break is put where the caller says.
Brk(addr) ==
  /\ brk' = addr
  /\ owned' = {a \in owned : a < addr}
  /\ UNCHANGED <<errno, stdout, exit_reg>>

Write(file, byte) ==
  /\ IF file # 1
     THEN errno' = "ENOSYS" /\ UNCHANGED stdout
     ELSE stdout' = Append(stdout, byte) /\ UNCHANGED errno
  /\ Len(stdout') <= MaxOut
  /\ UNCHANGED <<brk, owned, exit_reg>>

\* The wfi behind it may end: the caller goes on.
Exit(status) ==
  /\ exit_reg' = status
  /\ UNCHANGED <<brk, owned, errno, stdout>>

\* What the other calls leave in errno, by call; some leave it alone.
ProcessErrors ==
  [ENOSYS |-> {"nanosleep", "access", "chdir", "chmod", "chown", "faccessat",
               "fstatat", "ftime"},
   ENOMEM |-> {"execve"}, EAGAIN |-> {"fork"}, EINVAL |-> {"kill"}, EMLINK |-> {"link"},
   minusENOSYS |-> {"getcwd", "gettimeofday"},
   none |-> {"close", "fstat", "getpid", "isatty"}]

FileErrors ==
  [ENOSYS |-> {"lstat", "openat", "utime"}, ENOENT |-> {"unlink"}, ECHILD |-> {"wait"},
   none |-> {"lseek", "open", "read", "stat", "sysconf", "times"}]

Fail(errors) ==
  /\ \E e \in DOMAIN errors : errno' = IF e = None THEN errno ELSE e
  /\ UNCHANGED <<brk, owned, stdout, exit_reg>>

Next ==
  \/ \E incr \in Increments : Sbrk(incr)
  \/ \E addr \in heap_start .. heap_end : Brk(addr)
  \/ \E file \in 0..2, byte \in Bytes : Write(file, byte)
  \/ \E status \in Statuses : Exit(status)
  \/ Fail(ProcessErrors) \/ Fail(FileErrors)

Spec == Init /\ [][Next]_vars

-----------------------------------------------------------------------------
(***************************************************************************)
(* The memory the program is given lies in the section the linker script   *)
(* reserves for the heap, and not in the stack behind it.                  *)
(***************************************************************************)
HeapIsReserved == owned \subseteq heap_start .. (heap_end - 1)
=============================================================================
