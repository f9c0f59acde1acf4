--------------------------- MODULE MCAddressSpace ---------------------------
(***************************************************************************)
(* AddressSpace on small address spaces.                                   *)
(***************************************************************************)
EXTENDS AddressSpace

MCImage == <<1>>
MCUserStack == <<0>>

\* The task of slot 1 makes every call; what slot 2 runs only forks, execs and exits.
MCCalls ==
  <<{"fork", "execve", "exit", "brk", "mmap", "munmap", "mprotect"}, {"fork", "execve", "exit"}>>

=============================================================================
