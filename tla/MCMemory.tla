------------------------------ MODULE MCMemory ------------------------------
(***************************************************************************)
(* Instances of Memory for TLC.                                            *)
(***************************************************************************)
EXTENDS Memory, TLC

Seg(va, memsz, filesz, text, ok) ==
  [va |-> va, memsz |-> memsz, filesz |-> filesz, text |-> text, readable |-> ok]

Amounts == {1, 3, -3, -4, -7}

Small == <<Seg(0, 2, 1, "small", TRUE)>>
\* One page; a second segment that cannot be read; one that is malformed.
Progs == {Small, <<Seg(0, 2, 2, "large", TRUE), Seg(2, 1, 1, "torn", FALSE)>>,
          <<Seg(0, 1, 2, "malformed", TRUE)>>}
=============================================================================
