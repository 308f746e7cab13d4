----------------------------- MODULE MCFileStore -----------------------------
(***************************************************************************)
(* A small partition for FileStore: files that fit, that fill it, that are *)
(* acceptable but do not fit, and that are too large; with and without a   *)
(* tail.                                                                   *)
(***************************************************************************)
EXTENDS FileStore

MCUploads ==
  { [size |-> 0, tail |-> FALSE], [size |-> 1, tail |-> TRUE],
    [size |-> 2, tail |-> FALSE], [size |-> 3, tail |-> TRUE],
    [size |-> 4, tail |-> FALSE], [size |-> 5, tail |-> FALSE] }
==============================================================================
