---------------------------- MODULE MC_LogLayout ----------------------------
(* Instances of LogLayout: one-character file name "d", transaction 1,     *)
(* block 1, pre-images 0 and 1.                                            *)
EXTENDS LogLayout

MCFileName == <<100>>
MCValues == {0, 1}
====
