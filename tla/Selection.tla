------------------------------- MODULE Selection --------------------------------
(***************************************************************************)
(* The elements of a sequence that are in a set, in their order: SelectSeq  *)
(* of module Sequences with a set for its test.  A test is an operator, and *)
(* about operators the provers know nothing; SelectionProofs has the facts  *)
(* about Select.                                                            *)
(***************************************************************************)
EXTENDS Naturals, Sequences

(* What has been selected of the first i elements. *)
Selected(s, S) ==
  LET selected[i \in 0 .. Len(s)] ==
        IF i = 0 THEN << >>
        ELSE IF s[i] \in S THEN Append(selected[i - 1], s[i])
        ELSE selected[i - 1]
  IN selected

Select(s, S) == Selected(s, S)[Len(s)]
================================================================================
